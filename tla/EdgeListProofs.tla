--------------------------- MODULE EdgeListProofs ---------------------------
(***************************************************************************)
(* Facts about the operators of EdgeList.tla, for lists of every length:   *)
(* the shape of the lists that they make, where a search ends, and what is *)
(* moved: redistribute, double_list, half_list and the slides keep all the *)
(* elements of the list and their order.  The last part says which slots   *)
(* insert writes.                                                          *)
(***************************************************************************)
EXTENDS EdgeList, Arithmetic

PowersOfTwo == {2^k : k \in Nat}

----------------------------------------------------------------------------
(* Geometry.                                                               *)

\* bsr_word: the exponent of the greatest power of two up to n.
LEMMA BsrFound ==
  ASSUME NEW n \in Nat \ {0}
  PROVE  Bsr(n) \in Nat /\ 2^Bsr(n) <= n /\ n < 2^(Bsr(n) + 1)
<1> DEFINE T == {k \in Nat : n < 2^k}
<1>1. n \in T
  BY Powers
<1>2. PICK k \in T : \A y \in T : k <= y
  BY <1>1, LeastNat
<1>3. k # 0
  <2>1. 2^0 = 1 /\ ~(n < 1)
    BY Powers
  <2>2. k = 0 => n < 2^0
    BY <1>2, Zenon
  <2> QED
    BY <2>1, <2>2
<1>4. k - 1 \in 0 .. n /\ k - 1 \notin T
  BY <1>1, <1>2, <1>3
<1>5. 2^(k - 1) <= n
  BY <1>4, Powers
<1>6. n < 2^((k - 1) + 1)
  <2>1. (k - 1) + 1 = k
    BY <1>2
  <2> QED
    BY <1>2, <2>1, Zenon
<1>7. \E b \in 0 .. n : 2^b <= n /\ n < 2^(b + 1)
  BY <1>4, <1>5, <1>6
<1>8. Bsr(n) \in 0 .. n /\ 2^Bsr(n) <= n /\ n < 2^(Bsr(n) + 1)
  BY <1>7, Zenon DEF Bsr
<1> QED
  BY <1>8

\* No other exponent has that property.
LEMMA BsrUnique ==
  ASSUME NEW n \in Nat, NEW k \in Nat, 2^k <= n, n < 2^(k + 1)
  PROVE  Bsr(n) = k
<1>1. n # 0
  BY Powers
<1>2. Bsr(n) \in Nat /\ 2^Bsr(n) <= n /\ n < 2^(Bsr(n) + 1)
  BY <1>1, BsrFound
<1>3. ASSUME NEW a \in Nat, NEW b \in Nat, a < b, 2^b <= n, n < 2^(a + 1) PROVE FALSE
  <2>1. 2^(a + 1) <= 2^b
    BY <1>3, PowersAscend
  <2>2. 2^(a + 1) \in Nat /\ 2^b \in Nat
    BY Powers
  <2> QED
    BY <1>3, <2>1, <2>2
<1>4. ~(Bsr(n) < k) /\ ~(k < Bsr(n))
  BY <1>2, <1>3
<1> QED
  BY <1>2, <1>4

\* The leaves of an array of 2^k slots: 2^j slots each, under a tree of height
\* h, which is 0 when the array has less than 8 slots.
LEMMA Geometry ==
  ASSUME NEW k \in Nat
  PROVE  \E j, h \in Nat : /\ LogN(2^k) = 2^j /\ Height(2^k) = h
                           /\ k = j + h /\ (h > 0 <=> k >= 3)
<1>1. Bsr(2^k) = k
  <2>1. 2^k \in Nat /\ 2^(k + 1) = 2 * 2^k /\ k < 2^k
    BY Powers, PowerPlusOne
  <2> QED
    BY <2>1, BsrUnique
<1>2. LogN(2^k) = 2^Bsr(2 * k + 1)
  BY <1>1 DEF LogN
<1>3. /\ 2^1 = 2 /\ 2^2 = 4 /\ 2^3 = 8
  <2>1. 2^(0 + 1) = 2 * 2^0 /\ 2^0 = 1 /\ 2^(1 + 1) = 2 * 2^1 /\ 2^(2 + 1) = 2 * 2^2
    BY Powers, PowerPlusOne
  <2>2. 0 + 1 = 1 /\ 1 + 1 = 2 /\ 2 + 1 = 3
    OBVIOUS
  <2> QED
    BY <2>1, <2>2
<1>4. PICK j \in Nat : j = Bsr(2 * k + 1) /\ j <= k /\ (j < k <=> k >= 3)
  <2>1. CASE k < 3
    <3>1. k = 0 \/ k = 1 \/ k = 2
      BY <2>1
    <3>2. /\ 2^0 = 1 /\ 2^(0 + 1) = 2
          /\ 2^(1 + 1) = 4 /\ 2^(2 + 1) = 8
      BY <1>3, Powers
    <3>3. Bsr(1) = 0
      <4>1. 2^0 <= 1 /\ 1 < 2^(0 + 1)
        BY <3>2
      <4> QED
        BY <4>1, BsrUnique
    <3>4. Bsr(3) = 1
      <4>1. 2^1 <= 3 /\ 3 < 2^(1 + 1)
        BY <1>3, <3>2
      <4> QED
        BY <4>1, BsrUnique
    <3>5. Bsr(5) = 2
      <4>1. 2^2 <= 5 /\ 5 < 2^(2 + 1)
        BY <1>3, <3>2
      <4> QED
        BY <4>1, BsrUnique
    <3>6. 2 * 0 + 1 = 1 /\ 2 * 1 + 1 = 3 /\ 2 * 2 + 1 = 5
      OBVIOUS
    <3>7. Bsr(2 * k + 1) = k
      BY <3>1, <3>3, <3>4, <3>5, <3>6, Zenon
    <3> QED
      BY <2>1, <3>7
  <2>2. CASE k >= 3
    <3> DEFINE T == {m \in Nat : 2 * (3 + m) + 1 < 2^(3 + m)}
    <3>1. 0 \in T
      BY <1>3
    <3>2. ASSUME NEW m \in Nat, m \in T PROVE m + 1 \in T
      <4>1. 2^((3 + m) + 1) = 2 * 2^(3 + m) /\ 2^(3 + m) \in Nat
        BY Powers, PowerPlusOne
      <4>2. (3 + m) + 1 = 3 + (m + 1)
        OBVIOUS
      <4>3. 2^(3 + (m + 1)) = 2 * 2^(3 + m)
        BY <4>1, <4>2, Zenon
      <4> QED
        BY <3>2, <4>1, <4>3
    <3>3. k - 3 \in T
      <4> HIDE DEF T
      <4> QED
        BY <2>2, <3>1, <3>2, Induction
    <3>4. 3 + (k - 3) = k
      BY <2>2
    <3>5. 2 * k + 1 < 2^k
      BY <3>3, <3>4
    <3>6. Bsr(2 * k + 1) \in Nat /\ 2^Bsr(2 * k + 1) <= 2 * k + 1
      BY BsrFound
    <3>7. ~(k <= Bsr(2 * k + 1))
      <4>1. SUFFICES ASSUME k <= Bsr(2 * k + 1) PROVE FALSE
        OBVIOUS
      <4>2. 2^k <= 2^Bsr(2 * k + 1) /\ 2^k \in Nat /\ 2^Bsr(2 * k + 1) \in Nat
        BY <3>6, <4>1, PowersAscend, Powers
      <4> QED
        BY <3>5, <3>6, <4>2
    <3> QED
      BY <2>2, <3>6, <3>7
  <2> QED
    BY <2>1, <2>2
<1>5. 2^k \div 2^j = 2^(k - j)
  <2>1. j + (k - j) = k /\ k - j \in Nat
    BY <1>4
  <2>2. 2^j * 2^(k - j) = 2^k
    BY <2>1, PowerSum
  <2>3. 2^j \in Nat \ {0} /\ 2^(k - j) \in Nat /\ 2^k \in Nat
    BY <2>1, Powers
  <2>4. 2^(k - j) * 2^j = 2^k
    BY <2>2, <2>3
  <2> QED
    BY <2>3, <2>4, Division
<1>6. Bsr(2^(k - j)) = k - j
  <2>1. k - j \in Nat
    BY <1>4
  <2>2. 2^(k - j) \in Nat /\ 2^((k - j) + 1) = 2 * 2^(k - j) /\ 2^(k - j) > 0
    BY <2>1, Powers, PowerPlusOne
  <2> QED
    BY <2>1, <2>2, BsrUnique
<1>7. LogN(2^k) = 2^j /\ Height(2^k) = k - j
  BY <1>2, <1>4, <1>5, <1>6 DEF Height
<1>8. k - j \in Nat /\ k = j + (k - j) /\ (k - j > 0 <=> k >= 3)
  BY <1>4
<1> QED
  BY <1>7, <1>8

----------------------------------------------------------------------------
(* Choices.                                                                *)

\* Least finds the least of some natural numbers, Greatest the greatest.
LEMMA LeastFound ==
  ASSUME NEW T, T \subseteq Nat, T # {}
  PROVE  Least(T) \in T /\ \A y \in T : Least(T) <= y
<1>1. \E x \in T : \A y \in T : x <= y
  BY LeastNat
<1> QED
  BY <1>1, Zenon DEF Least

\* Greatest is the greatest, in a bounded set.
LEMMA GreatestFound ==
  ASSUME NEW n \in Nat, NEW T, T \subseteq 0 .. n, T # {}
  PROVE  Greatest(T) \in T /\ \A y \in T : y <= Greatest(T)
<1> DEFINE U == {k \in Nat : n - k \in T}
<1>1. U # {}
  <2>1. PICK x \in T : TRUE
    OBVIOUS
  <2>2. n - x \in Nat /\ n - (n - x) = x
    BY <2>1
  <2> QED
    BY <2>1, <2>2
<1>2. PICK k \in U : \A y \in U : k <= y
  BY <1>1, LeastNat
<1>3. ASSUME NEW y \in T PROVE y <= n - k
  <2>1. y \in 0 .. n /\ n - y \in Nat /\ n - (n - y) = y
    OBVIOUS
  <2>2. n - y \in U
    BY <2>1
  <2> QED
    BY <1>2, <2>1, <2>2, SMTT(30)
<1>4. n - k \in T /\ \A y \in T : n - k >= y
  BY <1>2, <1>3
<1>5. \E x \in T : \A y \in T : x >= y
  BY <1>4
<1>6. Greatest(T) \in T /\ \A y \in T : Greatest(T) >= y
  BY <1>5, Zenon DEF Greatest
<1> QED
  BY <1>6

----------------------------------------------------------------------------
(* binary_search.                                                          *)

\* The scan around mid finds an element of the range or none.
LEMMA ScanFound ==
  ASSUME NEW L, NEW s \in Nat, NEW e \in Nat, NEW mid \in Nat
  PROVE  ScanFrom(L, s, e, mid) \in {-1} \cup s .. e - 1
<1> DEFINE full == {p \in s .. e - 1 : ~IsNull(L.items[p])}
           Distance(p) == IF p >= mid THEN 2 * (p - mid) ELSE 2 * (mid - p) + 1
           T == {Distance(p) : p \in full}
<1>1. CASE full = {}
  BY <1>1 DEF ScanFrom
<1>2. CASE full # {}
  <2>1. T \subseteq Nat /\ T # {}
    BY <1>2
  <2>2. PICK d \in T : \A y \in T : d <= y
    <3> HIDE DEF T
    <3> QED
      BY <2>1, LeastNat
  <2>3. \E p \in full : \A q \in full : Distance(p) <= Distance(q)
    BY <2>2
  <2>4. ScanFrom(L, s, e, mid) \in full
    <3>1. ScanFrom(L, s, e, mid) = CHOOSE p \in full : \A q \in full : Distance(p) <= Distance(q)
      BY <1>2 DEF ScanFrom
    <3> HIDE DEF full, Distance
    <3> QED
      BY <2>3, <3>1, Zenon
  <2> QED
    BY <2>4
<1> QED
  BY <1>1, <1>2

\* One round of the loop of binary_search.
OneRound(L, dest, start, end) ==
  LET mid == (start + end) \div 2
      check == ScanFrom(L, start, end, mid)
      z == IF end < start THEN end ELSE start
      found == BinarySearch(L, dest, start, end)
  IN  IF start + 1 >= end
      THEN found = IF ~IsNull(L.items[z]) /\ dest <= L.items[z].dest THEN z ELSE end
      ELSE IF check = -1 THEN found = mid
      ELSE IF check = start
           THEN found = IF dest <= L.items[check].dest THEN check ELSE mid
      ELSE IF dest = L.items[check].dest THEN found = check
      ELSE IF dest < L.items[check].dest
           THEN found = BinarySearch(L, dest, start, check)
      ELSE found = BinarySearch(L, dest, check, end)

\* binary_search is what its loop computes: one round of it leads to the same
\* answer as the next.
LEMMA SearchUnfolds ==
  ASSUME NEW L, NEW dest, NEW start \in Nat, NEW end \in Nat
  PROVE  OneRound(L, dest, start, end)
<1> DEFINE D == Nat \X Nat
           Last(r) == LET z == IF r[2] < r[1] THEN r[2] ELSE r[1]
                      IN  IF ~IsNull(L.items[z]) /\ dest <= L.items[z].dest
                          THEN z ELSE r[2]
           Mid(r) == (r[1] + r[2]) \div 2
           Check(r) == ScanFrom(L, r[1], r[2], Mid(r))
           body(f, r) == IF r[1] + 1 >= r[2] THEN Last(r)
                         ELSE IF Check(r) = -1 THEN Mid(r)
                         ELSE IF Check(r) = r[1]
                              THEN IF dest <= L.items[Check(r)].dest THEN Check(r) ELSE Mid(r)
                         ELSE IF dest = L.items[Check(r)].dest THEN Check(r)
                         ELSE IF dest < L.items[Check(r)].dest THEN f[<<r[1], Check(r)>>]
                         ELSE f[<<Check(r), r[2]>>]
           search == CHOOSE f : f = [r \in D |-> body(f, r)]
           done == {r \in D : \/ r[1] + 1 >= r[2] \/ Check(r) = -1 \/ Check(r) = r[1]
                              \/ dest = L.items[Check(r)].dest}
           out == [r \in D |-> IF r \in done THEN body(<<>>, r) ELSE 0]
           next == [r \in D |-> IF r \in done THEN r
                                ELSE IF dest < L.items[Check(r)].dest
                                THEN <<r[1], Check(r)>> ELSE <<Check(r), r[2]>>]
           m == [r \in D |-> IF r[1] <= r[2] THEN r[2] - r[1] ELSE 0]
<1>1. ASSUME NEW r \in D PROVE Mid(r) \in Nat /\ (r[1] <= r[2] => Mid(r) \in r[1] .. r[2])
  OBVIOUS
<1>2. ASSUME NEW r \in D PROVE Check(r) \in {-1} \cup r[1] .. r[2] - 1
  BY <1>1, ScanFound, SMTT(30)
<1>3. ASSUME NEW r \in done
      PROVE  /\ out[r] \in Nat /\ out[r] <= r[2]
             /\ r[1] <= r[2] => r[1] <= out[r]
             /\ \A f : body(f, r) = out[r]
  <2>1. \A f : body(f, r) = out[r]
    OBVIOUS
  <2>2. CASE r[1] + 1 >= r[2]
    <3>1. out[r] = Last(r)
      BY <2>2
    <3>2. Last(r) \in {r[1], r[2]} /\ (r[2] < r[1] => Last(r) = r[2])
      OBVIOUS
    <3>3. r[1] \in Nat /\ r[2] \in Nat
      OBVIOUS
    <3> HIDE DEF Last, out, body, done
    <3> QED
      BY <2>1, <3>1, <3>2, <3>3
  <2>3. CASE ~(r[1] + 1 >= r[2])
    <3>1. out[r] \in {Mid(r), Check(r)} /\ (Check(r) = -1 => out[r] = Mid(r))
      BY <2>3
    <3>2. r[1] <= r[2] /\ r[1] \in Nat /\ r[2] \in Nat
      BY <2>3
    <3> HIDE DEF Mid, Check, out, body
    <3> QED
      BY <1>1, <1>2, <2>1, <3>1, <3>2, SMTT(30)
  <2> QED
    BY <2>2, <2>3, ZenonT(30)
<1>4. ASSUME NEW r \in D \ done
      PROVE  /\ next[r] \in D /\ m[next[r]] < m[r]
             /\ next[r][2] <= r[2] /\ r[1] <= next[r][1] /\ next[r][1] <= next[r][2]
             /\ r[1] <= r[2]
             /\ \A f : body(f, r) = f[next[r]]
  <2>1. \A f : body(f, r) = f[next[r]]
    OBVIOUS
  <2>2. r[1] + 1 < r[2] /\ Check(r) \in Nat /\ r[1] < Check(r) /\ Check(r) < r[2]
    <3>1. Check(r) # -1 /\ Check(r) # r[1] /\ ~(r[1] + 1 >= r[2])
      OBVIOUS
    <3> HIDE DEF Check
    <3> QED
      BY <1>2, <3>1
  <2>3. next[r] \in {<<r[1], Check(r)>>, <<Check(r), r[2]>>}
    OBVIOUS
  <2>4. next[r] \in D /\ next[r][2] <= r[2] /\ r[1] <= next[r][1]
          /\ next[r][1] <= next[r][2] /\ next[r][2] - next[r][1] < r[2] - r[1]
    <3> HIDE DEF Check, next
    <3> QED
      BY <2>2, <2>3
  <2>5. m[next[r]] = next[r][2] - next[r][1] /\ m[r] = r[2] - r[1]
    <3> HIDE DEF next
    <3> QED
      BY <2>2, <2>4, SMTT(30)
  <2> HIDE DEF m, next, body
  <2> QED
    BY <2>1, <2>2, <2>4, <2>5
<1>5. \E f : f = [r \in D |-> body(f, r)]
  <2>1. /\ out \in [D -> Nat] /\ next \in [D -> D] /\ m \in [D -> Nat]
        /\ \A r \in D \ done : m[next[r]] < m[r]
    <3>1. ASSUME NEW r \in D PROVE out[r] \in Nat
      <4> HIDE DEF body
      <4>1. CASE r \in done
        BY <1>3, <4>1
      <4>2. CASE r \notin done
        BY <4>2
      <4> QED
        BY <4>1, <4>2
    <3>2. ASSUME NEW r \in D PROVE next[r] \in D /\ m[r] \in Nat
      <4>1. m[r] \in Nat
        OBVIOUS
      <4>2. CASE r \in done
        <5>1. next[r] = r
          BY <4>2
        <5> HIDE DEF next
        <5> QED
          BY <4>1, <5>1
      <4>3. CASE r \notin done
        <5>1. next[r] \in D
          <6> HIDE DEF D, done, next, m, body
          <6> QED
            BY <1>4, <4>3
        <5> QED
          BY <4>1, <5>1
      <4> QED
        BY <4>2, <4>3
    <3>3. out = [r \in D |-> out[r]] /\ next = [r \in D |-> next[r]] /\ m = [r \in D |-> m[r]]
      OBVIOUS
    <3> HIDE DEF out, next, m, done
    <3> QED
      BY <1>4, <3>1, <3>2, <3>3
  <2>2. \E f \in [D -> Nat] : \A r \in D : f[r] = IF r \in done THEN out[r] ELSE f[next[r]]
    <3> HIDE DEF D, done, out, next, m
    <3>1. Decreases(D, Nat, done, out, next, m)
      BY <2>1, SMTT(30) DEF Decreases
    <3> QED
      BY <3>1, Loop DEF Computable
  <2>3. PICK f \in [D -> Nat] : \A r \in D : f[r] = IF r \in done THEN out[r] ELSE f[next[r]]
    BY <2>2, ZenonT(30)
  <2>4. \A r \in D : f[r] = body(f, r)
    <3> HIDE DEF D, done, out, next, body
    <3> QED
      BY <1>3, <1>4, <2>3
  <2>5. f = [r \in D |-> body(f, r)]
    <3> HIDE DEF body
    <3> QED
      BY <2>3, <2>4
  <2> QED
    BY <2>5
<1>6. \A r \in D : search[r] = body(search, r)
  <2>1. search = [r \in D |-> body(search, r)]
    <3> HIDE DEF body
    <3> QED
      BY <1>5
  <2> HIDE DEF body, search
  <2> QED
    BY <2>1
<1>7. ASSUME NEW s \in Nat, NEW e \in Nat
      PROVE  BinarySearch(L, dest, s, e) = search[<<s, e>>] /\ <<s, e>> \in D
  BY DEF BinarySearch
<1>8. ASSUME NEW r \in D, r = <<start, end>> PROVE Check(r) \in {-1} \cup start .. end - 1
  BY <1>2, <1>8, SMTT(30)
<1>9. PICK r \in D : r = <<start, end>>
  BY <1>7, ZenonT(30)
<1>10. start + 1 >= end => search[r] = Last(r)
  <2> HIDE DEF search, Last, D
  <2> QED
    BY <1>6, <1>9
<1>11. PICK check : check = ScanFrom(L, start, end, (start + end) \div 2)
  OBVIOUS
<1>12. Check(r) = check /\ Mid(r) = (start + end) \div 2
  BY <1>9, <1>11
<1>13. ~(start + 1 >= end) /\ check # -1 /\ check # start => check \in Nat
  BY <1>8, <1>9, <1>12
<1>14. search[r] = body(search, r)
  <2> HIDE DEF search, body, D
  <2> QED
    BY <1>6
<1>15. ~(start + 1 >= end) =>
         search[r] = IF check = -1 THEN (start + end) \div 2
                     ELSE IF check = start
                          THEN IF dest <= L.items[check].dest THEN check
                               ELSE (start + end) \div 2
                     ELSE IF dest = L.items[check].dest THEN check
                     ELSE IF dest < L.items[check].dest THEN search[<<start, check>>]
                     ELSE search[<<check, end>>]
  <2> HIDE DEF search, Last, Mid, Check, D
  <2> QED
    BY <1>9, <1>12, <1>14
<1>16. Last(r) = LET z == IF end < start THEN end ELSE start
                 IN  IF ~IsNull(L.items[z]) /\ dest <= L.items[z].dest THEN z ELSE end
  BY <1>9
<1> HIDE DEF search, Last, Mid, Check, D, body, done, out, next, m
<1>17. BinarySearch(L, dest, start, end) = search[r]
  BY <1>7, <1>9
<1>18. ~(start + 1 >= end) /\ check # -1 /\ check # start =>
         /\ search[<<start, check>>] = BinarySearch(L, dest, start, check)
         /\ search[<<check, end>>] = BinarySearch(L, dest, check, end)
  BY <1>7, <1>13
<1> QED
  BY <1>10, <1>11, <1>15, <1>16, <1>17, <1>18 DEF OneRound

\* binary_search ends within [start, end]; in a range of no slots at its end.
THEOREM SearchFound ==
  ASSUME NEW L, NEW dest, NEW start \in Nat, NEW end \in Nat
  PROVE  /\ BinarySearch(L, dest, start, end) \in Nat
         /\ BinarySearch(L, dest, start, end) <= end
         /\ start <= end => start <= BinarySearch(L, dest, start, end)
         /\ end < start => BinarySearch(L, dest, start, end) = end
<1> DEFINE Ok(s, e) == LET found == BinarySearch(L, dest, s, e)
                       IN  /\ found \in Nat /\ found <= e
                           /\ s <= e => s <= found
                           /\ e < s => found = e
           T == {k \in Nat : \A s, e \in Nat : e - s <= k => Ok(s, e)}
<1>1. ASSUME NEW s \in Nat, NEW e \in Nat, s + 1 >= e PROVE Ok(s, e)
  <2>1. PICK found : found = BinarySearch(L, dest, s, e)
    OBVIOUS
  <2>2. PICK z : z = IF e < s THEN e ELSE s
    OBVIOUS
  <2>3. found \in {z, e}
    <3>1. OneRound(L, dest, s, e)
      BY SearchUnfolds
    <3> QED
      BY <1>1, <2>1, <2>2, <3>1 DEF OneRound
  <2> QED
    BY <1>1, <2>1, <2>2, <2>3
<1>2. ASSUME NEW k \in Nat, \A s, e \in Nat : e - s <= k => Ok(s, e),
             NEW s \in Nat, NEW e \in Nat, e - s <= k + 1, ~(s + 1 >= e)
      PROVE  Ok(s, e)
  <2>1. PICK found, mid : found = BinarySearch(L, dest, s, e) /\ mid = (s + e) \div 2
    OBVIOUS
  <2>2. mid \in Nat /\ s <= mid /\ mid <= e
    BY <1>2, <2>1
  <2>3. PICK check : check = ScanFrom(L, s, e, mid)
    OBVIOUS
  <2>4. check \in {-1} \cup s .. e - 1
    BY <2>2, <2>3, ScanFound
  <2>5. \/ found = mid \/ (check # -1 /\ found = check)
        \/ check \notin {-1, s} /\ found = BinarySearch(L, dest, s, check)
        \/ check \notin {-1, s} /\ found = BinarySearch(L, dest, check, e)
    <3>1. /\ check = -1 => found = mid
          /\ check = s => found = IF dest <= L.items[check].dest THEN check ELSE mid
          /\ check \notin {-1, s} => \/ found = check
                                    \/ found = BinarySearch(L, dest, s, check)
                                    \/ found = BinarySearch(L, dest, check, e)
      <4>1. OneRound(L, dest, s, e)
        BY SearchUnfolds
      <4> QED
        BY <1>2, <2>1, <2>3, <4>1 DEF OneRound
    <3> QED
      BY <3>1
  <2>6. check \notin {-1, s} => /\ check \in Nat /\ s < check /\ check < e
                               /\ check - s <= k /\ e - check <= k
    BY <1>2, <2>4
  <2>7. check \notin {-1, s} => Ok(s, check) /\ Ok(check, e)
    <3> HIDE DEF Ok
    <3> QED
      BY <1>2, <2>6
  <2>8. found \in Nat /\ s <= found /\ found <= e
    BY <1>2, <2>2, <2>4, <2>5, <2>6, <2>7, SMTT(30)
  <2> QED
    BY <1>2, <2>1, <2>8
<1> HIDE DEF Ok
<1>3. 0 \in T
  <2>1. ASSUME NEW s \in Nat, NEW e \in Nat, e - s <= 0 PROVE s + 1 >= e
    BY <2>1
  <2> QED
    BY <1>1, <2>1
<1>4. ASSUME NEW k \in Nat, k \in T PROVE k + 1 \in T
  <2>1. \A s, e \in Nat : e - s <= k + 1 => Ok(s, e)
    BY <1>1, <1>2, <1>4
  <2> QED
    BY <2>1
<1>5. Nat \subseteq T
  <2> HIDE DEF T
  <2> QED
    BY <1>3, <1>4, Induction
<1>6. Ok(start, end)
  <2>1. PICK k \in Nat : end - start <= k
    <3>1. end \in Nat /\ end - start <= end
      OBVIOUS
    <3> QED
      BY <3>1
  <2> QED
    BY <1>5, <2>1
<1> QED
  BY <1>6 DEF Ok

\* It meets an element only if no other one of the range is nearer.
LEMMA ScanNearest ==
  ASSUME NEW L, NEW s \in Nat, NEW e \in Nat, NEW mid \in Nat, NEW check,
         check = ScanFrom(L, s, e, mid)
  PROVE  LET Distance(p) == IF p >= mid THEN 2 * (p - mid) ELSE 2 * (mid - p) + 1
         IN  /\ check = -1 => \A p \in s .. e - 1 : IsNull(L.items[p])
             /\ check # -1 => /\ check \in s .. e - 1 /\ ~IsNull(L.items[check])
                              /\ \A q \in s .. e - 1 : ~IsNull(L.items[q]) =>
                                   Distance(check) <= Distance(q)
<1> DEFINE full == {p \in s .. e - 1 : ~IsNull(L.items[p])}
           Distance(p) == IF p >= mid THEN 2 * (p - mid) ELSE 2 * (mid - p) + 1
           T == {Distance(p) : p \in full}
<1>1. CASE full = {}
  <2>1. check = -1
    BY <1>1 DEF ScanFrom
  <2> QED
    BY <1>1, <2>1
<1>2. CASE full # {}
  <2>1. T \subseteq Nat /\ T # {}
    BY <1>2
  <2>2. PICK d \in T : \A y \in T : d <= y
    <3> HIDE DEF T
    <3> QED
      BY <2>1, LeastNat
  <2>3. \E p \in full : \A q \in full : Distance(p) <= Distance(q)
    BY <2>2
  <2>4. check \in full /\ \A q \in full : Distance(check) <= Distance(q)
    <3>1. check = CHOOSE p \in full : \A q \in full : Distance(p) <= Distance(q)
      BY <1>2 DEF ScanFrom
    <3> HIDE DEF full, Distance
    <3> QED
      BY <2>3, <3>1, Zenon
  <2>5. check # -1
    BY <2>4
  <2> QED
    BY <2>4, <2>5
<1> QED
  BY <1>1, <1>2

\* Slot i parts the elements of lo .. hi - 1: those with a destination below dest lie
\* before it, and those above dest behind it.
Parts(L, dest, lo, hi, i) ==
  \A p \in lo .. hi - 1 : ~IsNull(L.items[p]) =>
    /\ p < i => L.items[p].dest < dest
    /\ p = i => dest <= L.items[p].dest
    /\ i < p => dest < L.items[p].dest

\* binary_search over a range whose destinations ascend finds the slot that parts it,
\* whichever slots of the range are empty.
THEOREM SearchParts ==
  ASSUME NEW L, NEW dest \in Int, NEW lo \in Nat, NEW hi \in Nat, lo < hi,
         \A p \in lo .. hi - 1 : ~IsNull(L.items[p]) => L.items[p].dest \in Int,
         \A p, q \in lo .. hi - 1 :
           p < q /\ ~IsNull(L.items[p]) /\ ~IsNull(L.items[q]) => L.items[p].dest < L.items[q].dest
  PROVE  Parts(L, dest, lo, hi, BinarySearch(L, dest, lo, hi))
<1> DEFINE In(s, e) == /\ lo <= s /\ s < e /\ e <= hi
                       /\ s = lo \/ (~IsNull(L.items[s]) /\ L.items[s].dest < dest)
                       /\ e = hi \/ (~IsNull(L.items[e]) /\ dest < L.items[e].dest)
           Ok(s, e) == In(s, e) => Parts(L, dest, lo, hi, BinarySearch(L, dest, s, e))
           T == {k \in Nat : \A s, e \in Nat : e - s <= k => Ok(s, e)}
<1>1. ASSUME NEW s \in Nat, NEW e \in Nat, In(s, e), NEW p \in lo .. hi - 1, ~IsNull(L.items[p])
      PROVE  (p < s => L.items[p].dest < dest) /\ (e <= p => dest < L.items[p].dest)
  <2>1. L.items[p].dest \in Int
    BY <1>1
  <2>2. ASSUME p < s PROVE L.items[p].dest < dest
    <3>1. s \in lo .. hi - 1 /\ s # lo
      BY <1>1, <2>2
    <3>2. L.items[p].dest < L.items[s].dest /\ L.items[s].dest \in Int /\ L.items[s].dest < dest
      BY <1>1, <2>2, <3>1
    <3> QED
      BY <2>1, <3>2
  <2>3. ASSUME e <= p PROVE dest < L.items[p].dest
    <3>1. e \in lo .. hi - 1 /\ e # hi
      BY <1>1, <2>3
    <3>2. L.items[e].dest \in Int /\ dest < L.items[e].dest
      BY <1>1, <3>1
    <3>3. e = p \/ L.items[e].dest < L.items[p].dest
      BY <1>1, <2>3, <3>1
    <3> QED
      BY <2>1, <3>2, <3>3
  <2> QED
    BY <2>2, <2>3
<1>2. ASSUME NEW s \in Nat, NEW e \in Nat, In(s, e), s + 1 >= e
      PROVE  Parts(L, dest, lo, hi, BinarySearch(L, dest, s, e))
  <2>1. PICK found : found = BinarySearch(L, dest, s, e)
    OBVIOUS
  <2>2. e = s + 1 /\ s \in lo .. hi - 1
    BY <1>2
  <2>3. found = IF ~IsNull(L.items[s]) /\ dest <= L.items[s].dest THEN s ELSE e
    <3>1. OneRound(L, dest, s, e)
      BY SearchUnfolds
    <3>2. ~(e < s)
      BY <2>2
    <3> QED
      BY <1>2, <2>1, <3>1, <3>2 DEF OneRound
  <2>4. ASSUME NEW p \in lo .. hi - 1, ~IsNull(L.items[p])
        PROVE  /\ p < found => L.items[p].dest < dest
               /\ p = found => dest <= L.items[p].dest
               /\ found < p => dest < L.items[p].dest
    <3>1. (p < s => L.items[p].dest < dest) /\ (e <= p => dest < L.items[p].dest)
          /\ L.items[p].dest \in Int
      BY <1>1, <1>2, <2>4
    <3>2. CASE p = s
      BY <2>2, <2>3, <2>4, <3>1, <3>2
    <3>3. CASE p < s
      <4>1. s # lo
        BY <2>4, <3>3
      <4>2. ~IsNull(L.items[s]) /\ L.items[s].dest < dest /\ L.items[s].dest \in Int
        BY <1>2, <2>2, <4>1
      <4>3. found = e
        BY <2>3, <4>2
      <4> QED
        BY <2>2, <3>1, <3>3, <4>3
    <3>4. CASE e <= p
      BY <2>2, <2>3, <3>1, <3>4
    <3> QED
      BY <2>2, <3>2, <3>3, <3>4
  <2> QED
    BY <2>1, <2>4 DEF Parts
<1>3. ASSUME NEW k \in Nat, \A s, e \in Nat : e - s <= k => Ok(s, e),
             NEW s \in Nat, NEW e \in Nat, e - s <= k + 1, ~(s + 1 >= e), In(s, e)
      PROVE  Parts(L, dest, lo, hi, BinarySearch(L, dest, s, e))
  <2>1. PICK found, mid : found = BinarySearch(L, dest, s, e) /\ mid = (s + e) \div 2
    OBVIOUS
  <2>2. mid \in Nat /\ s < mid /\ mid < e /\ e - 1 - mid <= mid - s
    BY <1>3, <2>1
  <2>3. PICK check : check = ScanFrom(L, s, e, mid)
    OBVIOUS
  <2>4. /\ check = -1 => found = mid
        /\ check = s => found = IF dest <= L.items[check].dest THEN check ELSE mid
        /\ check \notin {-1, s} =>
             IF dest = L.items[check].dest THEN found = check
             ELSE IF dest < L.items[check].dest THEN found = BinarySearch(L, dest, s, check)
             ELSE found = BinarySearch(L, dest, check, e)
    <3>1. OneRound(L, dest, s, e)
      BY SearchUnfolds
    <3>2. s # -1
      OBVIOUS
    <3> QED
      BY <1>3, <2>1, <2>3, <3>1, <3>2 DEF OneRound
  <2>5. CASE check = -1
    <3>1. \A p \in s .. e - 1 : IsNull(L.items[p])
      BY <2>2, <2>3, <2>5, ScanNearest
    <3>2. ASSUME NEW p \in lo .. hi - 1, ~IsNull(L.items[p])
          PROVE  /\ p < mid => L.items[p].dest < dest
                 /\ p = mid => dest <= L.items[p].dest
                 /\ mid < p => dest < L.items[p].dest
      <4>1. p < s \/ e <= p
        BY <3>1, <3>2
      <4> QED
        BY <1>1, <1>3, <2>2, <3>2, <4>1
    <3> QED
      BY <2>1, <2>4, <2>5, <3>2 DEF Parts
  <2>6. CASE check = s
    <3>1. /\ ~IsNull(L.items[s]) /\ s \in lo .. hi - 1
          /\ \A q \in s .. e - 1 : ~IsNull(L.items[q]) =>
               (IF s >= mid THEN 2 * (s - mid) ELSE 2 * (mid - s) + 1)
                 <= (IF q >= mid THEN 2 * (q - mid) ELSE 2 * (mid - q) + 1)
      <4>1. s # -1 /\ s = ScanFrom(L, s, e, mid) /\ mid \in Nat
        BY <2>2, <2>3, <2>6
      <4>2. s \in lo .. hi - 1
        BY <1>3
      <4> QED
        BY <4>1, <4>2, ScanNearest
    <3>2. (\A q \in s + 1 .. e - 1 : IsNull(L.items[q])) /\ L.items[s].dest \in Int
      <4>1. ASSUME NEW q \in s + 1 .. e - 1, ~IsNull(L.items[q]) PROVE FALSE
        <5>1. (IF s >= mid THEN 2 * (s - mid) ELSE 2 * (mid - s) + 1)
                <= (IF q >= mid THEN 2 * (q - mid) ELSE 2 * (mid - q) + 1)
          BY <3>1, <4>1
        <5> QED
          BY <2>2, <5>1
      <4> QED
        BY <3>1, <4>1
    <3>3. found = IF dest <= L.items[s].dest THEN s ELSE mid
      BY <2>4, <2>6
    <3>4. ASSUME NEW p \in lo .. hi - 1, ~IsNull(L.items[p])
          PROVE  /\ p < found => L.items[p].dest < dest
                 /\ p = found => dest <= L.items[p].dest
                 /\ found < p => dest < L.items[p].dest
      <4>1. p <= s \/ e <= p
        BY <3>2, <3>4
      <4>2. (p < s => L.items[p].dest < dest) /\ (e <= p => dest < L.items[p].dest)
        BY <1>1, <1>3, <3>4
      <4> QED
        BY <2>2, <3>1, <3>2, <3>3, <3>4, <4>1, <4>2
    <3> QED
      BY <2>1, <3>4 DEF Parts
  <2>7. CASE check \notin {-1, s}
    <3>1. /\ check \in s .. e - 1 /\ ~IsNull(L.items[check])
      BY <2>2, <2>3, <2>7, ScanNearest, ZenonT(30)
    <3>2. /\ check \in Nat /\ s < check /\ check < e /\ check - s <= k /\ e - check <= k
          /\ check \in lo .. hi - 1 /\ L.items[check].dest \in Int
      BY <1>3, <2>7, <3>1
    <3>3. CASE dest = L.items[check].dest
      <4>1. Parts(L, dest, lo, hi, check)
        BY <3>1, <3>2, <3>3 DEF Parts
      <4> QED
        BY <2>1, <2>4, <2>7, <3>3, <4>1
    <3>4. CASE dest < L.items[check].dest
      <4>1. In(s, check)
        BY <1>3, <3>1, <3>2, <3>4
      <4>2. Ok(s, check)
        <5> HIDE DEF Ok
        <5> QED
          BY <1>3, <3>2
      <4> QED
        BY <2>1, <2>4, <2>7, <3>2, <3>4, <4>1, <4>2
    <3>5. CASE L.items[check].dest < dest
      <4>1. In(check, e)
        BY <1>3, <3>1, <3>2, <3>5
      <4>2. Ok(check, e)
        <5> HIDE DEF Ok
        <5> QED
          BY <1>3, <3>2
      <4> QED
        BY <2>1, <2>4, <2>7, <3>2, <3>5, <4>1, <4>2
    <3> QED
      BY <3>2, <3>3, <3>4, <3>5
  <2> QED
    BY <2>5, <2>6, <2>7
<1>4. 0 \in T
  BY DEF Ok
<1>5. ASSUME NEW k \in Nat, k \in T PROVE k + 1 \in T
  <2>1. ASSUME NEW s \in Nat, NEW e \in Nat, e - s <= k + 1, In(s, e)
        PROVE  Parts(L, dest, lo, hi, BinarySearch(L, dest, s, e))
    <3>1. \A a, c \in Nat : c - a <= k => Ok(a, c)
      BY <1>5
    <3> HIDE DEF In, Ok
    <3> QED
      BY <1>2, <1>3, <2>1, <3>1
  <2> HIDE DEF In
  <2> QED
    BY <2>1
<1>6. Nat \subseteq T
  <2> HIDE DEF T
  <2> QED
    BY <1>4, <1>5, Induction
<1>7. In(lo, hi)
  OBVIOUS
<1>8. Ok(lo, hi)
  <2>1. hi - lo \in Nat
    OBVIOUS
  <2> HIDE DEF Ok
  <2> QED
    BY <1>6, <2>1
<1> QED
  BY <1>7, <1>8

----------------------------------------------------------------------------
(* The shape of a list.                                                    *)

Ranges == [beginning : Nat, end : Nat]

IsList(L) ==
  /\ L = [N |-> L.N, items |-> L.items, nodes |-> L.nodes]
  /\ L.N \in PowersOfTwo
  /\ L.items = [p \in Slots(L) |-> L.items[p]]
  /\ \E n \in Nat : L.nodes \in [0 .. n - 1 -> Ranges]

\* An operation that resizes and moves nothing but edges and sentinels.
Reshaped(L, M, N) == IsList(M) /\ M.N = N /\ Vertices(M) = Vertices(L)

\* A power of two is positive, and so is its double.
LEMMA PowersPositive ==
  ASSUME NEW n \in PowersOfTwo
  PROVE  n \in Nat \ {0} /\ 2 * n \in PowersOfTwo
<1>1. PICK k \in Nat : n = 2^k
  BY DEF PowersOfTwo
<1>2. 2^k \in Nat /\ k < 2^k /\ 2^(k + 1) = 2 * 2^k
  BY Powers, PowerPlusOne
<1>3. 2 * n = 2^(k + 1) /\ k + 1 \in Nat
  BY <1>1, <1>2
<1> QED
  BY <1>1, <1>2, <1>3 DEF PowersOfTwo

\* The slots and the lengths that the geometry of a list gives are numbers.
LEMMA LeafLength ==
  ASSUME NEW N \in PowersOfTwo
  PROVE  /\ LogN(N) \in PowersOfTwo /\ LogN(N) \in Nat \ {0}
         /\ Height(N) \in Nat
         /\ LogN(N) * 2^Height(N) = N
         /\ Height(N) > 0 <=> N >= 8
<1>1. PICK k \in Nat : N = 2^k
  BY DEF PowersOfTwo
<1>2. PICK j, h \in Nat : /\ LogN(2^k) = 2^j /\ Height(2^k) = h
                         /\ k = j + h /\ (h > 0 <=> k >= 3)
  BY Geometry
<1>3. LogN(N) \in PowersOfTwo
  BY <1>1, <1>2 DEF PowersOfTwo
<1>4. 2^(j + h) = 2^j * 2^h
  BY PowerSum
<1>5. k >= 3 <=> 2^k >= 8
  <2>1. 2^0 = 1 /\ 2^(0 + 1) = 2 * 2^0 /\ 2^(1 + 1) = 2 * 2^1 /\ 2^(2 + 1) = 2 * 2^2
    BY Powers, PowerPlusOne
  <2>2. 0 + 1 = 1 /\ 1 + 1 = 2 /\ 2 + 1 = 3
    OBVIOUS
  <2>3. 2^3 = 8 /\ 2^2 = 4
    BY <2>1, <2>2
  <2>4. k >= 3 => 2^3 <= 2^k
    BY PowersAscend
  <2>5. k <= 2 => 2^k <= 2^2
    BY PowersAscend
  <2>6. 2^k \in Nat
    BY Powers
  <2> QED
    BY <2>3, <2>4, <2>5, <2>6
<1>6. LogN(N) \in Nat \ {0}
  BY <1>3, PowersPositive
<1>7. Height(N) = h /\ LogN(N) = 2^j
  BY <1>1, <1>2
<1>8. LogN(N) * 2^Height(N) = N
  BY <1>1, <1>2, <1>4, <1>7, Zenon
<1>9. Height(N) > 0 <=> N >= 8
  BY <1>1, <1>2, <1>5, <1>7
<1> QED
  BY <1>2, <1>3, <1>6, <1>7, <1>8, <1>9

\* find_leaf, find_node: the aligned window of len slots that holds index.
LEMMA NodeFound ==
  ASSUME NEW index \in Nat, NEW len \in Nat \ {0}
  PROVE  /\ FindNode(index, len) \in Nat
         /\ FindNode(index, len) <= index /\ index < FindNode(index, len) + len
<1>1. /\ index \div len \in Nat
      /\ (index \div len) * len <= index /\ index < (index \div len) * len + len
  BY Division
<1> QED
  BY <1>1 DEF FindNode

\* The windows of every level of the tree.
LEMMA LevelFound ==
  ASSUME NEW L, IsList(L), NEW index \in Nat, NEW j \in Nat
  PROVE  /\ LenAt(L, j) \in Nat \ {0}
         /\ StartAt(L, index, j) \in Nat
         /\ StartAt(L, index, j) <= index
         /\ index < StartAt(L, index, j) + LenAt(L, j)
<1>1. LogN(L.N) \in Nat \ {0} /\ 2^j \in Nat \ {0}
  BY LeafLength, Powers DEF IsList
<1>2. LenAt(L, j) \in Nat \ {0}
  <2>1. \A a, b \in Nat \ {0} : a * b \in Nat \ {0}
    OBVIOUS
  <2> QED
    BY <1>1, <2>1 DEF LenAt
<1> QED
  BY <1>2, NodeFound DEF StartAt

----------------------------------------------------------------------------
(* Every operation leaves a list.                                          *)

\* SentinelsAt finds sentinels where it looks for them.
LEMMA SentinelsFound ==
  ASSUME NEW items, NEW S
  PROVE  LET at == SentinelsAt(items, S)
         IN  \A v \in DOMAIN at : /\ at[v] \in S
                                 /\ ~IsNull(items[at[v]]) /\ IsSentinel(items[at[v]])
                                 /\ VertexOf(items[at[v]]) = v
<1> DEFINE at == SentinelsAt(items, S)
           here == {i \in S : ~IsNull(items[i]) /\ IsSentinel(items[i])}
<1>1. at = [v \in {VertexOf(items[i]) : i \in here} |->
              CHOOSE i \in here : VertexOf(items[i]) = v]
  BY DEF SentinelsAt
<1> SUFFICES ASSUME NEW v \in DOMAIN at
             PROVE  /\ at[v] \in S
                    /\ ~IsNull(items[at[v]]) /\ IsSentinel(items[at[v]])
                    /\ VertexOf(items[at[v]]) = v
  OBVIOUS
<1>2. \E i \in here : VertexOf(items[i]) = v
  BY <1>1
<1>3. at[v] = CHOOSE i \in here : VertexOf(items[i]) = v
  BY <1>1
<1> HIDE DEF at, here
<1>4. at[v] \in here /\ VertexOf(items[at[v]]) = v
  BY <1>2, <1>3, Zenon
<1> QED
  BY <1>4 DEF here

\* fix_sentinel keeps nodes the table of the same vertices.
LEMMA SentinelsFixed ==
  ASSUME NEW n \in Nat, NEW nodes \in [0 .. n - 1 -> Ranges], NEW at, NEW N \in Nat \ {0},
         \A v \in DOMAIN at : at[v] \in Nat
  PROVE  FixSentinels(nodes, at, N) \in [0 .. n - 1 -> Ranges]
<1> DEFINE last == Cardinality(DOMAIN nodes) - 1
           begins(v) == IF v \in DOMAIN at THEN at[v] ELSE nodes[v].beginning
           ends(v) == IF v = last
                      THEN IF v \in DOMAIN at THEN N - 1 ELSE nodes[v].end
                      ELSE IF v + 1 \in DOMAIN at THEN at[v + 1] ELSE nodes[v].end
<1>1. ASSUME NEW v \in 0 .. n - 1
      PROVE  [beginning |-> begins(v), end |-> ends(v)] \in Ranges
  <2>1. nodes[v].beginning \in Nat /\ nodes[v].end \in Nat
    BY DEF Ranges
  <2>2. begins(v) \in Nat /\ ends(v) \in Nat
    BY <2>1
  <2> QED
    BY <2>2 DEF Ranges
<1>2. FixSentinels(nodes, at, N) = [v \in DOMAIN nodes |-> [beginning |-> begins(v), end |-> ends(v)]]
  BY DEF FixSentinels
<1>3. DOMAIN nodes = 0 .. n - 1
  OBVIOUS
<1> HIDE DEF begins, ends
<1> QED
  BY <1>1, <1>2, <1>3

\* What the three parts of a list have to be.
LEMMA Assembled ==
  ASSUME NEW L, IsList(L), NEW N \in PowersOfTwo, NEW items, NEW nodes, NEW at,
         items = [p \in 0 .. N - 1 |-> items[p]],
         \A v \in DOMAIN at : at[v] \in Nat,
         nodes = FixSentinels(L.nodes, at, N)
  PROVE  Reshaped(L, [N |-> N, items |-> items, nodes |-> nodes], N)
<1> DEFINE M == [N |-> N, items |-> items, nodes |-> nodes]
<1>1. PICK n \in Nat : L.nodes \in [0 .. n - 1 -> Ranges]
  BY DEF IsList
<1>2. nodes \in [0 .. n - 1 -> Ranges]
  BY <1>1, SentinelsFixed, PowersPositive
<1>3. IsList(M)
  BY <1>2 DEF IsList, Slots
<1>4. Vertices(M) = Vertices(L)
  BY <1>1, <1>2 DEF Vertices
<1> QED
  BY <1>3, <1>4 DEF Reshaped

\* The parts of an updated list.
LEMMA Updated ==
  ASSUME NEW L, IsList(L), NEW items, NEW nodes
  PROVE  /\ [L EXCEPT !.items = items, !.nodes = nodes]
               = [N |-> L.N, items |-> items, nodes |-> nodes]
         /\ [L EXCEPT !.items = items] = [N |-> L.N, items |-> items, nodes |-> L.nodes]
         /\ [L EXCEPT !.nodes = nodes] = [N |-> L.N, items |-> L.items, nodes |-> nodes]
<1>1. ASSUME NEW A, NEW B, NEW C, NEW M \in [N : A, items : B, nodes : C], NEW x
      PROVE  /\ [M EXCEPT !.items = x] \in [N : A, items : {x}, nodes : C]
             /\ [M EXCEPT !.nodes = x] \in [N : A, items : B, nodes : {x}]
  OBVIOUS
<1>2. \A a, b, c, M : M \in [N : {a}, items : {b}, nodes : {c}]
                        => M = [N |-> a, items |-> b, nodes |-> c]
  OBVIOUS
<1>3. L \in [N : {L.N}, items : {L.items}, nodes : {L.nodes}]
  BY DEF IsList
<1>4. [L EXCEPT !.items = items] \in [N : {L.N}, items : {items}, nodes : {L.nodes}]
  BY <1>1, <1>3, Zenon
<1>5. [L EXCEPT !.nodes = nodes] \in [N : {L.N}, items : {L.items}, nodes : {nodes}]
  BY <1>1, <1>3, Zenon
<1>6. [[L EXCEPT !.items = items] EXCEPT !.nodes = nodes]
         \in [N : {L.N}, items : {items}, nodes : {nodes}]
  BY <1>1, <1>4, Zenon
<1>7. [L EXCEPT !.items = items, !.nodes = nodes] = [[L EXCEPT !.items = items] EXCEPT !.nodes = nodes]
  BY Zenon
<1> QED
  BY <1>2, <1>4, <1>5, <1>6, <1>7, Zenon

\* redistribute keeps the shape of the list.
LEMMA RedistributeShape ==
  ASSUME NEW L, IsList(L), NEW index \in Nat, NEW len
  PROVE  Reshaped(L, Redistribute(L, index, len), L.N)
<1> DEFINE items == Spread(L, index, len)
           at == SentinelsAt(items, Window(index, len))
           nodes == FixSentinels(L.nodes, at, L.N)
<1>1. items = [p \in 0 .. L.N - 1 |-> items[p]]
  BY DEF Spread, Slots
<1>2. Window(index, len) \subseteq Nat
  BY DEF Window
<1>3. \A v \in DOMAIN at : at[v] \in Nat
  BY <1>2, SentinelsFound
<1>4. Redistribute(L, index, len) = [N |-> L.N, items |-> items, nodes |-> nodes]
  <2>1. Redistribute(L, index, len) = [L EXCEPT !.items = items, !.nodes = nodes]
    BY DEF Redistribute, IsList
  <2> QED
    BY <2>1, Updated
<1>5. L.N \in PowersOfTwo
  BY DEF IsList
<1> HIDE DEF items, at
<1> QED
  BY <1>1, <1>3, <1>4, <1>5, Assembled

\* One operation after the other.
LEMMA ReshapedTwice ==
  ASSUME NEW L, NEW M, NEW P, NEW m, NEW p, Reshaped(L, M, m), Reshaped(M, P, p)
  PROVE  Reshaped(L, P, p)
BY DEF Reshaped

\* What holds of a list of other items, and of one with other ranges.
LEMMA ItemsShape ==
  ASSUME NEW L, IsList(L), NEW items, items = [p \in Slots(L) |-> items[p]]
  PROVE  Reshaped(L, [L EXCEPT !.items = items], L.N)
<1>1. [L EXCEPT !.items = items] = [N |-> L.N, items |-> items, nodes |-> L.nodes]
  BY Updated
<1> QED
  BY <1>1 DEF Reshaped, IsList, Slots, Vertices

\* The sentinels of a list may be fixed at any slots.
LEMMA NodesShape ==
  ASSUME NEW L, IsList(L), NEW at, \A v \in DOMAIN at : at[v] \in Nat
  PROVE  Reshaped(L, [L EXCEPT !.nodes = FixSentinels(L.nodes, at, L.N)], L.N)
<1> DEFINE nodes == FixSentinels(L.nodes, at, L.N)
<1>1. [L EXCEPT !.nodes = nodes] = [N |-> L.N, items |-> L.items, nodes |-> nodes]
  BY Updated
<1>2. L.items = [p \in 0 .. L.N - 1 |-> L.items[p]] /\ L.N \in PowersOfTwo
  BY DEF IsList, Slots
<1>3. nodes = FixSentinels(L.nodes, at, L.N) /\ \A v \in DOMAIN at : at[v] \in Nat
  OBVIOUS
<1>4. Reshaped(L, [N |-> L.N, items |-> L.items, nodes |-> nodes], L.N)
  <2> HIDE DEF nodes
  <2> QED
    BY <1>2, <1>3, Assembled
<1> QED
  BY <1>1, <1>4

\* A write to a slot.
LEMMA WriteShape ==
  ASSUME NEW L, IsList(L), NEW i, NEW e
  PROVE  Reshaped(L, [L EXCEPT !.items[i] = e], L.N)
<1> DEFINE items == [L.items EXCEPT ![i] = e]
<1>1. [L EXCEPT !.items[i] = e] = [L EXCEPT !.items = items]
  OBVIOUS
<1>2. items = [p \in Slots(L) |-> items[p]]
  BY DEF IsList
<1> HIDE DEF items
<1> QED
  BY <1>1, <1>2, ItemsShape

\* double_list and half_list change the size.
LEMMA DoubleShape ==
  ASSUME NEW L, IsList(L)
  PROVE  Reshaped(L, DoubleList(L), 2 * L.N)
<1> DEFINE items == [p \in 0 .. 2 * L.N - 1 |-> IF p < L.N THEN L.items[p] ELSE Null]
           M == [N |-> 2 * L.N, items |-> items, nodes |-> L.nodes]
<1>1. 2 * L.N \in PowersOfTwo
  BY PowersPositive DEF IsList
<1>2. IsList(M) /\ Vertices(M) = Vertices(L) /\ M.N = 2 * L.N
  BY <1>1 DEF IsList, Slots, Vertices
<1>3. DoubleList(L) = Redistribute(M, 0, 2 * L.N)
  BY DEF DoubleList
<1> HIDE DEF M
<1>4. Reshaped(M, Redistribute(M, 0, 2 * L.N), M.N)
  BY <1>2, RedistributeShape
<1> QED
  BY <1>2, <1>3, <1>4 DEF Reshaped

\* half_list is not called on a single leaf, so half of the slots are a power of two.
LEMMA HalfShape ==
  ASSUME NEW L, IsList(L), Height(L.N) > 0
  PROVE  /\ Reshaped(L, HalfList(L), L.N \div 2)
         /\ L.N \div 2 \in PowersOfTwo
<1> DEFINE N == L.N \div 2
           occ == Occupied(L, 0, L.N)
           items == [p \in 0 .. N - 1 |->
                       IF p < Cardinality(occ)
                       THEN L.items[CHOOSE i \in occ : Rank(occ, i) = p]
                       ELSE Null]
           M == [N |-> N, items |-> items, nodes |-> L.nodes]
<1>1. N \in PowersOfTwo
  <2>1. PICK k \in Nat : L.N = 2^k
    BY DEF IsList, PowersOfTwo
  <2>2. L.N >= 8
    BY LeafLength DEF IsList
  <2>3. k # 0
    <3>1. k = 0 => L.N = 2^0
      BY <2>1, Zenon
    <3> QED
      BY <2>2, <3>1, Powers
  <2>4. k - 1 \in Nat /\ (k - 1) + 1 = k
    BY <2>3
  <2>5. 2^((k - 1) + 1) = 2 * 2^(k - 1) /\ 2^(k - 1) \in Nat
    BY <2>4, PowerPlusOne
  <2>6. L.N = 2 * 2^(k - 1)
    BY <2>1, <2>4, <2>5, Zenon
  <2>7. N = 2^(k - 1)
    BY <2>5, <2>6
  <2> QED
    BY <2>4, <2>7 DEF PowersOfTwo
<1>2. IsList(M) /\ Vertices(M) = Vertices(L) /\ M.N = N
  BY <1>1 DEF IsList, Slots, Vertices
<1>3. HalfList(L) = Redistribute(M, 0, N)
  BY DEF HalfList
<1> HIDE DEF M
<1>4. Reshaped(M, Redistribute(M, 0, N), M.N)
  BY <1>2, RedistributeShape
<1> QED
  BY <1>1, <1>2, <1>3, <1>4 DEF Reshaped

\* The slides keep the shape.
LEMMA ShiftRightShape ==
  ASSUME NEW L, IsList(L), NEW i \in Nat, NEW e
  PROVE  Reshaped(L, ShiftRight(L, i, e), L.N)
<1> DEFINE items == [p \in Slots(L) |-> IF p = i THEN Null
                                   ELSE IF p \in i + 1 .. e
                                        THEN L.items[p - 1] ELSE L.items[p]]
           at == SentinelsAt(items, i + 1 .. e)
           nodes == FixSentinels(L.nodes, at, L.N)
<1>1. \A v \in DOMAIN at : at[v] \in Nat
  <2>1. i + 1 .. e \subseteq Nat
    OBVIOUS
  <2> HIDE DEF items
  <2> QED
    BY <2>1, SentinelsFound
<1>2. ShiftRight(L, i, e) = [N |-> L.N, items |-> items, nodes |-> nodes]
  <2>1. ShiftRight(L, i, e) = [L EXCEPT !.items = items, !.nodes = nodes]
    BY DEF ShiftRight, IsList
  <2> HIDE DEF items, nodes
  <2> QED
    BY <2>1, Updated
<1>3. items = [p \in 0 .. L.N - 1 |-> items[p]] /\ L.N \in PowersOfTwo
  BY DEF Slots, IsList
<1> HIDE DEF items, at
<1> QED
  BY <1>1, <1>2, <1>3, Assembled

\* A shift to the left keeps the shape, too.
LEMMA ShiftLeftShape ==
  ASSUME NEW L, IsList(L), NEW i, NEW e \in Nat
  PROVE  Reshaped(L, ShiftLeft(L, i, e), L.N)
<1> DEFINE items == [p \in Slots(L) |-> IF p = i THEN Null
                                   ELSE IF p \in e .. i - 1
                                        THEN L.items[p + 1] ELSE L.items[p]]
           at == SentinelsAt(items, e .. i - 1)
           nodes == FixSentinels(L.nodes, at, L.N)
<1>1. \A v \in DOMAIN at : at[v] \in Nat
  <2>1. e .. i - 1 \subseteq Nat
    OBVIOUS
  <2> HIDE DEF items
  <2> QED
    BY <2>1, SentinelsFound
<1>2. ShiftLeft(L, i, e) = [N |-> L.N, items |-> items, nodes |-> nodes]
  <2>1. ShiftLeft(L, i, e) = [L EXCEPT !.items = items, !.nodes = nodes]
    BY DEF ShiftLeft, IsList
  <2> HIDE DEF items, nodes
  <2> QED
    BY <2>1, Updated
<1>3. items = [p \in 0 .. L.N - 1 |-> items[p]] /\ L.N \in PowersOfTwo
  BY DEF Slots, IsList
<1> HIDE DEF items, at
<1> QED
  BY <1>1, <1>2, <1>3, Assembled

\* slide_right off the end moves no edge.
LEMMA OffTheEndShape ==
  ASSUME NEW L, IsList(L), NEW i \in Nat
  PROVE  /\ Reshaped(L, SlidOffTheEnd(L, i), L.N)
         /\ SlidOffTheEnd(L, i).items = L.items
<1> DEFINE here == SentinelsAt(L.items, i .. L.N - 2)
           last == L.items[L.N - 1]
           beyond == [v \in DOMAIN here \cup {VertexOf(last)} |->
                        IF v = VertexOf(last) THEN L.N ELSE here[v]]
<1>1. \A v \in DOMAIN here : here[v] \in Nat
  <2>1. i .. L.N - 2 \subseteq Nat
    OBVIOUS
  <2> QED
    BY <2>1, SentinelsFound
<1>2. \A v \in DOMAIN beyond : beyond[v] \in Nat
  <2>1. L.N \in Nat
    BY PowersPositive DEF IsList
  <2> HIDE DEF here
  <2> QED
    BY <1>1, <2>1
<1>3. \E at : /\ \A v \in DOMAIN at : at[v] \in Nat
              /\ SlidOffTheEnd(L, i) = [L EXCEPT !.nodes = FixSentinels(L.nodes, at, L.N)]
  <2>1. SlidOffTheEnd(L, i) =
          [L EXCEPT !.nodes = IF IsSentinel(last)
                              THEN FixSentinels(L.nodes, beyond, L.N)
                              ELSE FixSentinels(L.nodes, here, L.N)]
    BY DEF SlidOffTheEnd
  <2> HIDE DEF here, beyond, last
  <2>2. CASE IsSentinel(last)
    BY <1>2, <2>1, <2>2
  <2>3. CASE ~IsSentinel(last)
    BY <1>1, <2>1, <2>3
  <2> QED
    BY <2>2, <2>3
<1>4. PICK at : /\ \A v \in DOMAIN at : at[v] \in Nat
                /\ SlidOffTheEnd(L, i) = [L EXCEPT !.nodes = FixSentinels(L.nodes, at, L.N)]
  BY <1>3
<1>5. Reshaped(L, SlidOffTheEnd(L, i), L.N)
  BY <1>4, NodesShape
<1>6. SlidOffTheEnd(L, i).items = L.items
  BY <1>4, Updated
<1> QED
  BY <1>5, <1>6

\* The nearest nulls, if there are any.
LEMMA NextNullFound ==
  ASSUME NEW L, L.N \in Nat, NEW i \in Nat
  PROVE  /\ NextNull(L, i) \in Nat
         /\ NextNull(L, i) <= L.N
         /\ NextNull(L, i) < L.N => /\ i < NextNull(L, i) /\ IsNull(L.items[NextNull(L, i)])
                                   /\ \A p \in i + 1 .. NextNull(L, i) - 1 : ~IsNull(L.items[p])
         /\ NextNull(L, i) = L.N => \A p \in i + 1 .. L.N - 1 : ~IsNull(L.items[p])
<1> DEFINE S == {p \in i + 1 .. L.N - 1 : IsNull(L.items[p])}
<1>1. CASE S = {}
  BY <1>1 DEF NextNull
<1>2. CASE S # {}
  <2>1. S \subseteq Nat
    OBVIOUS
  <2>2. Least(S) \in S /\ \A y \in S : Least(S) <= y
    <3> HIDE DEF S
    <3> QED
      BY <1>2, <2>1, LeastFound
  <2>3. NextNull(L, i) = Least(S)
    BY <1>2 DEF NextNull
  <2>4. PICK n : n = NextNull(L, i) /\ n \in S /\ \A y \in S : n <= y
    BY <2>2, <2>3, Zenon
  <2>5. n \in i + 1 .. L.N - 1 /\ IsNull(L.items[n])
    BY <2>4
  <2>6. ASSUME NEW p \in i + 1 .. n - 1 PROVE ~IsNull(L.items[p])
    <3>1. p \in i + 1 .. L.N - 1 /\ ~(n <= p)
      BY <2>5
    <3> QED
      BY <2>4, <3>1
  <2> HIDE DEF S
  <2> QED
    BY <2>4, <2>5, <2>6
<1> QED
  BY <1>1, <1>2

\* The scan to the left ends at the nearest null, or has met none.
LEMMA PrevNullFound ==
  ASSUME NEW L, NEW i \in Int
  PROVE  \/ /\ PrevNull(L, i) = -1
            /\ \A p \in 0 .. i - 1 : ~IsNull(L.items[p])
         \/ /\ PrevNull(L, i) \in 0 .. i - 1
            /\ IsNull(L.items[PrevNull(L, i)])
            /\ \A p \in PrevNull(L, i) + 1 .. i - 1 : ~IsNull(L.items[p])
<1> DEFINE S == {p \in 0 .. i - 1 : IsNull(L.items[p])}
<1>1. CASE S = {}
  BY <1>1 DEF PrevNull
<1>2. CASE S # {}
  <2>1. i \in Nat /\ S \subseteq 0 .. i
    BY <1>2
  <2>2. Greatest(S) \in S /\ \A y \in S : y <= Greatest(S)
    <3> HIDE DEF S
    <3> QED
      BY <1>2, <2>1, GreatestFound
  <2>3. PrevNull(L, i) = Greatest(S)
    BY <1>2 DEF PrevNull
  <2>4. PICK n : n = PrevNull(L, i) /\ n \in S /\ \A y \in S : y <= n
    BY <2>2, <2>3, Zenon
  <2>5. n \in 0 .. i - 1 /\ IsNull(L.items[n])
    BY <2>4
  <2>6. ASSUME NEW p \in n + 1 .. i - 1 PROVE ~IsNull(L.items[p])
    <3>1. p \in 0 .. i - 1 /\ ~(p <= n)
      BY <2>5
    <3> QED
      BY <2>4, <3>1
  <2> HIDE DEF S
  <2> QED
    BY <2>4, <2>5, <2>6
<1> QED
  BY <1>1, <1>2

\* slide_left that runs off the left end doubles the list.
LEMMA SlideLeftDoublingShape ==
  ASSUME NEW L, IsList(L), NEW i
  PROVE  Reshaped(L, SlideLeftDoubling(L, i), 2 * L.N)
<1> DEFINE emptied == [L EXCEPT !.items[0] = Null]
           shifted == ShiftLeft(emptied, i, 0)
           doubled == DoubleList(shifted)
           room == ShiftRight(doubled, 0, NextNull(doubled, 0))
           first == L.items[0]
           kept == [room EXCEPT !.items[0] = first]
           at == [v \in {VertexOf(first)} |-> 0]
<1>1. Reshaped(L, emptied, L.N)
  BY WriteShape
<1>2. Reshaped(L, shifted, L.N)
  <2> HIDE DEF emptied
  <2> QED
    BY <1>1, ShiftLeftShape DEF Reshaped
<1>3. Reshaped(L, doubled, 2 * L.N)
  <2> HIDE DEF shifted
  <2> QED
    BY <1>2, DoubleShape DEF Reshaped
<1>4. Reshaped(L, room, 2 * L.N)
  <2> HIDE DEF doubled
  <2> QED
    BY <1>3, ShiftRightShape DEF Reshaped
<1> HIDE DEF room
<1>5. Reshaped(L, kept, 2 * L.N)
  BY <1>4, WriteShape DEF Reshaped
<1>6. kept.nodes = room.nodes /\ kept.N = room.N
  <2>1. kept = [room EXCEPT !.items = [room.items EXCEPT ![0] = first]]
    OBVIOUS
  <2> HIDE DEF kept
  <2> QED
    BY <1>4, <2>1, Updated, ZenonT(30) DEF Reshaped
<1>7. SlideLeftDoubling(L, i) =
        [room EXCEPT !.items[0] = first,
                     !.nodes = IF IsSentinel(first) THEN FixSentinels(@, at, room.N) ELSE @]
  BY DEF SlideLeftDoubling, room
<1>8. SlideLeftDoubling(L, i) =
        [kept EXCEPT !.nodes = IF IsSentinel(first)
                               THEN FixSentinels(room.nodes, at, room.N) ELSE room.nodes]
  BY <1>4, <1>7 DEF Reshaped, IsList
<1>9. SlideLeftDoubling(L, i) \in {[kept EXCEPT !.nodes = FixSentinels(kept.nodes, at, kept.N)],
                                   [kept EXCEPT !.nodes = kept.nodes]}
  BY <1>6, <1>8
<1>10. Reshaped(kept, [kept EXCEPT !.nodes = FixSentinels(kept.nodes, at, kept.N)], kept.N)
  <2>1. \A v \in DOMAIN at : at[v] \in Nat
    OBVIOUS
  <2> HIDE DEF kept, at
  <2> QED
    BY <1>5, <2>1, NodesShape DEF Reshaped
<1>11. [kept EXCEPT !.nodes = kept.nodes] = kept
  <2> HIDE DEF kept
  <2> QED
    BY <1>5, Updated DEF Reshaped, IsList
<1> HIDE DEF kept, at
<1> QED
  BY <1>5, <1>9, <1>10, <1>11 DEF Reshaped

\* An insertion never makes the list shorter.
Grown(L, M) == IsList(M) /\ M.N >= L.N /\ Vertices(M) = Vertices(L)

\* What keeps the size of a list or doubles it makes it no smaller.
LEMMA ReshapedGrown ==
  ASSUME NEW L, IsList(L), NEW M, Reshaped(L, M, L.N) \/ Reshaped(L, M, 2 * L.N)
  PROVE  Grown(L, M)
<1>1. L.N \in Nat \ {0}
  BY PowersPositive DEF IsList
<1> QED
  BY <1>1 DEF Reshaped, Grown

\* Two operations that make a list no smaller.
LEMMA GrownTwice ==
  ASSUME NEW L, IsList(L), NEW M, NEW P, Grown(L, M), Grown(M, P)
  PROVE  Grown(L, P)
<1>1. L.N \in Nat /\ M.N \in Nat /\ P.N \in Nat
  BY PowersPositive DEF IsList, Grown
<1> QED
  BY <1>1 DEF Grown

\* slide_left and the room that insert makes.
LEMMA SlideLeftShape ==
  ASSUME NEW L, IsList(L), NEW i \in Int
  PROVE  /\ Grown(L, SlideLeft(L, i))
         /\ PrevNull(L, i) >= 0 => Reshaped(L, SlideLeft(L, i), L.N)
<1>1. CASE PrevNull(L, i) >= 0
  <2>1. PrevNull(L, i) \in Nat
    BY <1>1, PrevNullFound
  <2>2. Reshaped(L, ShiftLeft(L, i, PrevNull(L, i)), L.N)
    BY <2>1, ShiftLeftShape
  <2> QED
    BY <1>1, <2>2, ReshapedGrown DEF SlideLeft
<1>2. CASE ~(PrevNull(L, i) >= 0)
  BY <1>2, SlideLeftDoublingShape, ReshapedGrown DEF SlideLeft
<1> QED
  BY <1>1, <1>2

\* insert writes at its slot or, after slide_left, at the one before it.
LEMMA MakeRoomShape ==
  ASSUME NEW L, IsList(L), NEW index \in Nat
  PROVE  /\ Grown(L, MakeRoom(L, index).list)
         /\ MakeRoom(L, index).at \in {index, index - 1}
<1> DEFINE slid == SlidOffTheEnd(L, index)
<1>1. L.N \in Nat
  BY PowersPositive DEF IsList
<1>2. Reshaped(L, L, L.N)
  BY DEF Reshaped
<1>3. Reshaped(L, ShiftRight(L, index, NextNull(L, index)), L.N)
  BY ShiftRightShape
<1>4. Grown(L, SlideLeft(slid, index - 1))
  <2>1. Reshaped(L, slid, L.N)
    BY OffTheEndShape
  <2>2. index - 1 \in Int
    OBVIOUS
  <2> HIDE DEF slid
  <2>3. Grown(slid, SlideLeft(slid, index - 1)) /\ Grown(L, slid)
    BY <2>1, <2>2, SlideLeftShape, ReshapedGrown DEF Reshaped
  <2> QED
    BY <2>3, GrownTwice
<1>5. Grown(L, L) /\ Grown(L, ShiftRight(L, index, NextNull(L, index)))
  BY <1>2, <1>3, ReshapedGrown
<1>6. MakeRoom(L, index) \in {[list |-> L, at |-> index],
                              [list |-> ShiftRight(L, index, NextNull(L, index)), at |-> index],
                              [list |-> SlideLeft(slid, index - 1), at |-> index - 1]}
  BY DEF MakeRoom
<1> HIDE DEF slid
<1> QED
  BY <1>4, <1>5, <1>6

\* insert writes its element: nothing but edges and sentinels has moved.
LEMMA PutShape ==
  ASSUME NEW L, IsList(L), NEW index \in Nat, NEW elem
  PROVE  Grown(L, Put(L, index, elem))
<1>1. PICK R, at : R = MakeRoom(L, index).list /\ at = MakeRoom(L, index).at
  OBVIOUS
<1>2. Put(L, index, elem) = [R EXCEPT !.items[at] = elem]
  BY <1>1 DEF Put
<1>3. Grown(L, R)
  BY <1>1, MakeRoomShape
<1>4. Reshaped(R, [R EXCEPT !.items[at] = elem], R.N)
  BY <1>3, WriteShape DEF Grown
<1>5. Grown(R, [R EXCEPT !.items[at] = elem])
  BY <1>3, <1>4, ReshapedGrown DEF Grown
<1> QED
  BY <1>2, <1>3, <1>5, GrownTwice

\* The window that insert evens out begins at a slot.
LEMMA SpreadWindowFound ==
  ASSUME NEW L, NEW index \in Nat, NEW len \in Nat \ {0}
  PROVE  LET w == SpreadWindow(L, index, len)
         IN  /\ w.start \in Nat /\ w.len \in {len, 2 * len}
             /\ w.start <= index
<1> DEFINE leaf == FindNode(index, len)
<1>1. leaf \in Nat /\ leaf <= index
  BY NodeFound
<1>2. FindNode(leaf, 2 * len) \in Nat /\ FindNode(leaf, 2 * len) <= leaf
  <2> HIDE DEF leaf
  <2>1. 2 * len \in Nat \ {0}
    OBVIOUS
  <2> QED
    BY <1>1, <2>1, NodeFound
<1> QED
  BY <1>1, <1>2 DEF SpreadWindow

\* insert evens out a leaf or its parent.
LEMMA EvenOutShape ==
  ASSUME NEW L, IsList(L), NEW index \in Nat, NEW len \in Nat \ {0}
  PROVE  Reshaped(L, EvenOut(L, index, len), L.N)
BY SpreadWindowFound, RedistributeShape DEF EvenOut

\* What acquire_insert_locks tells insert.
Infos == {NoInfo, DoubleInfo} \cup {RangeInfo(start, len) : start, len \in Nat}

\* The level at which insert (remove) stops climbing.
LEMMA InsertLevelFound ==
  ASSUME NEW L, IsList(L), NEW index
  PROVE  /\ InsertLevel(L, index) \in 0 .. Height(L.N) + 1
         /\ InsertLevel(L, index) <= Height(L.N) => ~DenseAt(L, index, InsertLevel(L, index), 0)
         /\ \A j \in 0 .. Height(L.N) : j < InsertLevel(L, index) => DenseAt(L, index, j, 0)
<1> DEFINE T == {j \in 0 .. Height(L.N) + 1 :
                   j = Height(L.N) + 1 \/ ~DenseAt(L, index, j, 0)}
<1>1. Height(L.N) \in Nat
  BY LeafLength DEF IsList
<1>2. T \subseteq Nat /\ Height(L.N) + 1 \in T
  BY <1>1
<1>3. Least(T) \in T /\ \A y \in T : Least(T) <= y
  <2> HIDE DEF T
  <2> QED
    BY <1>2, LeastFound
<1>4. PICK n : n = InsertLevel(L, index) /\ n \in T /\ \A y \in T : n <= y
  BY <1>3 DEF InsertLevel
<1>5. ASSUME NEW j \in 0 .. Height(L.N), j < n PROVE DenseAt(L, index, j, 0)
  <2>1. j \notin T /\ j \in 0 .. Height(L.N) + 1
    BY <1>1, <1>4, <1>5
  <2> QED
    BY <2>1
<1> QED
  BY <1>1, <1>4, <1>5

\* The same for remove and its windows that are too sparse.
LEMMA RemoveLevelFound ==
  ASSUME NEW L, IsList(L), NEW index
  PROVE  /\ RemoveLevel(L, index) \in 0 .. Height(L.N) + 1
         /\ RemoveLevel(L, index) <= Height(L.N) => ~SparseAt(L, index, RemoveLevel(L, index), 0)
         /\ \A j \in 0 .. Height(L.N) : j < RemoveLevel(L, index) => SparseAt(L, index, j, 0)
<1> DEFINE T == {j \in 0 .. Height(L.N) + 1 :
                   j = Height(L.N) + 1 \/ ~SparseAt(L, index, j, 0)}
<1>1. Height(L.N) \in Nat
  BY LeafLength DEF IsList
<1>2. T \subseteq Nat /\ Height(L.N) + 1 \in T
  BY <1>1
<1>3. Least(T) \in T /\ \A y \in T : Least(T) <= y
  <2> HIDE DEF T
  <2> QED
    BY <1>2, LeastFound
<1>4. PICK n : n = RemoveLevel(L, index) /\ n \in T /\ \A y \in T : n <= y
  BY <1>3 DEF RemoveLevel
<1>5. ASSUME NEW j \in 0 .. Height(L.N), j < n PROVE SparseAt(L, index, j, 0)
  <2>1. j \notin T /\ j \in 0 .. Height(L.N) + 1
    BY <1>1, <1>4, <1>5
  <2> QED
    BY <2>1
<1> QED
  BY <1>1, <1>4, <1>5

\* The redistribution after an insertion, whoever decided on it.
LEMMA SettleShape ==
  ASSUME NEW L, IsList(L), NEW leaf \in Nat, NEW info \in Infos
  PROVE  /\ Grown(L, Settle(L, leaf, info))
         /\ info.kind = "range" => Reshaped(L, Settle(L, leaf, info), L.N)
<1>1. CASE info = DoubleInfo
  <2>1. Settle(L, leaf, info) = DoubleList(L)
    BY <1>1 DEF Settle, DoubleInfo
  <2> QED
    BY <1>1, <2>1, DoubleShape, ReshapedGrown DEF DoubleInfo
<1>2. ASSUME NEW start \in Nat, NEW len \in Nat, info = RangeInfo(start, len)
      PROVE  Reshaped(L, Settle(L, leaf, info), L.N)
  <2>1. Settle(L, leaf, info) = IF len > LogN(L.N) THEN Redistribute(L, start, len) ELSE L
    BY <1>2 DEF Settle, RangeInfo
  <2> QED
    BY <2>1, RedistributeShape DEF Reshaped
<1>3. CASE info = NoInfo
  <2> DEFINE j == InsertLevel(L, leaf)
  <2>1. j \in Nat
    BY InsertLevelFound, LeafLength DEF IsList
  <2>2. Settle(L, leaf, info) = Rebalance(L, leaf)
    BY <1>3 DEF Settle, NoInfo
  <2>3. Rebalance(L, leaf) \in {DoubleList(L), L, Redistribute(L, StartAt(L, leaf, j), LenAt(L, j))}
    BY DEF Rebalance
  <2>4. StartAt(L, leaf, j) \in Nat
    BY <2>1, LevelFound
  <2>5. Reshaped(L, Rebalance(L, leaf), L.N) \/ Reshaped(L, Rebalance(L, leaf), 2 * L.N)
    <3> HIDE DEF j
    <3> QED
      BY <2>3, <2>4, DoubleShape, RedistributeShape DEF Reshaped
  <2> QED
    BY <1>3, <2>2, <2>5, ReshapedGrown DEF NoInfo
<1> QED
  BY <1>1, <1>2, <1>3, ReshapedGrown DEF Infos

\* The part of insert after its checks: the list gets no smaller.
LEMMA DepositShape ==
  ASSUME NEW L, IsList(L), NEW index \in Nat, NEW elem, NEW info \in Infos
  PROVE  Grown(L, Deposit(L, index, elem, info))
<1>1. LogN(L.N) \in Nat \ {0}
  BY LeafLength DEF IsList
<1>2. PICK len, written : len = LogN(L.N) /\ written = Put(L, index, elem)
  OBVIOUS
<1>3. PICK even, leaf : /\ even = EvenOut(written, index, len)
                        /\ leaf = SpreadWindow(written, index, len).start
  OBVIOUS
<1>4. Deposit(L, index, elem, info) = Settle(even, leaf, info)
  BY <1>2, <1>3 DEF Deposit
<1>5. Grown(L, written)
  BY <1>2, PutShape
<1>6. Grown(written, even)
  BY <1>1, <1>2, <1>3, <1>5, EvenOutShape, ReshapedGrown DEF Grown
<1>7. leaf \in Nat
  BY <1>1, <1>2, <1>3, SpreadWindowFound
<1>8. Grown(even, Settle(even, leaf, info))
  BY <1>6, <1>7, SettleShape DEF Grown
<1> QED
  BY <1>4, <1>5, <1>6, <1>8, GrownTwice

\* The whole insert.
LEMMA InsertShape ==
  ASSUME NEW L, IsList(L), NEW index \in Nat, NEW elem, NEW src \in Vertices(L),
         NEW info \in Infos
  PROVE  Grown(L, Insert(L, index, elem, src, info))
<1>1. CASE Present(L, index, elem)
  <2>1. Insert(L, index, elem, src, info) = [L EXCEPT !.items[index].value = elem.value]
    BY <1>1 DEF Insert
  <2> DEFINE items == [L.items EXCEPT ![index].value = elem.value]
  <2>2. [L EXCEPT !.items[index].value = elem.value] = [L EXCEPT !.items = items]
    OBVIOUS
  <2>3. items = [p \in Slots(L) |-> items[p]]
    BY DEF IsList
  <2> HIDE DEF items
  <2> QED
    BY <2>1, <2>2, <2>3, ItemsShape, ReshapedGrown
<1>2. CASE Insert(L, index, elem, src, info) = Deposit(L, index, elem, info)
  BY <1>2, DepositShape
<1>3. CASE LET D == DoubleList(L)
           IN  Insert(L, index, elem, src, info)
                 = Deposit(D, FindEdge(D, src, elem.dest), elem, NoInfo)
  <2> DEFINE D == DoubleList(L)
             i == FindEdge(D, src, elem.dest)
  <2>1. Reshaped(L, D, 2 * L.N)
    BY DoubleShape
  <2>2. i \in Nat
    <3> HIDE DEF D
    <3>1. PICK n \in Nat : D.nodes \in [0 .. n - 1 -> Ranges]
      BY <2>1 DEF Reshaped, IsList
    <3>2. D.nodes[src].beginning + 1 \in Nat /\ D.nodes[src].end \in Nat
      BY <2>1, <3>1 DEF Reshaped, Vertices, Ranges
    <3> QED
      BY <3>2, SearchFound DEF FindEdge
  <2>3. NoInfo \in Infos
    BY DEF Infos
  <2> HIDE DEF D, i
  <2>4. Grown(D, Deposit(D, i, elem, NoInfo))
    BY <2>1, <2>2, <2>3, DepositShape DEF Reshaped
  <2>5. Grown(L, D)
    BY <2>1, ReshapedGrown
  <2> QED
    BY <1>3, <2>4, <2>5, GrownTwice DEF D, i
<1> QED
  BY <1>1, <1>2, <1>3 DEF Insert

\* A removal may halve the list.
LEMMA SettleRemovalShape ==
  ASSUME NEW L, IsList(L), NEW leaf \in Nat
  PROVE  /\ Reshaped(L, SettleRemoval(L, leaf), SettleRemoval(L, leaf).N)
         /\ RemoveLevel(L, leaf) <= Height(L.N) => SettleRemoval(L, leaf).N = L.N
<1>1. PICK j : j = RemoveLevel(L, leaf)
  OBVIOUS
<1>2. j \in 0 .. Height(L.N) + 1 /\ Height(L.N) \in Nat
  BY <1>1, RemoveLevelFound, LeafLength DEF IsList
<1>3. CASE j > Height(L.N)
  <2>1. SettleRemoval(L, leaf) = HalfList(L)
    BY <1>1, <1>3 DEF SettleRemoval
  <2>2. Height(L.N) > 0
    <3>1. SparseAt(L, leaf, 0, 0)
      BY <1>1, <1>2, <1>3, RemoveLevelFound
    <3> QED
      BY <3>1 DEF SparseAt, TooSparse
  <2>3. Reshaped(L, SettleRemoval(L, leaf), L.N \div 2)
    BY <2>1, <2>2, HalfShape
  <2> QED
    BY <1>1, <1>2, <1>3, <2>3 DEF Reshaped
<1>4. CASE ~(j > Height(L.N))
  <2>1. SettleRemoval(L, leaf) = Redistribute(L, StartAt(L, leaf, j), LenAt(L, j))
    BY <1>1, <1>4 DEF SettleRemoval
  <2>2. j \in Nat
    BY <1>2
  <2>3. StartAt(L, leaf, j) \in Nat
    BY <2>2, LevelFound
  <2>4. Reshaped(L, SettleRemoval(L, leaf), L.N)
    BY <2>1, <2>3, RedistributeShape
  <2> QED
    BY <2>4 DEF Reshaped
<1> QED
  BY <1>3, <1>4

\* The whole remove: the list may be halved, and no vertex goes.
LEMMA RemoveShape ==
  ASSUME NEW L, IsList(L), NEW index \in Nat, NEW dest
  PROVE  /\ IsList(Remove(L, index, dest))
         /\ Vertices(Remove(L, index, dest)) = Vertices(L)
<1>1. LogN(L.N) \in Nat \ {0}
  BY LeafLength DEF IsList
<1>2. PICK leaf : leaf = FindLeaf(L, index)
  OBVIOUS
<1>3. leaf \in Nat
  BY <1>1, <1>2, NodeFound DEF FindLeaf
<1>4. PICK M : M = Redistribute(Erase(L, index), leaf, LogN(L.N))
  OBVIOUS
<1>5. Reshaped(L, Erase(L, index), L.N)
  BY WriteShape DEF Erase
<1>6. Reshaped(L, M, L.N)
  BY <1>3, <1>4, <1>5, RedistributeShape DEF Reshaped
<1>7. Remove(L, index, dest) \in {L, SettleRemoval(M, leaf)}
  BY <1>2, <1>4 DEF Remove
<1> QED
  BY <1>3, <1>6, <1>7, SettleRemovalShape DEF Reshaped

\* add_node makes a list with one vertex more.
LEMMA AddNodeShape ==
  ASSUME NEW L, IsList(L)
  PROVE  /\ IsList(AddNode(L)) /\ AddNode(L).N >= L.N
         /\ Vertices(L) \subseteq Vertices(AddNode(L))
<1>1. PICK n \in Nat : L.nodes \in [0 .. n - 1 -> Ranges]
  BY DEF IsList
<1>2. Cardinality(Vertices(L)) = n
  <2>1. Cardinality(0 .. n - 1) = (n - 1) - 0 + 1
    BY FS_Interval
  <2> QED
    BY <1>1, <2>1 DEF Vertices
<1>3. PICK at : at = IF n > 0 THEN L.nodes[n - 1].end ELSE 0
  OBVIOUS
<1>4. at \in Nat
  BY <1>1, <1>3 DEF Ranges
<1>5. PICK nodes : nodes = [v \in 0 .. n |-> IF v < n THEN L.nodes[v]
                                           ELSE [beginning |-> at, end |-> at + 1]]
  OBVIOUS
<1>6. nodes \in [0 .. n -> Ranges]
  BY <1>1, <1>4, <1>5 DEF Ranges
<1>7. PICK M : M = [L EXCEPT !.nodes = nodes]
  OBVIOUS
<1>8. M = [N |-> L.N, items |-> L.items, nodes |-> nodes]
  BY <1>7, Updated
<1>9. IsList(M) /\ Vertices(M) = 0 .. n /\ M.N = L.N
  <2>1. 0 .. n = 0 .. (n + 1) - 1 /\ n + 1 \in Nat
    OBVIOUS
  <2> QED
    BY <1>6, <1>8, <2>1 DEF IsList, Slots, Vertices
<1>10. AddNode(L) = Insert(M, at, Sentinel(n), n, NoInfo)
  BY <1>2, <1>3, <1>5, <1>7, Zenon DEF AddNode
<1>11. Grown(M, AddNode(L))
  <2>1. n \in Vertices(M) /\ NoInfo \in Infos
    BY <1>9 DEF Infos
  <2> QED
    BY <1>4, <1>9, <1>10, <2>1, InsertShape
<1>12. Vertices(L) \subseteq Vertices(M)
  BY <1>1, <1>9 DEF Vertices
<1> QED
  BY <1>9, <1>11, <1>12 DEF Grown

\* The constructor makes a list.
LEMMA InitialShape ==
  ASSUME NEW n \in Nat, NEW minimum \in Nat \ {0}
  PROVE  /\ IsList(InitialList(n, minimum))
         /\ InitialList(n, minimum).N > 2 * n
         /\ InitialList(n, minimum).N > minimum
         /\ Vertices(InitialList(n, minimum)) = 0 .. n - 1
<1>1. PICK m : m = IF 2 * n > minimum THEN 2 * n ELSE minimum
  OBVIOUS
<1>2. m \in Nat \ {0} /\ m >= 2 * n /\ m >= minimum
  BY <1>1
<1>3. Bsr(m) \in Nat /\ m < 2^(Bsr(m) + 1)
  BY <1>2, BsrFound
<1>4. 2^(Bsr(m) + 1) = 2 * 2^Bsr(m) /\ 2^Bsr(m) \in Nat
  BY <1>3, PowerPlusOne
<1>5. PICK N : N = InitialSize(m)
  OBVIOUS
<1>6. N = 2^(Bsr(m) + 1)
  BY <1>4, <1>5 DEF InitialSize
<1>7. N \in PowersOfTwo /\ N > m /\ N \in Nat
  <2>1. N \in PowersOfTwo
    BY <1>3, <1>6 DEF PowersOfTwo
  <2>2. N > m
    BY <1>3, <1>4, <1>6
  <2> QED
    BY <1>2, <1>4, <1>6, <2>1, <2>2
<1> DEFINE at == [v \in 0 .. n - 1 |-> (v * N) \div n]
           nodes == [v \in 0 .. n - 1 |->
                       [beginning |-> at[v],
                        end |-> IF v = n - 1 THEN N - 1 ELSE at[v + 1]]]
           items == [p \in 0 .. N - 1 |->
                       IF \E v \in 0 .. n - 1 : at[v] = p
                       THEN Sentinel(CHOOSE v \in 0 .. n - 1 : at[v] = p)
                       ELSE Null]
<1>8. InitialList(n, minimum) = [N |-> N, items |-> items, nodes |-> nodes]
  BY <1>1, <1>5 DEF InitialList
<1>9. \A v \in 0 .. n - 1 : at[v] \in Nat
  <2> SUFFICES ASSUME NEW v \in 0 .. n - 1 PROVE at[v] \in Nat
    OBVIOUS
  <2>1. n \in Nat \ {0} /\ v * N \in Nat
    BY <1>7
  <2> QED
    BY <2>1, Division
<1>10. nodes \in [0 .. n - 1 -> Ranges]
  <2> HIDE DEF at
  <2>1. \A v \in 0 .. n - 1 : nodes[v] \in Ranges
    BY <1>7, <1>9, <1>2 DEF Ranges
  <2> QED
    BY <2>1
<1> HIDE DEF nodes
<1>11. items = [p \in 0 .. N - 1 |-> items[p]]
  OBVIOUS
<1> HIDE DEF items
<1> QED
  BY <1>2, <1>7, <1>8, <1>10, <1>11 DEF IsList, Slots, Vertices

----------------------------------------------------------------------------
(* Counting.                                                               *)

\* The slots of a set that are not null.
Taken(L, S) == {p \in S : ~IsNull(L.items[p])}

\* Among the elements of a finite set of numbers each has a rank of its own,
\* in their order and below their number.
LEMMA RankFound ==
  ASSUME NEW S, S \subseteq Int, IsFiniteSet(S)
  PROVE  /\ Cardinality(S) \in Nat
         /\ \A i \in S : Rank(S, i) \in 0 .. Cardinality(S) - 1
         /\ \A i, k \in S : i < k => Rank(S, i) < Rank(S, k)
<1> DEFINE Before(i) == {o \in S : o < i}
<1>1. ASSUME NEW i PROVE IsFiniteSet(Before(i)) /\ Cardinality(Before(i)) \in Nat
  BY FS_Subset, FS_CardinalityType
<1>2. ASSUME NEW i \in S
      PROVE  Cardinality(Before(i)) < Cardinality(S)
  <2>1. Before(i) \subseteq S /\ i \notin Before(i)
    OBVIOUS
  <2>2. Cardinality(Before(i)) <= Cardinality(S) /\ Cardinality(Before(i)) # Cardinality(S)
    <3> HIDE DEF Before
    <3> QED
      BY <1>2, <2>1, FS_Subset
  <2> QED
    BY <1>1, <2>2, FS_CardinalityType, SMTT(30)
<1>3. ASSUME NEW i \in S, NEW k \in S, i < k
      PROVE  Cardinality(Before(i)) < Cardinality(Before(k))
  <2>1. Before(i) \subseteq Before(k) /\ i \in Before(k) /\ i \notin Before(i)
    <3>1. i \in Int /\ k \in Int
      OBVIOUS
    <3>2. ASSUME NEW o \in Before(i) PROVE o \in Before(k)
      <4>1. o \in Int /\ o \in S /\ o < i
        OBVIOUS
      <4> QED
        BY <1>3, <3>1, <4>1
    <3>3. ~(i < i)
      BY <3>1
    <3> QED
      BY <1>3, <3>2, <3>3
  <2>2. Cardinality(Before(i)) <= Cardinality(Before(k))
        /\ Cardinality(Before(i)) # Cardinality(Before(k))
    <3>1. IsFiniteSet(Before(k))
      BY <1>1
    <3> HIDE DEF Before
    <3> QED
      BY <2>1, <3>1, FS_Subset
  <2> QED
    BY <1>1, <2>2
<1>4. Cardinality(S) \in Nat
  BY FS_CardinalityType
<1> HIDE DEF Before
<1>5. ASSUME NEW i PROVE Rank(S, i) = Cardinality(Before(i))
  BY DEF Rank, Before
<1> QED
  BY <1>1, <1>2, <1>3, <1>4, <1>5

\* redistribute's k-th of j elements gets a slot of the window, the first one the
\* first, and each one a slot right of the one before, whatever is rounded.
THEOREM SpreadSlotFound ==
  ASSUME NEW index \in Nat, NEW len \in Nat \ {0}, NEW j \in 1 .. len
  PROVE  /\ \A k \in 0 .. j - 1 : SpreadSlot(index, len, j, k) \in Window(index, len)
         /\ SpreadSlot(index, len, j, 0) = index
         /\ \A i, k \in 0 .. j - 1 :
              i < k => SpreadSlot(index, len, j, i) < SpreadSlot(index, len, j, k)
<1> DEFINE q(k) == (k * len) \div j
           low(k) == <<index, len, j, k>> \in RoundsLow
<1>1. j \in Nat \ {0}
  OBVIOUS
<1>2. ASSUME NEW k \in 0 .. j - 1
      PROVE  /\ k * len \in Nat /\ q(k) \in Nat
             /\ q(k) * j <= k * len /\ k * len < q(k) * j + j
             /\ \A n \in Nat : n * j <= k * len => n <= q(k)
             /\ \A n \in Nat : k * len < n * j => q(k) < n
  <2>1. k * len \in Nat
    OBVIOUS
  <2> QED
    BY <1>1, <2>1, Division
<1>3. ASSUME NEW k \in 0 .. j - 1, low(k)
      PROVE  k > 0 /\ j < len /\ k * len = q(k) * j
  <2>1. /\ k > 0 /\ j < len /\ (k * len) % j = 0
    <3> DEFINE r == <<index, len, j, k>>
    <3>1. 0 < r[4] /\ r[4] < r[3] /\ r[3] < r[2] /\ (r[4] * r[2]) % r[3] = 0
      BY <1>3, RoundsLowAssumption
    <3> QED
      BY <3>1
  <2>2. k * len = q(k) * j
    <3>1. k * len = j * q(k) + ((k * len) % j)
      BY <1>1
    <3> QED
      BY <1>2, <2>1, <3>1
  <2> QED
    BY <2>1, <2>2
<1>4. ASSUME NEW k \in 0 .. j - 1 PROVE q(k) < len
  <2>1. k * len < len * j
    OBVIOUS
  <2> QED
    BY <1>2, <2>1
<1>5. ASSUME NEW k \in 0 .. j - 1, low(k) PROVE q(k) >= 1
  <2>1. q(k) # 0
    BY <1>2, <1>3, <1>5
  <2> QED
    BY <1>2, <2>1
<1>6. ASSUME NEW i \in 0 .. j - 1, NEW k \in 0 .. j - 1, i < k
      PROVE  /\ q(i) + 1 <= q(k)
             /\ low(k) => q(i) + 1 < q(k)
  <2>1. i * len + len <= k * len
    BY <1>6
  <2>2. (q(i) + 1) * j = q(i) * j + j
    BY <1>2
  <2>3. (q(i) + 1) * j <= k * len
    BY <1>2, <2>1, <2>2
  <2>4. q(i) + 1 <= q(k)
    BY <1>2, <2>3
  <2>5. ASSUME low(k) PROVE q(i) + 1 # q(k)
    <3>1. j < len /\ k * len = q(k) * j
      BY <1>3, <2>5
    <3>2. (q(i) + 1) * j < k * len
      BY <1>2, <2>1, <2>2, <3>1
    <3> QED
      BY <3>1, <3>2
  <2> HIDE DEF q
  <2> QED
    BY <1>2, <2>4, <2>5
<1>7. ASSUME NEW k \in 0 .. j - 1
      PROVE  SpreadSlot(index, len, j, k) = index + q(k) - (IF low(k) THEN 1 ELSE 0)
  BY DEF SpreadSlot
<1>8. q(0) = 0
  <2>1. 0 * len < 1 * j
    BY <1>1
  <2>2. q(0) < 1 /\ q(0) \in Nat
    BY <1>2, <2>1
  <2> QED
    BY <2>2
<1>9. ~low(0)
  BY <1>3
<1> HIDE DEF q, low
<1>10. ASSUME NEW k \in 0 .. j - 1 PROVE SpreadSlot(index, len, j, k) \in Window(index, len)
  <2>1. SpreadSlot(index, len, j, k) = index + q(k) - (IF low(k) THEN 1 ELSE 0)
    BY <1>7
  <2>2. q(k) \in Nat /\ q(k) < len /\ (low(k) => q(k) >= 1)
    BY <1>2, <1>4, <1>5
  <2> QED
    BY <2>1, <2>2 DEF Window
<1>11. SpreadSlot(index, len, j, 0) = index
  BY <1>7, <1>8, <1>9
<1>12. ASSUME NEW i \in 0 .. j - 1, NEW k \in 0 .. j - 1, i < k
       PROVE  SpreadSlot(index, len, j, i) < SpreadSlot(index, len, j, k)
  <2>1. /\ SpreadSlot(index, len, j, i) = index + q(i) - (IF low(i) THEN 1 ELSE 0)
        /\ SpreadSlot(index, len, j, k) = index + q(k) - (IF low(k) THEN 1 ELSE 0)
    BY <1>7
  <2>2. q(i) \in Nat /\ q(k) \in Nat /\ q(i) + 1 <= q(k) /\ (low(k) => q(i) + 1 < q(k))
    BY <1>2, <1>6, <1>12
  <2> QED
    BY <2>1, <2>2
<1> QED
  BY <1>10, <1>11, <1>12

----------------------------------------------------------------------------
(* redistribute.                                                           *)

\* Where redistribute puts the elements of a window: the items of M are those of L
\* with the elements of W moved by the function to, which keeps their order.
Spreads(L, M, W, to) ==
  /\ to \in [Taken(L, W) -> W]
  /\ \A i, k \in Taken(L, W) : i < k => to[i] < to[k]
  /\ \A i \in Taken(L, W) : M.items[to[i]] = L.items[i]
  /\ \A p \in W : (\A i \in Taken(L, W) : to[i] # p) => IsNull(M.items[p])
  /\ \A p \in Slots(L) \ W : M.items[p] = L.items[p]

\* redistribute moves the elements of its window within the window, in order, and
\* the first of them to the first slot; it leaves all other slots alone.
THEOREM RedistributeSpreads ==
  ASSUME NEW L, IsList(L), NEW index \in Nat, NEW len \in Nat \ {0},
         Window(index, len) \subseteq Slots(L)
  PROVE  \E to : /\ Spreads(L, Redistribute(L, index, len), Window(index, len), to)
                 /\ \A i \in Taken(L, Window(index, len)) :
                      (\A o \in Taken(L, Window(index, len)) : i <= o) => to[i] = index
<1> DEFINE W == Window(index, len)
           occ == Taken(L, W)
           j == Cardinality(occ)
           to == [i \in occ |-> SpreadSlot(index, len, j, Rank(occ, i))]
           items == Spread(L, index, len)
<1>1. occ = Occupied(L, index, len)
  BY DEF Occupied, Taken
<1>2. IsFiniteSet(occ) /\ occ \subseteq W /\ W \subseteq Int /\ j \in 0 .. len
  <2>1. IsFiniteSet(W) /\ Cardinality(W) = len
    BY FS_Interval DEF Window
  <2>2. occ \subseteq W
    BY DEF Taken
  <2>3. IsFiniteSet(occ) /\ j <= len
    <3> HIDE DEF W, occ
    <3> QED
      BY <2>1, <2>2, FS_Subset
  <2>4. j \in Nat
    BY <2>3, FS_CardinalityType
  <2> QED
    BY <2>2, <2>3, <2>4 DEF Window
<1>3. /\ \A i \in occ : Rank(occ, i) \in 0 .. j - 1
      /\ \A i, k \in occ : i < k => Rank(occ, i) < Rank(occ, k)
  <2>1. occ \subseteq Int
    BY <1>2
  <2> HIDE DEF occ
  <2> QED
    BY <1>2, <2>1, RankFound
<1>4. occ # {} => j \in 1 .. len
  <2>1. \A i \in occ : j >= 1
    BY <1>2, <1>3
  <2> QED
    BY <1>2, <2>1
<1>5. ASSUME NEW i \in occ
      PROVE  /\ to[i] \in W
             /\ Rank(occ, i) = 0 => to[i] = index
             /\ \A k \in occ : i < k => to[i] < to[k]
  <2>1. j \in 1 .. len
    BY <1>4
  <2>2. Rank(occ, i) \in 0 .. j - 1 /\ to[i] = SpreadSlot(index, len, j, Rank(occ, i))
    BY <1>3
  <2>3. ASSUME NEW k \in occ, i < k PROVE to[i] < to[k]
    <3>1. /\ Rank(occ, k) \in 0 .. j - 1 /\ Rank(occ, i) < Rank(occ, k)
          /\ to[k] = SpreadSlot(index, len, j, Rank(occ, k))
      BY <1>3, <2>3
    <3> HIDE DEF j, occ, to
    <3> QED
      BY <2>1, <2>2, <3>1, SpreadSlotFound
  <2> HIDE DEF j, occ, to
  <2> QED
    BY <2>1, <2>2, <2>3, SpreadSlotFound
<1>6. ASSUME NEW i \in occ, NEW k \in occ, to[i] = to[k] PROVE i = k
  <2>1. i \in Int /\ k \in Int /\ to[i] \in Int
    BY <1>2, <1>5
  <2> HIDE DEF to, occ
  <2> QED
    BY <1>5, <1>6, <2>1
<1>7. items = [p \in Slots(L) |->
                 IF p \notin W THEN L.items[p]
                 ELSE IF \E i \in occ : to[i] = p
                      THEN L.items[CHOOSE i \in occ : to[i] = p] ELSE Null]
  BY <1>1 DEF Spread
<1>8. Redistribute(L, index, len).items = items
  <2> DEFINE nodes == FixSentinels(L.nodes, SentinelsAt(items, W), L.N)
  <2>1. Redistribute(L, index, len) = [L EXCEPT !.items = items, !.nodes = nodes]
    BY DEF Redistribute
  <2>2. Redistribute(L, index, len) = [N |-> L.N, items |-> items, nodes |-> nodes]
    <3> HIDE DEF items, nodes
    <3> QED
      BY <2>1, Updated
  <2> QED
    BY <2>2
<1>9. ASSUME NEW i \in occ PROVE items[to[i]] = L.items[i]
  <2>1. (CHOOSE o \in occ : to[o] = to[i]) = i
    <3> HIDE DEF to, occ
    <3> QED
      BY <1>6, Zenon
  <2>2. to[i] \in W /\ to[i] \in Slots(L)
    BY <1>5
  <2> HIDE DEF items, to, occ
  <2> QED
    BY <1>7, <2>1, <2>2
<1>10. ASSUME NEW p \in W, \A i \in occ : to[i] # p PROVE items[p] = Null
  <2> HIDE DEF items, to, occ
  <2> QED
    BY <1>7, <1>10
<1>11. ASSUME NEW p \in Slots(L) \ W PROVE items[p] = L.items[p]
  <2> HIDE DEF items, to, occ
  <2> QED
    BY <1>7
<1>12. ASSUME NEW i \in occ, \A o \in occ : i <= o PROVE to[i] = index
  <2>1. {o \in occ : o < i} = {}
    BY <1>2, <1>12
  <2>2. Rank(occ, i) = 0
    BY <2>1, FS_EmptySet DEF Rank
  <2> QED
    BY <1>5, <2>2
<1>13. to \in [occ -> W]
  BY <1>5
<1> HIDE DEF items, to
<1>14. Spreads(L, Redistribute(L, index, len), W, to)
  <2>1. IsNull(Null)
    BY DEF IsNull, Null
  <2> QED
    BY <1>5, <1>8, <1>9, <1>10, <1>11, <1>13, <2>1 DEF Spreads
<1> QED
  BY <1>12, <1>14

----------------------------------------------------------------------------
(* Keeping the elements.                                                   *)

\* The elements of M in T are those of L in S, in the same order; g says which.
Follows(L, M, S, T, g) ==
  /\ g \in [Taken(L, S) -> Taken(M, T)]
  /\ \A i \in Taken(L, S) : M.items[g[i]] = L.items[i]
  /\ \A i, k \in Taken(L, S) : i < k => g[i] < g[k]
  /\ \A p \in Taken(M, T) : \E i \in Taken(L, S) : g[i] = p

\* M holds the elements of L, in the same order.
Keeps(L, M) == \E g : Follows(L, M, Slots(L), Slots(M), g)

\* Then there are as many of them.
LEMMA FollowsCount ==
  ASSUME NEW L, NEW M, NEW S \in SUBSET Int, IsFiniteSet(S), NEW T \in SUBSET Int, NEW g,
         Follows(L, M, S, T, g)
  PROVE  /\ IsFiniteSet(Taken(L, S)) /\ IsFiniteSet(Taken(M, T))
         /\ Cardinality(Taken(M, T)) = Cardinality(Taken(L, S))
<1>1. IsFiniteSet(Taken(L, S))
  BY FS_Subset DEF Taken
<1>2. ASSUME NEW i \in Taken(L, S), NEW k \in Taken(L, S), g[i] = g[k] PROVE i = k
  <2>1. i \in Int /\ k \in Int
    BY DEF Taken
  <2>2. g[i] \in Int /\ g[k] \in Int
    <3>1. g[i] \in Taken(M, T) /\ g[k] \in Taken(M, T)
      BY DEF Follows
    <3> QED
      BY <3>1 DEF Taken
  <2>3. (i < k => g[i] < g[k]) /\ (k < i => g[k] < g[i])
    BY DEF Follows
  <2> QED
    BY <1>2, <2>1, <2>2, <2>3
<1>3. g \in [Taken(L, S) -> Taken(M, T)]
      /\ \A p \in Taken(M, T) : \E i \in Taken(L, S) : g[i] = p
  BY DEF Follows
<1>4. g \in Bijection(Taken(L, S), Taken(M, T))
  BY <1>2, <1>3 DEF Bijection, Injection, Surjection, IsInjective
<1>5. ExistsBijection(Taken(L, S), Taken(M, T))
  BY <1>4 DEF ExistsBijection
<1> QED
  BY <1>1, <1>5, FS_Bijection

\* What follows the elements of a window, and leaves the slots around it alone,
\* follows the elements of every part of the list around that window.
LEMMA SpreadsKeeps ==
  ASSUME NEW L, NEW M, M.N = L.N, NEW W, NEW S, S \subseteq Int, W \subseteq S,
         S \subseteq Slots(L), NEW lo, NEW hi, lo \in Int, hi \in Int, W = lo .. hi, NEW to,
         Spreads(L, M, W, to)
  PROVE  \E g : Follows(L, M, S, S, g)
<1> DEFINE g == [i \in Taken(L, S) |-> IF i \in W THEN to[i] ELSE i]
<1>1. ASSUME NEW i \in Taken(L, W) PROVE to[i] \in W /\ M.items[to[i]] = L.items[i]
  BY DEF Spreads
<1>2. ASSUME NEW i \in Taken(L, S), i \in W PROVE i \in Taken(L, W) /\ g[i] = to[i]
  BY <1>2 DEF Taken
<1>3. ASSUME NEW i \in Taken(L, S), i \notin W PROVE i \in S \ W /\ g[i] = i /\ M.items[i] = L.items[i]
  <2>1. i \in Slots(L) \ W /\ i \in S /\ g[i] = i
    BY <1>3 DEF Taken
  <2> QED
    BY <2>1 DEF Spreads
<1>4. ASSUME NEW i \in Taken(L, S) PROVE g[i] \in S /\ M.items[g[i]] = L.items[i]
  <2>1. CASE i \in W
    BY <1>1, <1>2, <2>1
  <2>2. CASE i \notin W
    BY <1>3, <2>2
  <2> QED
    BY <2>1, <2>2
<1>5. ASSUME NEW i \in Taken(L, S) PROVE g[i] \in Taken(M, S)
  BY <1>4 DEF Taken
<1>6. ASSUME NEW i \in Taken(L, S), NEW k \in Taken(L, S), i < k PROVE g[i] < g[k]
  <2>1. i \in Int /\ k \in Int
    BY DEF Taken
  <2>2. CASE i \in W /\ k \in W
    <3>1. to[i] < to[k]
      BY <1>2, <1>6, <2>2 DEF Spreads
    <3> QED
      BY <1>2, <2>2, <3>1
  <2>3. CASE i \in W /\ k \notin W
    <3>1. g[i] \in W /\ g[k] = k
      BY <1>1, <1>2, <1>3, <2>3
    <3> HIDE DEF g
    <3> QED
      BY <1>6, <2>1, <2>3, <3>1
  <2>4. CASE i \notin W /\ k \in W
    <3>1. g[i] = i /\ g[k] \in W
      BY <1>1, <1>2, <1>3, <2>4
    <3> HIDE DEF g
    <3> QED
      BY <1>6, <2>1, <2>4, <3>1
  <2>5. CASE i \notin W /\ k \notin W
    BY <1>3, <1>6, <2>5
  <2> QED
    BY <2>2, <2>3, <2>4, <2>5
<1>7. ASSUME NEW p \in Taken(M, S) PROVE \E i \in Taken(L, S) : g[i] = p
  <2>1. p \in S /\ ~IsNull(M.items[p])
    BY DEF Taken
  <2>2. CASE p \in W
    <3>2. PICK i \in Taken(L, W) : to[i] = p
      BY <2>1, <2>2 DEF Spreads
    <3>3. i \in Taken(L, S) /\ i \in W
      BY DEF Taken
    <3> QED
      BY <1>2, <3>2, <3>3
  <2>3. CASE p \notin W
    <3>1. M.items[p] = L.items[p]
      BY <2>1, <2>3 DEF Spreads
    <3>2. p \in Taken(L, S)
      BY <2>1, <3>1 DEF Taken
    <3> QED
      BY <1>3, <2>3, <3>2
  <2> QED
    BY <2>2, <2>3
<1>8. g \in [Taken(L, S) -> Taken(M, S)]
  BY <1>5
<1> HIDE DEF g
<1>9. Follows(L, M, S, S, g)
  BY <1>4, <1>6, <1>7, <1>8 DEF Follows
<1> QED
  BY <1>9

\* Two steps that keep the elements.
LEMMA FollowsTwice ==
  ASSUME NEW L, NEW M, NEW P, NEW S, NEW T, NEW U, NEW f, NEW g,
         Follows(L, M, S, T, f), Follows(M, P, T, U, g)
  PROVE  \E h : Follows(L, P, S, U, h)
<1> DEFINE h == [i \in Taken(L, S) |-> g[f[i]]]
<1>1. ASSUME NEW i \in Taken(L, S)
      PROVE  /\ f[i] \in Taken(M, T) /\ h[i] \in Taken(P, U)
             /\ P.items[h[i]] = L.items[i]
  BY DEF Follows
<1>2. ASSUME NEW i \in Taken(L, S), NEW k \in Taken(L, S), i < k PROVE h[i] < h[k]
  <2>1. f[i] < f[k]
    BY <1>2 DEF Follows
  <2> QED
    BY <1>1, <2>1 DEF Follows
<1>3. ASSUME NEW p \in Taken(P, U) PROVE \E i \in Taken(L, S) : h[i] = p
  <2>1. PICK k \in Taken(M, T) : g[k] = p
    BY DEF Follows
  <2>2. PICK i \in Taken(L, S) : f[i] = k
    BY DEF Follows
  <2> QED
    BY <2>1, <2>2
<1>4. h \in [Taken(L, S) -> Taken(P, U)]
  BY <1>1
<1> HIDE DEF h
<1>5. Follows(L, P, S, U, h)
  BY <1>1, <1>2, <1>3, <1>4 DEF Follows
<1> QED
  BY <1>5

----------------------------------------------------------------------------
(* What the operations keep.                                               *)

\* The slots of a list are finitely many numbers.
LEMMA SlotsFound ==
  ASSUME NEW L, IsList(L)
  PROVE  /\ L.N \in Nat \ {0} /\ Slots(L) \subseteq Nat
         /\ IsFiniteSet(Slots(L)) /\ Cardinality(Slots(L)) = L.N
<1>1. L.N \in Nat \ {0}
  BY PowersPositive DEF IsList
<1>2. IsFiniteSet(0 .. L.N - 1) /\ Cardinality(0 .. L.N - 1) = L.N
  <2>1. 0 \in Int /\ L.N - 1 \in Int /\ ~(0 > L.N - 1) /\ (L.N - 1) - 0 + 1 = L.N
    BY <1>1
  <2> QED
    BY <2>1, FS_Interval
<1> QED
  BY <1>1, <1>2 DEF Slots

\* redistribute keeps the elements of every part of the list around its window.
LEMMA RedistributeFollows ==
  ASSUME NEW L, IsList(L), NEW index \in Nat, NEW len \in Nat \ {0}, NEW S,
         Window(index, len) \subseteq S, S \subseteq Slots(L)
  PROVE  \E g : Follows(L, Redistribute(L, index, len), S, S, g)
<1>1. PICK to : Spreads(L, Redistribute(L, index, len), Window(index, len), to)
  BY RedistributeSpreads
<1>2. Redistribute(L, index, len).N = L.N
  BY RedistributeShape DEF Reshaped
<1>3. S \subseteq Int
  BY SlotsFound
<1>4. Window(index, len) = index .. index + len - 1 /\ index \in Int /\ index + len - 1 \in Int
  BY DEF Window
<1> QED
  BY <1>1, <1>2, <1>3, <1>4, SpreadsKeeps

\* redistribute keeps the elements of the list and their order.
THEOREM RedistributeKeeps ==
  ASSUME NEW L, IsList(L), NEW index \in Nat, NEW len \in Nat \ {0},
         Window(index, len) \subseteq Slots(L)
  PROVE  Keeps(L, Redistribute(L, index, len))
<1>1. PICK g : Follows(L, Redistribute(L, index, len), Slots(L), Slots(L), g)
  BY RedistributeFollows
<1>2. Slots(Redistribute(L, index, len)) = Slots(L)
  BY RedistributeShape DEF Reshaped, Slots
<1> QED
  BY <1>1, <1>2 DEF Keeps

\* double_list keeps them.
THEOREM DoubleKeeps ==
  ASSUME NEW L, IsList(L)
  PROVE  Keeps(L, DoubleList(L))
<1> DEFINE items == [p \in 0 .. 2 * L.N - 1 |-> IF p < L.N THEN L.items[p] ELSE Null]
           M == [N |-> 2 * L.N, items |-> items, nodes |-> L.nodes]
           f == [i \in Taken(L, Slots(L)) |-> i]
<1>1. L.N \in Nat \ {0} /\ 2 * L.N \in PowersOfTwo
  BY PowersPositive DEF IsList
<1>2. IsList(M) /\ M.N = 2 * L.N
  BY <1>1 DEF IsList, Slots, Vertices
<1>3. \A p \in Slots(M) : M.items[p] = IF p < L.N THEN L.items[p] ELSE Null
  BY DEF Slots
<1>4. DoubleList(L) = Redistribute(M, 0, 2 * L.N)
  BY DEF DoubleList
<1> HIDE DEF M
<1>5. Taken(M, Slots(M)) = Taken(L, Slots(L))
  <2>1. ASSUME NEW p \in Taken(L, Slots(L)) PROVE p \in Taken(M, Slots(M))
    <3>1. p \in Slots(L) /\ ~IsNull(L.items[p])
      BY DEF Taken
    <3>2. p \in Slots(M) /\ M.items[p] = L.items[p]
      BY <1>1, <1>2, <1>3, <3>1 DEF Slots
    <3> QED
      BY <3>1, <3>2 DEF Taken
  <2>2. ASSUME NEW p \in Taken(M, Slots(M)) PROVE p \in Taken(L, Slots(L))
    <3>1. p \in Slots(M) /\ ~IsNull(M.items[p])
      BY DEF Taken
    <3>2. p < L.N /\ M.items[p] = L.items[p]
      BY <1>3, <3>1 DEF IsNull, Null
    <3> QED
      BY <1>1, <1>2, <3>1, <3>2 DEF Taken, Slots
  <2> QED
    BY <2>1, <2>2
<1>6. ASSUME NEW i \in Taken(L, Slots(L)) PROVE f[i] = i /\ M.items[i] = L.items[i]
  <2>1. i \in Slots(M) /\ i < L.N
    BY <1>1, <1>2 DEF Taken, Slots
  <2> QED
    BY <1>3, <2>1
<1>7. f \in [Taken(L, Slots(L)) -> Taken(M, Slots(M))]
  BY <1>5
<1> HIDE DEF f
<1>8. Follows(L, M, Slots(L), Slots(M), f)
  BY <1>5, <1>6, <1>7 DEF Follows
<1>9. Window(0, 2 * L.N) = Slots(M) /\ 2 * L.N \in Nat \ {0}
  BY <1>1, <1>2 DEF Window, Slots
<1>10. PICK g : Follows(M, DoubleList(L), Slots(M), Slots(M), g)
  BY <1>2, <1>4, <1>9, RedistributeFollows
<1>11. Slots(DoubleList(L)) = Slots(M)
  BY <1>2, DoubleShape DEF Reshaped, Slots
<1> QED
  BY <1>8, <1>10, <1>11, FollowsTwice DEF Keeps

\* The ranks of the elements of a finite set are the numbers below its size.
LEMMA RanksAll ==
  ASSUME NEW S, S \subseteq Int, IsFiniteSet(S), NEW k \in 0 .. Cardinality(S) - 1
  PROVE  \E i \in S : Rank(S, i) = k
<1> DEFINE n == Cardinality(S)
           f == [i \in S |-> Rank(S, i)]
<1>1. /\ n \in Nat
      /\ \A i \in S : Rank(S, i) \in 0 .. n - 1
      /\ \A i, o \in S : i < o => Rank(S, i) < Rank(S, o)
  BY RankFound
<1>2. f \in [S -> 0 .. n - 1]
  BY <1>1
<1>3. ASSUME NEW i \in S, NEW o \in S, f[i] = f[o] PROVE i = o
  <2>1. i \in Int /\ o \in Int /\ Rank(S, i) \in Int /\ Rank(S, i) = Rank(S, o)
    BY <1>1, <1>3
  <2> QED
    BY <1>1, <2>1
<1>4. IsFiniteSet(0 .. n - 1) /\ Cardinality(0 .. n - 1) = n
  <2> HIDE DEF n
  <2> QED
    BY <1>1, FS_Interval
<1>5. f \in Injection(S, 0 .. n - 1)
  <2> HIDE DEF n
  <2>1. DOMAIN f = S
    OBVIOUS
  <2> HIDE DEF f
  <2> QED
    BY <1>2, <1>3, <2>1 DEF Injection, IsInjective
<1>6. f \in Surjection(S, 0 .. n - 1)
  <2> HIDE DEF f
  <2> QED
    BY <1>4, <1>5, FS_Injection
<1>7. \E i \in S : f[i] = k
  BY <1>6 DEF Surjection
<1> QED
  BY <1>7

\* half_list keeps them where they fit into the half.
THEOREM HalfKeeps ==
  ASSUME NEW L, IsList(L), Height(L.N) > 0,
         2 * Cardinality(Elements(L)) <= L.N
  PROVE  Keeps(L, HalfList(L))
<1> DEFINE N == L.N \div 2
           occ == Occupied(L, 0, L.N)
           items == [p \in 0 .. N - 1 |->
                       IF p < Cardinality(occ)
                       THEN L.items[CHOOSE i \in occ : Rank(occ, i) = p]
                       ELSE Null]
           M == [N |-> N, items |-> items, nodes |-> L.nodes]
           f == [i \in Taken(L, Slots(L)) |-> Rank(occ, i)]
<1>1. L.N \in Nat \ {0} /\ N \in PowersOfTwo /\ N \in Nat \ {0}
  BY SlotsFound, HalfShape, PowersPositive
<1>2. IsList(M) /\ M.N = N
  BY <1>1 DEF IsList, Slots, Vertices
<1>3. occ = Taken(L, Slots(L)) /\ occ \subseteq Int /\ IsFiniteSet(occ)
  <2>1. occ = Taken(L, Slots(L))
    BY <1>1 DEF Occupied, Taken, Window, Slots
  <2>2. Taken(L, Slots(L)) \subseteq Slots(L)
    BY DEF Taken
  <2> QED
    BY <2>1, <2>2, SlotsFound, FS_Subset
<1>4. Cardinality(occ) \in Nat /\ Cardinality(occ) <= N
  <2>1. Cardinality(occ) \in Nat
    <3> HIDE DEF occ
    <3> QED
      BY <1>3, FS_CardinalityType
  <2>2. 2 * Cardinality(occ) <= L.N
    BY DEF Elements
  <2>3. \A a, b \in Nat : 2 * a <= b => a <= b \div 2
    OBVIOUS
  <2> QED
    BY <1>1, <2>1, <2>2, <2>3
<1>5. /\ \A i \in occ : Rank(occ, i) \in 0 .. Cardinality(occ) - 1
      /\ \A i, k \in occ : i < k => Rank(occ, i) < Rank(occ, k)
  <2> HIDE DEF occ
  <2> QED
    BY <1>3, RankFound
<1>6. ASSUME NEW k \in 0 .. Cardinality(occ) - 1 PROVE \E i \in occ : Rank(occ, i) = k
  <2> HIDE DEF occ
  <2> QED
    BY <1>3, RanksAll
<1>7. HalfList(L) = Redistribute(M, 0, N)
  BY DEF HalfList
<1>8. \A p \in Slots(M) : M.items[p] = IF p < Cardinality(occ)
                                      THEN L.items[CHOOSE i \in occ : Rank(occ, i) = p]
                                      ELSE Null
  BY DEF Slots
<1>9. Slots(M) = 0 .. N - 1
  BY DEF Slots
<1>10. f = [i \in occ |-> Rank(occ, i)]
  BY <1>3
<1> HIDE DEF M, occ, N, f
<1>11. ASSUME NEW i \in occ
       PROVE  f[i] \in Slots(M) /\ f[i] < Cardinality(occ) /\ M.items[f[i]] = L.items[i]
  <2>1. f[i] = Rank(occ, i) /\ f[i] \in 0 .. Cardinality(occ) - 1
    BY <1>5, <1>10
  <2>2. f[i] \in Slots(M) /\ f[i] < Cardinality(occ)
    BY <1>1, <1>4, <1>9, <2>1
  <2>3. ASSUME NEW o \in occ, Rank(occ, o) = Rank(occ, i) PROVE o = i
    <3>1. o \in Int /\ i \in Int /\ Rank(occ, i) \in Int
      BY <1>3, <1>5, <1>4
    <3> QED
      BY <1>5, <2>3, <3>1
  <2>4. (CHOOSE o \in occ : Rank(occ, o) = f[i]) = i
    BY <2>1, <2>3, Zenon
  <2> QED
    BY <1>8, <2>2, <2>4
<1>12. ASSUME NEW i \in occ PROVE f[i] \in Taken(M, Slots(M))
  <2>1. ~IsNull(L.items[i])
    BY <1>3 DEF Taken
  <2> QED
    BY <1>11, <2>1 DEF Taken
<1>13. ASSUME NEW i \in occ, NEW k \in occ, i < k PROVE f[i] < f[k]
  BY <1>5, <1>10, <1>13
<1>14. ASSUME NEW p \in Taken(M, Slots(M)) PROVE \E i \in occ : f[i] = p
  <2>1. p \in Slots(M) /\ ~IsNull(M.items[p])
    BY DEF Taken
  <2>2. p < Cardinality(occ)
    BY <1>8, <2>1 DEF IsNull, Null
  <2>3. p \in 0 .. Cardinality(occ) - 1
    BY <1>1, <1>4, <1>9, <2>1, <2>2
  <2> QED
    BY <1>6, <1>10, <2>3
<1>15. f \in [occ -> Taken(M, Slots(M))]
  BY <1>10, <1>12
<1>16. Follows(L, M, Slots(L), Slots(M), f)
  BY <1>3, <1>11, <1>13, <1>14, <1>15 DEF Follows
<1>17. Window(0, N) = Slots(M)
  BY <1>1, <1>9 DEF Window
<1>18. PICK g : Follows(M, HalfList(L), Slots(M), Slots(M), g)
  BY <1>1, <1>2, <1>7, <1>17, RedistributeFollows
<1>19. Slots(HalfList(L)) = Slots(M)
  <2>1. HalfList(L).N = N
    BY HalfShape DEF Reshaped, N
  <2> QED
    BY <1>9, <2>1 DEF Slots
<1> QED
  BY <1>16, <1>18, <1>19, FollowsTwice DEF Keeps

\* slide_right moves the elements from i on one slot right, into the null at e.
LEMMA ShiftRightSpreads ==
  ASSUME NEW L, IsList(L), NEW i \in Nat, NEW e \in Nat, i < e, e < L.N, IsNull(L.items[e])
  PROVE  Spreads(L, ShiftRight(L, i, e), i .. e, [p \in Taken(L, i .. e) |-> p + 1])
<1> DEFINE W == i .. e
           to == [p \in Taken(L, W) |-> p + 1]
           items == [p \in Slots(L) |-> IF p = i THEN Null
                                        ELSE IF p \in i + 1 .. e
                                             THEN L.items[p - 1] ELSE L.items[p]]
           nodes == FixSentinels(L.nodes, SentinelsAt(items, i + 1 .. e), L.N)
           M == ShiftRight(L, i, e)
<1>1. M.items = items
  <2>1. M = [L EXCEPT !.items = items, !.nodes = nodes]
    BY DEF ShiftRight
  <2>2. M = [N |-> L.N, items |-> items, nodes |-> nodes]
    <3> HIDE DEF items, nodes, M
    <3> QED
      BY <2>1, Updated, ZenonT(60)
  <2> HIDE DEF items, nodes, M
  <2> QED
    BY <2>2
<1>2. L.N \in Nat /\ W \subseteq Slots(L)
  BY SlotsFound DEF Slots
<1>3. ASSUME NEW p \in Taken(L, W)
      PROVE  p \in Nat /\ to[p] = p + 1 /\ p + 1 \in i + 1 .. e /\ p + 1 \in W
  <2>1. p \in i .. e /\ ~IsNull(L.items[p])
    BY DEF Taken
  <2>2. p # e
    BY <2>1
  <2> QED
    BY <2>1, <2>2
<1>4. ASSUME NEW p \in Taken(L, W) PROVE items[p + 1] = L.items[p]
  <2>1. p + 1 \in Slots(L) /\ p + 1 # i /\ (p + 1) - 1 = p
    BY <1>2, <1>3
  <2> QED
    BY <1>3, <2>1
<1>5. ASSUME NEW p \in W, \A q \in Taken(L, W) : to[q] # p PROVE IsNull(items[p])
  <2>1. CASE p = i
    BY <1>2, <2>1 DEF IsNull, Null
  <2>2. CASE p # i
    <3>1. p - 1 \in W /\ p \in i + 1 .. e /\ (p - 1) + 1 = p
      BY <2>2
    <3>2. p - 1 \notin Taken(L, W)
      BY <1>3, <1>5, <3>1
    <3>3. IsNull(L.items[p - 1])
      BY <3>1, <3>2 DEF Taken
    <3> QED
      BY <1>2, <2>2, <3>1, <3>3
  <2> QED
    BY <2>1, <2>2
<1>6. ASSUME NEW p \in Slots(L) \ W PROVE items[p] = L.items[p]
  BY <1>2
<1>7. to \in [Taken(L, W) -> W]
  BY <1>3
<1> HIDE DEF items, to, M, W
<1>8. \A p, q \in Taken(L, W) : p < q => to[p] < to[q]
  BY <1>3
<1>9. Spreads(L, M, W, to)
  BY <1>1, <1>3, <1>4, <1>5, <1>6, <1>7, <1>8 DEF Spreads
<1> QED
  BY <1>9 DEF M, W, to

\* slide_left moves the elements up to i one slot left, into the null at e.
LEMMA ShiftLeftSpreads ==
  ASSUME NEW L, IsList(L), NEW i \in Nat, NEW e \in Nat, e < i, i < L.N, IsNull(L.items[e])
  PROVE  Spreads(L, ShiftLeft(L, i, e), e .. i, [p \in Taken(L, e .. i) |-> p - 1])
<1> DEFINE W == e .. i
           to == [p \in Taken(L, W) |-> p - 1]
           items == [p \in Slots(L) |-> IF p = i THEN Null
                                        ELSE IF p \in e .. i - 1
                                             THEN L.items[p + 1] ELSE L.items[p]]
           nodes == FixSentinels(L.nodes, SentinelsAt(items, e .. i - 1), L.N)
           M == ShiftLeft(L, i, e)
<1>1. M.items = items
  <2>1. M = [L EXCEPT !.items = items, !.nodes = nodes]
    BY DEF ShiftLeft
  <2>2. M = [N |-> L.N, items |-> items, nodes |-> nodes]
    <3> HIDE DEF items, nodes, M
    <3> QED
      BY <2>1, Updated, ZenonT(60)
  <2> HIDE DEF items, nodes, M
  <2> QED
    BY <2>2
<1>2. L.N \in Nat /\ W \subseteq Slots(L)
  BY SlotsFound DEF Slots
<1>3. ASSUME NEW p \in Taken(L, W)
      PROVE  p \in Nat /\ to[p] = p - 1 /\ p - 1 \in e .. i - 1 /\ p - 1 \in W
  <2>1. p \in e .. i /\ ~IsNull(L.items[p])
    BY DEF Taken
  <2>2. p # e
    BY <2>1
  <2> QED
    BY <2>1, <2>2
<1>4. ASSUME NEW p \in Taken(L, W) PROVE items[p - 1] = L.items[p]
  <2>1. p - 1 \in Slots(L) /\ p - 1 # i /\ (p - 1) + 1 = p
    BY <1>2, <1>3
  <2> QED
    BY <1>3, <2>1
<1>5. ASSUME NEW p \in W, \A q \in Taken(L, W) : to[q] # p PROVE IsNull(items[p])
  <2>1. CASE p = i
    BY <1>2, <2>1 DEF IsNull, Null
  <2>2. CASE p # i
    <3>1. p + 1 \in W /\ p \in e .. i - 1 /\ (p + 1) - 1 = p
      BY <2>2
    <3>2. p + 1 \notin Taken(L, W)
      BY <1>3, <1>5, <3>1
    <3>3. IsNull(L.items[p + 1])
      BY <3>1, <3>2 DEF Taken
    <3> QED
      BY <1>2, <2>2, <3>1, <3>3
  <2> QED
    BY <2>1, <2>2
<1>6. ASSUME NEW p \in Slots(L) \ W PROVE items[p] = L.items[p]
  BY <1>2
<1>7. to \in [Taken(L, W) -> W]
  BY <1>3
<1> HIDE DEF items, to, M, W
<1>8. \A p, q \in Taken(L, W) : p < q => to[p] < to[q]
  BY <1>3
<1>9. Spreads(L, M, W, to)
  BY <1>1, <1>3, <1>4, <1>5, <1>6, <1>7, <1>8 DEF Spreads
<1> QED
  BY <1>9 DEF M, W, to

\* Both slides into a null keep the elements of the list and their order.
THEOREM SlidesKeep ==
  ASSUME NEW L, IsList(L), NEW i \in Slots(L), NEW e \in Slots(L), IsNull(L.items[e])
  PROVE  /\ i < e => Keeps(L, ShiftRight(L, i, e))
         /\ e < i => Keeps(L, ShiftLeft(L, i, e))
<1>1. L.N \in Nat /\ i \in Nat /\ e \in Nat /\ i < L.N /\ e < L.N /\ Slots(L) \subseteq Int
  BY SlotsFound DEF Slots
<1>2. ASSUME i < e PROVE Keeps(L, ShiftRight(L, i, e))
  <2>1. PICK W, to : W = i .. e /\ to = [p \in Taken(L, i .. e) |-> p + 1]
    OBVIOUS
  <2>2. Spreads(L, ShiftRight(L, i, e), W, to)
    BY <1>1, <1>2, <2>1, ShiftRightSpreads
  <2>3. ShiftRight(L, i, e).N = L.N /\ Slots(ShiftRight(L, i, e)) = Slots(L)
    BY <1>1, ShiftRightShape DEF Reshaped, Slots
  <2>4. W \subseteq Slots(L)
    BY <1>1, <2>1 DEF Slots
  <2>5. \E g : Follows(L, ShiftRight(L, i, e), Slots(L), Slots(L), g)
    BY <1>1, <2>1, <2>2, <2>3, <2>4, SpreadsKeeps
  <2> QED
    BY <2>3, <2>5 DEF Keeps
<1>3. ASSUME e < i PROVE Keeps(L, ShiftLeft(L, i, e))
  <2>1. PICK W, to : W = e .. i /\ to = [p \in Taken(L, e .. i) |-> p - 1]
    OBVIOUS
  <2>2. Spreads(L, ShiftLeft(L, i, e), W, to)
    BY <1>1, <1>3, <2>1, ShiftLeftSpreads
  <2>3. ShiftLeft(L, i, e).N = L.N /\ Slots(ShiftLeft(L, i, e)) = Slots(L)
    BY <1>1, ShiftLeftShape DEF Reshaped, Slots
  <2>4. W \subseteq Slots(L)
    BY <1>1, <2>1 DEF Slots
  <2>5. \E g : Follows(L, ShiftLeft(L, i, e), Slots(L), Slots(L), g)
    BY <1>1, <2>1, <2>2, <2>3, <2>4, SpreadsKeeps
  <2> QED
    BY <2>3, <2>5 DEF Keeps
<1> QED
  BY <1>2, <1>3

\* A list with the same elements in the same order stores the same edges, and is
\* sorted and in blocks where the other is.
THEOREM KeepsOrder ==
  ASSUME NEW L, IsList(L), NEW M, IsList(M), Keeps(L, M)
  PROVE  /\ EdgesOf(M) = EdgesOf(L)
         /\ Ascending(L) => Ascending(M)
         /\ InBlocks(L) => InBlocks(M)
<1>1. PICK g : Follows(L, M, Slots(L), Slots(M), g)
  BY DEF Keeps
<1>2. /\ Elements(L) = Taken(L, Slots(L)) /\ Elements(M) = Taken(M, Slots(M))
      /\ Elements(L) \subseteq Int /\ Elements(M) \subseteq Int
  <2>1. L.N \in Nat /\ M.N \in Nat
    BY SlotsFound
  <2> QED
    BY <2>1 DEF Elements, Occupied, Taken, Window, Slots
<1>3. ASSUME NEW p \in Elements(M)
      PROVE  \E i \in Elements(L) : g[i] = p /\ M.items[p] = L.items[i]
  BY <1>1, <1>2 DEF Follows
<1>4. ASSUME NEW i \in Elements(L) PROVE g[i] \in Elements(M) /\ M.items[g[i]] = L.items[i]
  BY <1>1, <1>2 DEF Follows
<1>5. ASSUME NEW i \in Elements(L), NEW k \in Elements(L), g[i] < g[k] PROVE i < k
  <2>1. i \in Int /\ k \in Int /\ g[i] \in Int /\ g[k] \in Int
    BY <1>2, <1>4
  <2>2. k < i => g[k] < g[i]
    BY <1>1, <1>2 DEF Follows
  <2> QED
    BY <1>5, <2>1, <2>2
<1>6. EdgesOf(M) = EdgesOf(L)
  <2>1. ASSUME NEW p \in Slots(M), IsEdge(M.items[p])
        PROVE  \E i \in Slots(L) : IsEdge(L.items[i]) /\ M.items[p] = L.items[i]
    <3>1. p \in Elements(M)
      BY <1>2, <2>1 DEF IsEdge, Taken
    <3>2. PICK i \in Elements(L) : M.items[p] = L.items[i]
      BY <1>3, <3>1
    <3> QED
      BY <1>2, <2>1, <3>2 DEF Taken
  <2>2. ASSUME NEW i \in Slots(L), IsEdge(L.items[i])
        PROVE  \E p \in Slots(M) : IsEdge(M.items[p]) /\ M.items[p] = L.items[i]
    <3>1. i \in Elements(L)
      BY <1>2, <2>2 DEF IsEdge, Taken
    <3>2. g[i] \in Elements(M) /\ M.items[g[i]] = L.items[i]
      BY <1>4, <3>1
    <3> QED
      BY <1>2, <2>2, <3>2 DEF Taken
  <2> QED
    BY <2>1, <2>2 DEF EdgesOf
<1>7. ASSUME Ascending(L) PROVE Ascending(M)
  <2> SUFFICES ASSUME NEW p \in Elements(M), NEW q \in Elements(M),
                      p < q, IsEdge(M.items[p]), IsEdge(M.items[q]),
                      M.items[p].src = M.items[q].src
               PROVE  M.items[p].dest < M.items[q].dest
    BY DEF Ascending
  <2>1. PICK i \in Elements(L) : g[i] = p /\ M.items[p] = L.items[i]
    BY <1>3
  <2>2. PICK k \in Elements(L) : g[k] = q /\ M.items[q] = L.items[k]
    BY <1>3
  <2>3. i < k
    BY <1>5, <2>1, <2>2
  <2> QED
    BY <1>7, <2>1, <2>2, <2>3 DEF Ascending
<1>8. ASSUME InBlocks(L) PROVE InBlocks(M)
  <2> DEFINE Owner(e) == IF IsSentinel(e) THEN VertexOf(e) ELSE e.src
  <2> SUFFICES ASSUME NEW p \in Elements(M), NEW q \in Elements(M), p < q
               PROVE  \/ Owner(M.items[p]) < Owner(M.items[q])
                      \/ Owner(M.items[p]) = Owner(M.items[q]) /\ IsEdge(M.items[q])
    BY DEF InBlocks
  <2>1. PICK i \in Elements(L) : g[i] = p /\ M.items[p] = L.items[i]
    BY <1>3
  <2>2. PICK k \in Elements(L) : g[k] = q /\ M.items[q] = L.items[k]
    BY <1>3
  <2>3. i < k
    BY <1>5, <2>1, <2>2
  <2>4. \/ Owner(L.items[i]) < Owner(L.items[k])
        \/ Owner(L.items[i]) = Owner(L.items[k]) /\ IsEdge(L.items[k])
    BY <1>8, <2>3 DEF InBlocks
  <2> QED
    BY <2>1, <2>2, <2>4
<1> QED
  BY <1>6, <1>7, <1>8

----------------------------------------------------------------------------
(* Windows.                                                                *)

\* find_node: the node of index among those of length a lies inside the one among
\* those of length a * c, and both lie inside an array of a * c * d slots.
LEMMA NodesNest ==
  ASSUME NEW index \in Nat, NEW a \in Nat \ {0}, NEW c \in Nat \ {0}
  PROVE  /\ FindNode(index, a * c) <= FindNode(index, a)
         /\ FindNode(index, a) + a <= FindNode(index, a * c) + a * c
         /\ FindNode(FindNode(index, a), a * c) = FindNode(index, a * c)
<1>1. PICK b \in Nat \ {0} : b = a * c
  <2>1. \A x, y \in Nat \ {0} : x * y \in Nat \ {0}
    OBVIOUS
  <2> QED
    BY <2>1
<1>2. PICK p \in Nat : p = index \div b /\ p * b <= index /\ index < p * b + b
  BY <1>1, Division
<1>3. PICK q \in Nat : q = index \div a /\ q * a <= index /\ index < q * a + a
  BY Division
<1>4. (p * c) * a = p * b /\ (p * c + c) * a = p * b + b /\ p * c \in Nat /\ p * c + c \in Nat
  <2>1. \A x, y, z \in Nat : (x * y) * z = x * (z * y) /\ (x * y + y) * z = x * (z * y) + z * y
    OBVIOUS
  <2>2. p * c \in Nat /\ p * c + c \in Nat
    BY <1>2
  <2> QED
    BY <1>1, <2>1, <2>2
<1>5. p * c <= q
  BY <1>2, <1>3, <1>4, Division, ZenonT(30)
<1>6. q < p * c + c
  <2>1. PICK m \in Nat : m = p * c + c
    BY <1>4
  <2>2. index < m * a
    BY <1>2, <1>4, <2>1
  <2>3. q < m
    BY <1>3, <2>2, Division
  <2> QED
    BY <2>1, <2>3
<1>7. \A x, y, z \in Nat : x < y => x * z + z <= y * z
  <2> SUFFICES ASSUME NEW x \in Nat, NEW y \in Nat, NEW z \in Nat, x < y
               PROVE  x * z + z <= y * z
    OBVIOUS
  <2>1. PICK d \in Nat : y = x + 1 + d
    <3>1. y - x - 1 \in Nat /\ y = x + 1 + (y - x - 1)
      OBVIOUS
    <3> QED
      BY <3>1
  <2>2. y * z = x * z + z + d * z /\ d * z \in Nat /\ x * z \in Nat
    BY <2>1
  <2> QED
    BY <2>2
<1>8. p * b <= q * a /\ q * a + a <= p * b + b
  <2>1. q * a + a <= (p * c + c) * a
    BY <1>4, <1>6, <1>7
  <2>2. (p * c) * a <= q * a
    <3>1. CASE p * c = q
      BY <1>4, <3>1
    <3>2. CASE p * c < q
      <4>1. (p * c) * a + a <= q * a
        BY <1>4, <1>7, <3>2
      <4> QED
        BY <1>2, <1>3, <1>4, <4>1
    <3> QED
      BY <1>4, <1>5, <3>1, <3>2
  <2> QED
    BY <1>4, <2>1, <2>2
<1>9. (q * a) \div b = p
  <2>1. q * a \in Nat /\ p * b <= q * a /\ q * a < p * b + b
    BY <1>2, <1>3, <1>8
  <2> QED
    BY <1>1, <2>1, Division
<1>10. FindNode(index, a) = q * a /\ FindNode(index, b) = p * b /\ FindNode(q * a, b) = p * b
  BY <1>2, <1>3, <1>9 DEF FindNode
<1> QED
  BY <1>1, <1>8, <1>10

\* The node of a slot of an array of a * c slots lies inside the array.
LEMMA NodeInside ==
  ASSUME NEW a \in Nat \ {0}, NEW c \in Nat \ {0}, NEW index \in Nat, index < a * c
  PROVE  FindNode(index, a) + a <= a * c
<1>1. PICK b \in Nat \ {0} : b = a * c
  <2>1. \A x, y \in Nat \ {0} : x * y \in Nat \ {0}
    OBVIOUS
  <2> QED
    BY <2>1
<1>2. index \div b = 0
  <2>1. 0 * b <= index /\ index < 0 * b + b
    BY <1>1
  <2> QED
    BY <1>1, <2>1, Division
<1>3. FindNode(index, b) = 0
  BY <1>1, <1>2 DEF FindNode
<1>4. FindNode(index, a) + a <= FindNode(index, b) + b
  BY <1>1, NodesNest
<1> QED
  BY <1>1, <1>3, <1>4

\* The levels of the tree: a window of one level is so many of a lower level, and
\* the root is the whole array.
LEMMA Levels ==
  ASSUME NEW L, IsList(L), NEW j \in 0 .. Height(L.N), NEW k \in 0 .. j
  PROVE  /\ LenAt(L, k) \in Nat \ {0} /\ 2^(j - k) \in Nat \ {0}
         /\ LenAt(L, j) = LenAt(L, k) * 2^(j - k)
         /\ LenAt(L, 0) = LogN(L.N) /\ LenAt(L, Height(L.N)) = L.N
         /\ Height(L.N) \in Nat
<1>1. LogN(L.N) \in Nat \ {0} /\ Height(L.N) \in Nat /\ LogN(L.N) * 2^Height(L.N) = L.N
  BY LeafLength DEF IsList
<1>2. j \in Nat /\ k \in Nat /\ j - k \in Nat /\ k + (j - k) = j
  BY <1>1
<1>3. 2^j = 2^k * 2^(j - k)
  BY <1>2, PowerSum
<1>4. 2^k \in Nat \ {0} /\ 2^(j - k) \in Nat \ {0} /\ 2^j \in Nat \ {0} /\ 2^0 = 1
  BY <1>2, Powers
<1>5. PICK n, x, y, z \in Nat \ {0} : n = LogN(L.N) /\ x = 2^j /\ y = 2^k /\ z = 2^(j - k)
  BY <1>1, <1>4
<1>6. n * x = (n * y) * z /\ n * y \in Nat \ {0}
  <2>1. x = y * z
    BY <1>3, <1>5
  <2>2. \A u, v, w \in Nat \ {0} : u * (v * w) = (u * v) * w /\ u * v \in Nat \ {0}
    OBVIOUS
  <2> QED
    BY <2>1, <2>2
<1>7. LenAt(L, 0) = LogN(L.N)
  BY <1>1, <1>4 DEF LenAt
<1> QED
  BY <1>1, <1>4, <1>5, <1>6, <1>7 DEF LenAt

\* Every window of the tree that holds a slot lies inside the array, and inside the
\* windows of the levels above.
LEMMA LevelsNest ==
  ASSUME NEW L, IsList(L), NEW index \in Slots(L), NEW j \in 0 .. Height(L.N), NEW k \in 0 .. j
  PROVE  /\ index \in Window(StartAt(L, index, j), LenAt(L, j))
         /\ Window(StartAt(L, index, j), LenAt(L, j)) \subseteq Slots(L)
         /\ Window(StartAt(L, index, k), LenAt(L, k)) \subseteq Window(StartAt(L, index, j), LenAt(L, j))
         /\ StartAt(L, StartAt(L, index, k), j) = StartAt(L, index, j)
<1>1. L.N \in Nat \ {0} /\ index \in Nat /\ index < L.N
  BY SlotsFound DEF Slots
<1>2. PICK a, c, n \in Nat \ {0} : a = LenAt(L, k) /\ c = 2^(j - k) /\ n = LenAt(L, j) /\ n = a * c
  <2>1. LenAt(L, j) \in Nat \ {0}
    <3>1. j \in 0 .. j
      BY Levels
    <3> QED
      BY <3>1, Levels
  <2>2. /\ LenAt(L, k) \in Nat \ {0} /\ 2^(j - k) \in Nat \ {0}
        /\ LenAt(L, j) = LenAt(L, k) * 2^(j - k)
    BY Levels
  <2> QED
    BY <2>1, <2>2
<1>3. PICK d \in Nat \ {0} : L.N = n * d
  <2>1. Height(L.N) \in 0 .. Height(L.N) /\ j \in 0 .. Height(L.N)
    BY Levels
  <2>2. LenAt(L, Height(L.N)) = LenAt(L, j) * 2^(Height(L.N) - j)
        /\ 2^(Height(L.N) - j) \in Nat \ {0} /\ LenAt(L, Height(L.N)) = L.N
    BY <2>1, Levels
  <2> QED
    BY <1>2, <2>2
<1>4. /\ FindNode(index, n) <= FindNode(index, a)
      /\ FindNode(index, a) + a <= FindNode(index, n) + n
      /\ FindNode(FindNode(index, a), n) = FindNode(index, n)
  BY <1>1, <1>2, NodesNest
<1>5. FindNode(index, n) + n <= L.N
  BY <1>1, <1>2, <1>3, NodeInside
<1>6. /\ FindNode(index, n) \in Nat /\ FindNode(index, n) <= index /\ index < FindNode(index, n) + n
      /\ FindNode(index, a) \in Nat
  BY <1>1, <1>2, NodeFound
<1>7. /\ StartAt(L, index, j) = FindNode(index, n) /\ StartAt(L, index, k) = FindNode(index, a)
      /\ StartAt(L, StartAt(L, index, k), j) = FindNode(FindNode(index, a), n)
  BY <1>2 DEF StartAt
<1> QED
  BY <1>1, <1>2, <1>4, <1>5, <1>6, <1>7 DEF Window, Slots

----------------------------------------------------------------------------
(* What insert writes.                                                     *)

\* There is a null for insert to slide into, without doubling the list.
Slidable(L, i) ==
  \/ IsNull(L.items[i])
  \/ NextNull(L, i) < L.N
  \/ PrevNull(L, i - 1) >= 0

\* The slots that insert writes when it makes room at slot i.
Touched(L, i) ==
  IF IsNull(L.items[i]) THEN {i}
  ELSE IF NextNull(L, i) < L.N THEN i .. NextNull(L, i)
  ELSE PrevNull(L, i - 1) .. i - 1

\* Insert at slot i changes the items as follows.
LEMMA PutItems ==
  ASSUME NEW L, IsList(L), NEW i \in Slots(L), NEW elem, Slidable(L, i)
  PROVE  LET M == Put(L, i, elem)
             n == NextNull(L, i)
             e == PrevNull(L, i - 1)
         IN  /\ Reshaped(L, M, L.N)
             /\ IsNull(L.items[i]) =>
                  \A p \in Slots(L) : M.items[p] = IF p = i THEN elem ELSE L.items[p]
             /\ ~IsNull(L.items[i]) /\ n < L.N =>
                  \A p \in Slots(L) : M.items[p] = IF p = i THEN elem
                                                   ELSE IF p \in i + 1 .. n THEN L.items[p - 1]
                                                   ELSE L.items[p]
             /\ ~IsNull(L.items[i]) /\ ~(n < L.N) =>
                  /\ e \in 0 .. i - 2
                  /\ \A p \in Slots(L) : M.items[p] = IF p = i - 1 THEN elem
                                                      ELSE IF p \in e .. i - 2 THEN L.items[p + 1]
                                                      ELSE L.items[p]
<1> DEFINE M == Put(L, i, elem)
           n == NextNull(L, i)
           e == PrevNull(L, i - 1)
<1>1. i \in Nat /\ L.N \in Nat /\ i < L.N
  BY SlotsFound DEF Slots
<1>2. ASSUME NEW R, Reshaped(L, R, L.N), NEW at \in Slots(L), M = [R EXCEPT !.items[at] = elem]
      PROVE  /\ Reshaped(L, M, L.N)
             /\ \A p \in Slots(L) : M.items[p] = IF p = at THEN elem ELSE R.items[p]
  <2>1. IsList(R) /\ R.N = L.N /\ Slots(R) = Slots(L)
    BY <1>2 DEF Reshaped, Slots
  <2>2. Reshaped(R, M, R.N)
    BY <1>2, <2>1, WriteShape
  <2>3. Reshaped(L, M, L.N)
    BY <1>2, <2>1, <2>2, ReshapedTwice
  <2> DEFINE items == [R.items EXCEPT ![at] = elem]
  <2>4. M = [N |-> R.N, items |-> items, nodes |-> R.nodes]
    <3>1. M = [R EXCEPT !.items = items]
      BY <1>2
    <3> HIDE DEF items
    <3> QED
      BY <2>1, <3>1, Updated
  <2>5. DOMAIN R.items = Slots(L)
    BY <2>1 DEF IsList
  <2>6. M.items = items
    BY <2>4
  <2> QED
    BY <2>3, <2>5, <2>6
<1>3. CASE IsNull(L.items[i])
  <2>1. M = [L EXCEPT !.items[i] = elem]
    BY <1>3 DEF Put, MakeRoom
  <2>2. Reshaped(L, L, L.N)
    BY DEF Reshaped
  <2> HIDE DEF M
  <2> QED
    BY <1>2, <1>3, <2>1, <2>2 DEF M
<1>4. CASE ~IsNull(L.items[i]) /\ n < L.N
  <2>1. PICK R : R = ShiftRight(L, i, n)
    OBVIOUS
  <2>2. M = [R EXCEPT !.items[i] = elem]
    BY <1>4, <2>1 DEF Put, MakeRoom
  <2>3. Reshaped(L, R, L.N)
    BY <1>1, <2>1, ShiftRightShape
  <2> DEFINE items == [p \in Slots(L) |-> IF p = i THEN Null
                                   ELSE IF p \in i + 1 .. n
                                        THEN L.items[p - 1] ELSE L.items[p]]
             nodes == FixSentinels(L.nodes, SentinelsAt(items, i + 1 .. n), L.N)
  <2>4. R.items = items
    <3>1. R = [L EXCEPT !.items = items, !.nodes = nodes]
      BY <2>1 DEF ShiftRight
    <3> HIDE DEF items, nodes
    <3>2. R = [N |-> L.N, items |-> items, nodes |-> nodes]
      BY <3>1, Updated, ZenonT(30)
    <3> QED
      BY <3>2
  <2> HIDE DEF M, nodes
  <2>5. Reshaped(L, M, L.N) /\ \A p \in Slots(L) : M.items[p] = IF p = i THEN elem ELSE R.items[p]
    BY <1>2, <2>2, <2>3
  <2> QED
    BY <1>4, <2>4, <2>5 DEF M
<1>5. CASE ~IsNull(L.items[i]) /\ ~(n < L.N)
  <2>1. PICK slid : slid = SlidOffTheEnd(L, i)
    OBVIOUS
  <2>2. Reshaped(L, slid, L.N) /\ slid.items = L.items
    BY <1>1, <2>1, OffTheEndShape
  <2>3. IsList(slid) /\ slid.N = L.N /\ Slots(slid) = Slots(L)
    BY <2>2 DEF Reshaped, Slots
  <2>4. PrevNull(slid, i - 1) = e
    BY <2>2 DEF PrevNull
  <2>5. e >= 0
    BY <1>5 DEF Slidable
  <2>6. e \in 0 .. i - 2 /\ i - 1 \in Slots(L) /\ e \in Nat
    <3>1. i - 1 \in Int
      BY <1>1
    <3>2. e = -1 \/ e \in 0 .. (i - 1) - 1
      BY <3>1, PrevNullFound
    <3> QED
      BY <1>1, <2>5, <3>2 DEF Slots
  <2>7. PICK R : R = ShiftLeft(slid, i - 1, e)
    OBVIOUS
  <2>8. M = [R EXCEPT !.items[i - 1] = elem]
    BY <1>5, <2>1, <2>4, <2>5, <2>7 DEF Put, MakeRoom, SlideLeft
  <2>9. Reshaped(slid, R, L.N)
    BY <2>3, <2>6, <2>7, ShiftLeftShape
  <2>10. Reshaped(L, R, L.N)
    BY <2>2, <2>9, ReshapedTwice
  <2> DEFINE items == [p \in Slots(slid) |-> IF p = i - 1 THEN Null
                                   ELSE IF p \in e .. (i - 1) - 1
                                        THEN slid.items[p + 1] ELSE slid.items[p]]
             nodes == FixSentinels(slid.nodes, SentinelsAt(items, e .. (i - 1) - 1), slid.N)
  <2>11. R.items = items
    <3>1. R = [slid EXCEPT !.items = items, !.nodes = nodes]
      BY <2>7 DEF ShiftLeft
    <3> HIDE DEF items, nodes
    <3>2. R = [N |-> slid.N, items |-> items, nodes |-> nodes]
      BY <2>3, <3>1, Updated
    <3> QED
      BY <3>2
  <2> HIDE DEF M, nodes
  <2>12. Reshaped(L, M, L.N) /\ \A p \in Slots(L) : M.items[p] = IF p = i - 1 THEN elem ELSE R.items[p]
    BY <1>2, <2>6, <2>8, <2>10
  <2>13. (i - 1) - 1 = i - 2
    BY <1>1
  <2>14. \A p \in Slots(L) : M.items[p] = IF p = i - 1 THEN elem
                                          ELSE IF p \in e .. i - 2 THEN L.items[p + 1]
                                          ELSE L.items[p]
    BY <2>2, <2>3, <2>11, <2>12, <2>13
  <2> QED
    BY <1>5, <2>6, <2>12, <2>14 DEF M
<1> QED
  BY <1>3, <1>4, <1>5

\* A finite set that gains at most one element has at most one element more.
LEMMA OneMore ==
  ASSUME NEW S, IsFiniteSet(S), NEW T, NEW x, T \subseteq S \cup {x}
  PROVE  /\ IsFiniteSet(T) /\ Cardinality(T) \in Nat /\ Cardinality(S) \in Nat
         /\ Cardinality(T) <= Cardinality(S) + 1
<1>1. IsFiniteSet(S \cup {x}) /\ Cardinality(S \cup {x}) <= Cardinality(S) + 1
      /\ Cardinality(S) \in Nat
  BY FS_AddElement, FS_CardinalityType
<1>2. IsFiniteSet(T) /\ Cardinality(T) <= Cardinality(S \cup {x})
  BY <1>1, FS_Subset
<1>3. Cardinality(T) \in Nat /\ Cardinality(S \cup {x}) \in Nat
  BY <1>1, <1>2, FS_CardinalityType
<1> QED
  BY <1>1, <1>2, <1>3

\* Insert takes at most one slot more of every stretch of the list.
LEMMA PutCount ==
  ASSUME NEW L, IsList(L), NEW i \in Slots(L), NEW elem, Slidable(L, i),
         NEW lo \in Int, NEW hi \in Int, lo .. hi \subseteq Slots(L)
  PROVE  /\ Cardinality(Taken(L, lo .. hi)) \in Nat
         /\ Cardinality(Taken(Put(L, i, elem), lo .. hi)) \in Nat
         /\ Cardinality(Taken(Put(L, i, elem), lo .. hi)) <= Cardinality(Taken(L, lo .. hi)) + 1
<1> DEFINE M == Put(L, i, elem)
           n == NextNull(L, i)
           e == PrevNull(L, i - 1)
           W == lo .. hi
           S == Taken(L, W)
           T == Taken(M, W)
<1>1. i \in Nat /\ L.N \in Nat /\ i < L.N
  BY SlotsFound DEF Slots
<1>2. IsFiniteSet(S)
  <2>1. IsFiniteSet(W)
    BY FS_Interval
  <2> QED
    BY <2>1, FS_Subset DEF Taken
<1>3. SUFFICES \/ \E x : T \subseteq S \cup {x}
               \/ \E x \in S : \E y, z : T \subseteq ((S \ {x}) \cup {y}) \cup {z}
  <2>1. ASSUME NEW x, T \subseteq S \cup {x}
        PROVE  Cardinality(S) \in Nat /\ Cardinality(T) \in Nat /\ Cardinality(T) <= Cardinality(S) + 1
    <3> HIDE DEF S, T
    <3> QED
      BY <1>2, <2>1, OneMore
  <2>2. ASSUME NEW x \in S, NEW y, NEW z, T \subseteq ((S \ {x}) \cup {y}) \cup {z}
        PROVE  Cardinality(S) \in Nat /\ Cardinality(T) \in Nat /\ Cardinality(T) <= Cardinality(S) + 1
    <3> HIDE DEF S, T
    <3>1. IsFiniteSet(S \ {x}) /\ Cardinality(S \ {x}) = Cardinality(S) - 1 /\ Cardinality(S) \in Nat
      BY <1>2, FS_RemoveElement, FS_CardinalityType
    <3>2. PICK U : U = (S \ {x}) \cup {y}
      OBVIOUS
    <3>3. IsFiniteSet(U) /\ Cardinality(U) \in Nat /\ Cardinality(U) <= Cardinality(S \ {x}) + 1
      BY <3>1, <3>2, OneMore
    <3>4. Cardinality(T) \in Nat /\ Cardinality(T) <= Cardinality(U) + 1
      <4>1. T \subseteq U \cup {z}
        BY <2>2, <3>2
      <4> QED
        BY <3>3, <4>1, OneMore
    <3> QED
      BY <3>1, <3>3, <3>4
  <2> HIDE DEF S, T
  <2> QED
    BY <2>1, <2>2 DEF S, T
<1>4. ASSUME NEW p, p \in T \/ p \in S PROVE p \in W /\ p \in Slots(L) /\ p \in Nat
  BY <1>4, SlotsFound DEF Taken
<1>5. CASE IsNull(L.items[i])
  <2>1. \A p \in Slots(L) : M.items[p] = IF p = i THEN elem ELSE L.items[p]
    BY <1>5, PutItems
  <2>2. ASSUME NEW p \in T, p # i PROVE p \in S
    BY <1>4, <2>1, <2>2 DEF Taken
  <2> HIDE DEF S, T
  <2> QED
    BY <2>2
<1>6. CASE ~IsNull(L.items[i]) /\ n < L.N
  <2>1. \A p \in Slots(L) : M.items[p] = IF p = i THEN elem
                                         ELSE IF p \in i + 1 .. n THEN L.items[p - 1]
                                         ELSE L.items[p]
    BY <1>6, PutItems
  <2>2. n \in Nat /\ i < n /\ \A p \in i + 1 .. n - 1 : ~IsNull(L.items[p])
    BY <1>1, <1>6, NextNullFound
  <2>3. ASSUME NEW p \in T, p # n PROVE p \in S
    <3>1. p \in W /\ p \in Slots(L) /\ p \in Nat /\ ~IsNull(M.items[p])
      BY <1>4 DEF Taken
    <3>2. CASE p \in i .. n
      <4>1. p = i \/ p \in i + 1 .. n - 1
        BY <1>1, <2>2, <2>3, <3>1, <3>2
      <4>2. ~IsNull(L.items[p])
        BY <1>6, <2>2, <4>1
      <4> QED
        BY <3>1, <4>2 DEF Taken
    <3>3. CASE p \notin i .. n
      <4>1. p # i /\ p \notin i + 1 .. n
        BY <1>1, <2>2, <3>1, <3>3
      <4>2. M.items[p] = L.items[p]
        BY <2>1, <3>1, <4>1
      <4> QED
        BY <3>1, <4>2 DEF Taken
    <3> QED
      BY <3>2, <3>3
  <2> HIDE DEF S, T
  <2> QED
    BY <2>3
<1>7. CASE ~IsNull(L.items[i]) /\ ~(n < L.N)
  <2>1. /\ e \in 0 .. i - 2
        /\ \A p \in Slots(L) : M.items[p] = IF p = i - 1 THEN elem
                                            ELSE IF p \in e .. i - 2 THEN L.items[p + 1]
                                            ELSE L.items[p]
    BY <1>7, PutItems
  <2>2. \A p \in e + 1 .. i - 2 : ~IsNull(L.items[p])
    <3>1. i - 1 \in Int /\ (i - 1) - 1 = i - 2
      BY <1>1
    <3>2. e # -1
      BY <2>1
    <3> QED
      BY <3>1, <3>2, PrevNullFound
  <2>3. e \in Int /\ i - 1 \in Int /\ i - 2 \in Int
    BY <1>1, <2>1
  <2>4. ASSUME NEW p \in T, p # e, p # i - 1 PROVE p \in S
    <3>1. p \in W /\ p \in Slots(L) /\ p \in Nat /\ ~IsNull(M.items[p])
      BY <1>4 DEF Taken
    <3>2. CASE p \in e + 1 .. i - 2
      BY <2>2, <3>1, <3>2 DEF Taken
    <3>3. CASE p \notin e + 1 .. i - 2
      <4>1. p \notin e .. i - 2
        BY <2>3, <2>4, <3>1, <3>3
      <4>2. M.items[p] = L.items[p]
        BY <2>1, <2>4, <3>1, <4>1
      <4> QED
        BY <3>1, <4>2 DEF Taken
    <3> QED
      BY <3>2, <3>3
  <2>5. CASE e \notin W \/ i - 1 \notin W
    <3>1. e \notin T \/ i - 1 \notin T
      BY <1>4, <2>5
    <3> HIDE DEF S, T
    <3> QED
      BY <2>4, <3>1
  <2>6. CASE e \in W /\ i - 1 \in W /\ ~IsNull(L.items[i - 1])
    <3>1. i - 1 \in S
      BY <2>6 DEF Taken
    <3> HIDE DEF S, T
    <3> QED
      BY <2>4, <3>1
  <2>7. CASE e \in W /\ i - 1 \in W /\ IsNull(L.items[i - 1]) /\ e = i - 2
    <3>1. e \in Slots(L) /\ e \in e .. i - 2 /\ e # i - 1 /\ e + 1 = i - 1
      <4>1. e \in 0 .. i - 2 /\ e = i - 2
        BY <2>1, <2>7
      <4> HIDE DEF e
      <4> QED
        BY <1>1, <4>1 DEF Slots
    <3>2. M.items[e] = L.items[i - 1]
      BY <2>1, <3>1
    <3>3. e \notin T
      BY <2>7, <3>2 DEF Taken
    <3> HIDE DEF S, T
    <3> QED
      BY <2>4, <3>3
  <2>8. CASE e \in W /\ i - 1 \in W /\ IsNull(L.items[i - 1]) /\ e # i - 2
    <3>1. /\ i - 2 \in W /\ i - 2 \in e + 1 .. i - 2 /\ i - 2 \in e .. i - 2
          /\ i - 2 # i - 1 /\ (i - 2) + 1 = i - 1
      BY <1>1, <2>1, <2>3, <2>8
    <3>2. i - 2 \in S
      BY <2>2, <3>1 DEF Taken
    <3>3. M.items[i - 2] = L.items[i - 1]
      BY <2>1, <3>1
    <3>4. i - 2 \notin T
      BY <2>8, <3>3 DEF Taken
    <3>5. ASSUME NEW p \in T PROVE p \in ((S \ {i - 2}) \cup {e}) \cup {i - 1}
      <4> HIDE DEF S, T
      <4> QED
        BY <2>4, <3>4
    <3> HIDE DEF S, T
    <3> QED
      BY <3>2, <3>5
  <2> QED
    BY <2>5, <2>6, <2>7, <2>8
<1> QED
  BY <1>5, <1>6, <1>7

\* It writes no other slots.
LEMMA PutTouches ==
  ASSUME NEW L, IsList(L), NEW i \in Slots(L), NEW elem, Slidable(L, i),
         NEW p \in Slots(L) \ Touched(L, i)
  PROVE  Put(L, i, elem).items[p] = L.items[p]
<1>1. i \in Nat /\ L.N \in Nat /\ p \in Nat
  BY SlotsFound DEF Slots
<1>2. CASE IsNull(L.items[i])
  <2>1. p # i
    BY <1>2 DEF Touched
  <2> QED
    BY <1>2, <2>1, PutItems
<1>3. CASE ~IsNull(L.items[i]) /\ NextNull(L, i) < L.N
  <2>1. p \notin i .. NextNull(L, i) /\ NextNull(L, i) \in Nat /\ i < NextNull(L, i)
    BY <1>1, <1>3, NextNullFound DEF Touched
  <2>2. p # i /\ p \notin i + 1 .. NextNull(L, i)
    BY <1>1, <2>1
  <2> QED
    BY <1>3, <2>2, PutItems
<1>4. CASE ~IsNull(L.items[i]) /\ ~(NextNull(L, i) < L.N)
  <2>1. PrevNull(L, i - 1) \in 0 .. i - 2
    BY <1>4, PutItems
  <2>2. p \notin PrevNull(L, i - 1) .. i - 1
    BY <1>4 DEF Touched
  <2>3. p # i - 1 /\ p \notin PrevNull(L, i - 1) .. i - 2
    BY <1>1, <2>1, <2>2
  <2> QED
    BY <1>4, <2>3, PutItems
<1> QED
  BY <1>2, <1>3, <1>4

\* A stretch of the list without gaps.
Convex(H) == \A a, b \in H : \A p \in Int : a <= p /\ p <= b => p \in H

\* In the slots H there is room for insert at slot i, as acquire_insert_locks sees
\* to: slide_right finds a null there, or H goes on to the end of the list.
Room(L, i, H) ==
  \/ IsNull(L.items[i])
  \/ \E e \in H : i < e /\ IsNull(L.items[e])
  \/ L.N - 1 \in H

\* One null for the element, one that is left over.
Spare(L, H) ==
  \E a, b \in H : a # b /\ IsNull(L.items[a]) /\ IsNull(L.items[b])

\* Then insert stays inside H.
LEMMA RoomSlides ==
  ASSUME NEW L, IsList(L), NEW H, H \subseteq Slots(L), Convex(H), NEW i \in H,
         Room(L, i, H), Spare(L, H)
  PROVE  Slidable(L, i) /\ Touched(L, i) \subseteq H
<1> DEFINE n == NextNull(L, i)
           e == PrevNull(L, i - 1)
<1>1. i \in Nat /\ L.N \in Nat /\ i < L.N /\ i \in Slots(L) /\ H \subseteq Nat
  BY SlotsFound DEF Slots
<1>2. CASE IsNull(L.items[i])
  BY <1>2 DEF Slidable, Touched
<1>3. CASE ~IsNull(L.items[i]) /\ n < L.N
  <2>1. n \in Nat /\ i < n /\ \A p \in i + 1 .. n - 1 : ~IsNull(L.items[p])
    BY <1>1, <1>3, NextNullFound
  <2>2. n \in H
    <3>1. ASSUME NEW x \in H, i < x, IsNull(L.items[x]) PROVE n \in H
      <4>1. x \notin i + 1 .. n - 1 /\ x \in Nat
        BY <1>1, <2>1, <3>1
      <4>2. i <= n /\ n <= x
        BY <1>1, <2>1, <3>1, <4>1
      <4> QED
        BY <2>1, <4>2 DEF Convex
    <3>2. ASSUME L.N - 1 \in H PROVE n \in H
      <4>1. i <= n /\ n <= L.N - 1
        BY <1>1, <1>3, <2>1
      <4> QED
        BY <2>1, <3>2, <4>1 DEF Convex
    <3> QED
      BY <1>3, <3>1, <3>2 DEF Room
  <2>3. Touched(L, i) = i .. n
    BY <1>3 DEF Touched
  <2> QED
    BY <1>3, <2>2, <2>3 DEF Slidable, Convex
<1>4. CASE ~IsNull(L.items[i]) /\ ~(n < L.N)
  <2>1. \A p \in i + 1 .. L.N - 1 : ~IsNull(L.items[p])
    BY <1>1, <1>4, NextNullFound, SMTT(30)
  <2>2. ASSUME NEW x \in H, IsNull(L.items[x]) PROVE x \in Nat /\ x < i
    <3>1. x \in Nat /\ x < L.N /\ x # i
      BY <1>1, <1>4, <2>2 DEF Slots
    <3> QED
      BY <1>1, <2>1, <2>2, <3>1
  <2>3. PICK a, b \in H : a < b /\ IsNull(L.items[a]) /\ IsNull(L.items[b])
    <3>1. PICK a, b \in H : a # b /\ IsNull(L.items[a]) /\ IsNull(L.items[b])
      BY DEF Spare
    <3>2. a < b \/ b < a
      BY <1>1, <3>1
    <3> QED
      BY <3>1, <3>2
  <2>4. a \in Nat /\ a < i - 1
    BY <1>1, <2>2, <2>3
  <2>5. \/ e = -1 /\ \A p \in 0 .. (i - 1) - 1 : ~IsNull(L.items[p])
        \/ e \in 0 .. (i - 1) - 1 /\ \A p \in e + 1 .. (i - 1) - 1 : ~IsNull(L.items[p])
    <3>1. i - 1 \in Int
      BY <1>1
    <3> QED
      BY <3>1, PrevNullFound
  <2>6. a \in 0 .. (i - 1) - 1
    BY <1>1, <2>4
  <2>7. e \in 0 .. (i - 1) - 1 /\ a <= e
    <3>1. e \in 0 .. (i - 1) - 1 /\ a \notin e + 1 .. (i - 1) - 1
      BY <2>3, <2>5, <2>6
    <3> HIDE DEF e
    <3> QED
      BY <1>1, <2>4, <3>1
  <2>8. Touched(L, i) = e .. i - 1
    BY <1>4 DEF Touched
  <2>9. ASSUME NEW p \in e .. i - 1 PROVE p \in H
    <3>1. p \in Int /\ a <= p /\ p <= i
      BY <1>1, <2>4, <2>7
    <3> QED
      BY <3>1 DEF Convex
  <2> QED
    BY <2>7, <2>8, <2>9 DEF Slidable
<1> QED
  BY <1>2, <1>3, <1>4

\* And a null is left over.
LEMMA PutSpares ==
  ASSUME NEW L, IsList(L), NEW H, H \subseteq Slots(L), Convex(H), NEW i \in H, NEW elem,
         Room(L, i, H), Spare(L, H)
  PROVE  \E x \in H : IsNull(Put(L, i, elem).items[x])
<1> DEFINE M == Put(L, i, elem)
           n == NextNull(L, i)
           e == PrevNull(L, i - 1)
<1> SUFFICES \E x \in H : IsNull(M.items[x])
  OBVIOUS
<1>1. i \in Nat /\ L.N \in Nat /\ i < L.N /\ i \in Slots(L) /\ H \subseteq Nat
  BY SlotsFound DEF Slots
<1>2. Slidable(L, i) /\ Touched(L, i) \subseteq H
  BY RoomSlides
<1>3. PICK a, b \in H : a # b /\ IsNull(L.items[a]) /\ IsNull(L.items[b])
  BY DEF Spare
<1>4. ASSUME NEW y, \A x \in H : IsNull(L.items[x]) /\ x # y => M.items[x] = L.items[x]
      PROVE  \E x \in H : IsNull(M.items[x])
  <2>1. PICK x \in {a, b} : x # y
    BY <1>3
  <2>2. x \in H /\ IsNull(L.items[x])
    BY <1>3, <2>1
  <2>3. M.items[x] = L.items[x]
    BY <1>4, <2>1, <2>2
  <2> HIDE DEF M
  <2> QED
    BY <2>2, <2>3
<1>5. CASE IsNull(L.items[i])
  <2>1. \A x \in H : x # i => M.items[x] = L.items[x]
    BY <1>1, <1>2, <1>5, PutItems
  <2> HIDE DEF M
  <2> QED
    BY <1>4, <2>1
<1>6. CASE ~IsNull(L.items[i]) /\ n < L.N
  <2>1. n \in Nat /\ i < n /\ \A p \in i + 1 .. n - 1 : ~IsNull(L.items[p])
    BY <1>1, <1>6, NextNullFound
  <2>2. ASSUME NEW x \in H, IsNull(L.items[x]), x # n PROVE M.items[x] = L.items[x]
    <3>1. x \in Nat /\ x # i /\ x \notin i + 1 .. n - 1
      BY <1>1, <1>6, <2>1, <2>2
    <3>2. x \notin i + 1 .. n
      BY <2>1, <2>2, <3>1
    <3> QED
      BY <1>1, <1>2, <1>6, <3>1, <3>2, PutItems
  <2> HIDE DEF M
  <2> QED
    BY <1>4, <2>2
<1>7. CASE ~IsNull(L.items[i]) /\ ~(n < L.N)
  <2>1. /\ e \in 0 .. i - 2
        /\ \A p \in Slots(L) : M.items[p] = IF p = i - 1 THEN elem
                                            ELSE IF p \in e .. i - 2 THEN L.items[p + 1]
                                            ELSE L.items[p]
    BY <1>1, <1>2, <1>7, PutItems
  <2>2. e \in H /\ i - 1 \in H /\ i - 2 \in H
    <3>1. Touched(L, i) = e .. i - 1
      BY <1>7 DEF Touched
    <3>2. e \in e .. i - 1 /\ i - 1 \in e .. i - 1 /\ i - 2 \in e .. i - 1
      <4> HIDE DEF e
      <4> QED
        BY <1>1, <2>1
    <3> QED
      BY <1>2, <3>1, <3>2
  <2>3. CASE IsNull(L.items[i - 1])
    <3>1. i - 2 \in Slots(L) /\ i - 2 # i - 1 /\ i - 2 \in e .. i - 2 /\ (i - 2) + 1 = i - 1
      <4>1. i - 2 \in Slots(L)
        BY <2>2
      <4> HIDE DEF e
      <4> QED
        BY <1>1, <2>1, <4>1
    <3>2. M.items[i - 2] = L.items[i - 1]
      BY <2>1, <3>1
    <3> QED
      BY <2>2, <2>3, <3>2
  <2>4. CASE ~IsNull(L.items[i - 1])
    <3>1. \A p \in e + 1 .. i - 2 : ~IsNull(L.items[p])
      <4>1. i - 1 \in Int /\ (i - 1) - 1 = i - 2
        BY <1>1
      <4>2. e # -1
        BY <2>1
      <4> QED
        BY <4>1, <4>2, PrevNullFound
    <3>2. ASSUME NEW x \in H, IsNull(L.items[x]), x # e PROVE M.items[x] = L.items[x]
      <4>1. x \in Nat /\ x # i - 1 /\ x \notin e + 1 .. i - 2 /\ x \in Slots(L)
        BY <1>1, <2>4, <3>1, <3>2
      <4>2. x \notin e .. i - 2
        <5> HIDE DEF e
        <5> QED
          BY <1>1, <2>1, <3>2, <4>1
      <4> QED
        BY <2>1, <4>1, <4>2
    <3> HIDE DEF M
    <3> QED
      BY <1>4, <3>2
  <2> QED
    BY <2>3, <2>4
<1> QED
  BY <1>5, <1>6, <1>7

=============================================================================
