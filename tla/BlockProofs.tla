---------------------------- MODULE BlockProofs ----------------------------
(***************************************************************************)
(* Proofs about the layout of the list of PCSR.tla: nodes points at the    *)
(* sentinels and every edge lies in the block of its source, after every   *)
(* write of every thread.  Where no two threads work for the same source,  *)
(* the edges of a source ascend, a search finds the edge that is there,    *)
(* and PCSR.tla implements Graph.tla.  The last part is type correctness.  *)
(***************************************************************************)
EXTENDS WriteProofs, Sequences

----------------------------------------------------------------------------
(* What BlocksIntact says.                                                 *)

\* In a well-formed list nodes points at the sentinels.
LEMMA WellPointed ==
  ASSUME NEW L, WellFormed(L)
  PROVE  Pointed(L) /\ InBlocks(L)
<1>1. IsList(L) /\ L.N \in Nat \ {0} /\ Sole(L) /\ Numbered(Vertices(L))
  BY SlotsFound DEF WellFormed, Placed, PlacedBut
<1>2. PICK at : at = SentinelsAt(L.items, Slots(L))
  OBVIOUS
<1>3. \A p \in Slots(L) : Proper(L.items[p], Vertices(L))
  BY <1>1 DEF Sole
<1>4. /\ \A v \in DOMAIN at : v \in Vertices(L) /\ at[v] \in Slots(L) /\ L.items[at[v]] = Sentinel(v)
      /\ \A v \in Vertices(L) : (\E p \in Slots(L) : L.items[p] = Sentinel(v)) => v \in DOMAIN at
  BY <1>1, <1>2, <1>3, SentinelsSeen
<1>5. DOMAIN at = Vertices(L)
  BY <1>1, <1>4 DEF Sole
<1>6. \A v \in Vertices(L), p \in Slots(L) : L.items[p] = Sentinel(v) => at[v] = p
  BY <1>1, <1>4, <1>5 DEF Sole
<1>7. ASSUME NEW v \in Vertices(L)
      PROVE  /\ L.nodes[v].beginning = at[v]
             /\ L.nodes[v].end = IF v = LastVertex(L) THEN L.N - 1 ELSE at[v + 1]
  <2>1. PICK b, e, last : /\ b = L.nodes[v].beginning /\ e = L.nodes[v].end
                          /\ last = Cardinality(Vertices(L)) - 1
    OBVIOUS
  <2>2. /\ b \in Slots(L) /\ e \in Slots(L) /\ L.items[b] = Sentinel(v)
        /\ v = last => e = L.N - 1
        /\ v # last => v + 1 \in Vertices(L) /\ L.items[e] = Sentinel(v + 1)
    BY <2>1, RangeFound
  <2>3. at[v] = b
    BY <1>6, <2>2
  <2>4. v # last => at[v + 1] = e
    BY <1>6, <2>2
  <2> QED
    BY <2>1, <2>2, <2>3, <2>4 DEF LastVertex
<1> QED
  BY <1>2, <1>5, <1>7 DEF Pointed, WellFormed

\* Where an edge fits, by the sentinel of its source and the one after it.
LEMMA FitsFound ==
  ASSUME NEW L, WellFormed(L), NEW src \in Vertices(L), NEW i \in Nat
  PROVE  Fits(L, src, i) <=>
           /\ \E p \in Slots(L) : p < i /\ L.items[p] = Sentinel(src)
           /\ \A p \in Slots(L) : src + 1 \in Vertices(L) /\ L.items[p] = Sentinel(src + 1) => i <= p
<1>1. /\ IsList(L) /\ L.N \in Nat \ {0} /\ Sole(L) /\ Numbered(Vertices(L))
      /\ Slots(L) \subseteq Int /\ src \in Nat
  <2>1. IsList(L) /\ Numbered(Vertices(L)) /\ Sole(L)
    BY DEF WellFormed, Placed, PlacedBut
  <2>2. MaxU32 \in Nat
    BY MaxU32Assumption
  <2> QED
    BY <2>1, <2>2, SlotsFound DEF Numbered
<1>2. PICK b \in Slots(L) : L.items[b] = Sentinel(src)
  BY <1>1 DEF Sole
<1>3. ~IsNull(L.items[b]) /\ Owner(L.items[b]) = src /\ ~IsEdge(L.items[b])
  BY <1>1, <1>2, Kinds
<1>4. \A p, q \in Slots(L) : p < q /\ ~IsNull(L.items[p]) /\ ~IsNull(L.items[q])
                               => Before(L.items[p], L.items[q])
  BY <1>1, BlocksFound DEF WellFormed
<1>5. ASSUME Fits(L, src, i) PROVE b < i
  BY <1>1, <1>3, <1>5 DEF Fits
<1>6. ASSUME Fits(L, src, i), NEW p \in Slots(L), src + 1 \in Vertices(L),
             L.items[p] = Sentinel(src + 1)
      PROVE  i <= p
  <2>1. ~IsNull(L.items[p]) /\ Owner(L.items[p]) = src + 1
    BY <1>1, <1>6, Kinds
  <2> QED
    BY <1>1, <1>6, <2>1 DEF Fits
<1>7. ASSUME NEW c \in Slots(L), c < i, L.items[c] = Sentinel(src),
             \A p \in Slots(L) : src + 1 \in Vertices(L) /\ L.items[p] = Sentinel(src + 1) => i <= p,
             NEW p \in Slots(L), ~IsNull(L.items[p])
      PROVE  IF p < i THEN Owner(L.items[p]) <= src
             ELSE src < Owner(L.items[p]) \/ (src = Owner(L.items[p]) /\ IsEdge(L.items[p]))
  <2>1. ~IsNull(L.items[c]) /\ Owner(L.items[c]) = src
    BY <1>1, <1>7, Kinds
  <2>2. Owner(L.items[p]) \in Vertices(L) /\ Owner(L.items[p]) \in Nat
    BY <1>7, SlotHolds
  <2>3. CASE p < i
    <3>1. PICK n \in Nat : Vertices(L) = 0 .. n - 1
      BY <1>1, VerticesFound
    <3>2. CASE src + 1 \in Vertices(L)
      <4>1. PICK q \in Slots(L) : L.items[q] = Sentinel(src + 1)
        BY <1>1, <3>2 DEF Sole
      <4>2. ~IsNull(L.items[q]) /\ Owner(L.items[q]) = src + 1 /\ ~IsEdge(L.items[q])
        BY <1>1, <3>2, <4>1, Kinds
      <4>3. i <= q
        BY <1>7, <3>2, <4>1
      <4>4. p < q
        BY <1>1, <2>3, <4>3
      <4>5. Before(L.items[p], L.items[q])
        BY <1>4, <1>7, <4>2, <4>4
      <4> QED
        BY <1>1, <2>2, <2>3, <4>2, <4>5 DEF Before
    <3>3. CASE src + 1 \notin Vertices(L)
      <4>1. Owner(L.items[p]) <= src
        BY <1>1, <2>2, <3>1, <3>3
      <4> QED
        BY <2>3, <4>1
    <3> QED
      BY <3>2, <3>3
  <2>4. CASE ~(p < i)
    <3>1. c < p
      BY <1>1, <1>7, <2>4
    <3>2. Before(L.items[c], L.items[p])
      BY <1>4, <1>7, <2>1, <3>1
    <3> QED
      BY <1>1, <2>1, <2>2, <2>4, <3>2 DEF Before
  <2> QED
    BY <2>3, <2>4
<1>8. ASSUME NEW c \in Slots(L), c < i, L.items[c] = Sentinel(src),
             \A p \in Slots(L) : src + 1 \in Vertices(L) /\ L.items[p] = Sentinel(src + 1) => i <= p
      PROVE  Fits(L, src, i)
  BY <1>7, <1>8 DEF Fits
<1> QED
  BY <1>2, <1>5, <1>6, <1>8

\* A write inside a stretch H of the list moves no sentinel across a slot outside of
\* it.
LEMMA SentinelStays ==
  ASSUME NEW L, WellFormed(L), NEW M, WellFormed(M), NEW H, H \subseteq Slots(L), Convex(H),
         Confined(L, M, H), NEW v \in Vertices(L), NEW j \in Nat, j \notin H,
         NEW p \in Slots(L), L.items[p] = Sentinel(v), NEW q \in Slots(L), M.items[q] = Sentinel(v)
  PROVE  (p < j <=> q < j) /\ (p = j <=> q = j)
<1>1. /\ IsList(L) /\ Sole(L) /\ Sole(M) /\ Slots(L) \subseteq Int
      /\ Slots(M) = Slots(L) /\ Vertices(M) = Vertices(L)
  BY SlotsFound DEF WellFormed, Placed, PlacedBut, Confined, Reshaped, Slots
<1>2. CASE p \notin H
  <2>1. M.items[p] = Sentinel(v)
    BY <1>2 DEF Confined
  <2> QED
    BY <1>1, <2>1 DEF Sole
<1>3. CASE q \notin H
  <2>1. L.items[q] = Sentinel(v)
    BY <1>3 DEF Confined
  <2> QED
    BY <1>1, <2>1 DEF Sole
<1>4. CASE p \in H /\ q \in H
  <2>1. p # j /\ q # j
    BY <1>4
  <2>2. ~(p <= j /\ j <= q) /\ ~(q <= j /\ j <= p)
    BY <1>4 DEF Convex
  <2> QED
    BY <1>1, <2>1, <2>2
<1> QED
  BY <1>2, <1>3, <1>4

\* So where an edge fits at a slot outside of H it still does.
LEMMA FitsElsewhere ==
  ASSUME NEW L, WellFormed(L), NEW M, WellFormed(M), NEW H, H \subseteq Slots(L), Convex(H),
         Confined(L, M, H), NEW src \in Vertices(L), NEW j \in Nat, j \notin H, Fits(L, src, j)
  PROVE  Fits(M, src, j)
<1>1. /\ IsList(L) /\ Sole(L) /\ Sole(M) /\ Slots(L) \subseteq Int
      /\ Slots(M) = Slots(L) /\ Vertices(M) = Vertices(L)
  BY SlotsFound DEF WellFormed, Placed, PlacedBut, Confined, Reshaped, Slots
<1>2. PICK p \in Slots(L) : p < j /\ L.items[p] = Sentinel(src)
  BY FitsFound
<1>3. PICK q \in Slots(L) : M.items[q] = Sentinel(src)
  BY <1>1 DEF Sole
<1>4. q < j
  BY <1>2, <1>3, SentinelStays
<1>5. ASSUME NEW r \in Slots(M), src + 1 \in Vertices(M), M.items[r] = Sentinel(src + 1)
      PROVE  j <= r
  <2>1. PICK o \in Slots(L) : L.items[o] = Sentinel(src + 1)
    BY <1>1, <1>5 DEF Sole
  <2>2. j <= o
    BY <1>1, <1>5, <2>1, FitsFound
  <2>3. o < j <=> r < j
    BY <1>1, <1>5, <2>1, SentinelStays
  <2>4. ~(o < j) /\ r \in Int
    BY <1>1, <1>5, <2>1, <2>2
  <2> QED
    BY <2>3, <2>4
<1>6. src \in Vertices(M) /\ q \in Slots(M)
  BY <1>1
<1> QED
  BY <1>3, <1>4, <1>5, <1>6, FitsFound

\* Multiples ascend.
LEMMA MultiplesAscend ==
  ASSUME NEW a \in Nat, NEW b \in Nat, NEW c \in Nat
  PROVE  /\ a <= b => a * c <= b * c
         /\ a < b /\ c > 0 => a * c < b * c
<1>1. ASSUME a <= b PROVE a * c <= b * c /\ (a < b /\ c > 0 => a * c < b * c)
  <2>1. PICK d \in Nat : b = a + d
    <3>1. b - a \in Nat /\ b = a + (b - a)
      BY <1>1
    <3> QED
      BY <3>1
  <2>2. b * c = a * c + d * c /\ d * c \in Nat /\ a * c \in Nat
    BY <2>1
  <2>3. d > 0 /\ c > 0 => d * c > 0
    OBVIOUS
  <2> QED
    BY <2>1, <2>2, <2>3
<1>2. a < b => a <= b
  OBVIOUS
<1> QED
  BY <1>1, <1>2

\* The constructor's list is well formed.
LEMMA InitialWell ==
  ASSUME NEW n \in Nat \ {0}, n <= MaxU32, NEW minimum \in Nat \ {0}
  PROVE  WellFormed(InitialList(n, minimum)) /\ Backed(InitialList(n, minimum))
<1>1. PICK L, N : /\ L = InitialList(n, minimum)
                  /\ N = InitialSize(IF 2 * n > minimum THEN 2 * n ELSE minimum)
  OBVIOUS
<1> DEFINE place == [v \in 0 .. n - 1 |-> (v * N) \div n]
           table == [v \in 0 .. n - 1 |->
                       [beginning |-> place[v],
                        end |-> IF v = n - 1 THEN N - 1 ELSE place[v + 1]]]
           slots == [p \in 0 .. N - 1 |->
                       IF \E v \in 0 .. n - 1 : place[v] = p
                       THEN Sentinel(CHOOSE v \in 0 .. n - 1 : place[v] = p)
                       ELSE Null]
<1>2. L = [N |-> N, items |-> slots, nodes |-> table]
  BY <1>1 DEF InitialList
<1>3. PICK at, nodes, items : at = place /\ nodes = table /\ items = slots
  OBVIOUS
<1>4. /\ \A v \in 0 .. n - 1 : at[v] = (v * N) \div n
      /\ DOMAIN nodes = 0 .. n - 1
      /\ \A v \in 0 .. n - 1 : /\ nodes[v].beginning = at[v]
                               /\ nodes[v].end = IF v = n - 1 THEN N - 1 ELSE at[v + 1]
  BY <1>3
<1>5. \A p \in 0 .. N - 1 : items[p] = IF \E v \in 0 .. n - 1 : at[v] = p
                                       THEN Sentinel(CHOOSE v \in 0 .. n - 1 : at[v] = p)
                                       ELSE Null
  <2> HIDE DEF place
  <2> QED
    BY <1>3
<1>6. L.N = N /\ L.items = items /\ L.nodes = nodes
  <2> HIDE DEF table, slots
  <2> QED
    BY <1>2, <1>3
<1> HIDE DEF place, table, slots
<1>7. IsList(L) /\ N > 2 * n /\ N \in Nat \ {0} /\ Vertices(L) = 0 .. n - 1 /\ Slots(L) = 0 .. N - 1
  <2>1. IsList(L) /\ L.N > 2 * n /\ Vertices(L) = 0 .. n - 1
    BY <1>1, InitialShape
  <2> QED
    BY <1>6, <2>1, SlotsFound DEF Slots
<1>8. MaxU32 \in Nat /\ Numbered(0 .. n - 1)
  BY MaxU32Assumption DEF Numbered
<1>9. ASSUME NEW v \in 0 .. n - 1 PROVE at[v] \in Nat /\ at[v] < N
  <2>1. PICK x : x = v * N
    OBVIOUS
  <2>2. \A a, b \in Nat : a * b \in Nat
    OBVIOUS
  <2>3. \A a, b, c \in Nat : a < b /\ c > 0 => a * c < b * c
    BY MultiplesAscend
  <2>4. x \in Nat /\ x < n * N
    BY <1>7, <2>1, <2>2, <2>3
  <2>5. n * N = N * n
    BY <1>7
  <2>6. x \div n \in Nat /\ x \div n < N
    BY <1>7, <2>4, <2>5, Division
  <2> QED
    BY <1>4, <2>1, <2>6
<1>10. ASSUME NEW v \in 0 .. n - 1, NEW w \in 0 .. n - 1, v < w PROVE at[v] < at[w]
  <2>1. PICK x, y : x = v * N /\ y = w * N
    OBVIOUS
  <2>2. x \in Nat /\ y \in Nat /\ x + N <= y
    <3>1. \A a, b \in Nat : a * b \in Nat
      OBVIOUS
    <3>2. (v + 1) * N <= w * N
      BY <1>7, <1>10, MultiplesAscend
    <3>3. (v + 1) * N = v * N + N
      BY <1>7
    <3> QED
      BY <1>7, <2>1, <3>1, <3>2, <3>3
  <2>3. PICK q \in Nat : q = x \div n /\ q * n <= x
    BY <2>2, Division
  <2>4. (q + 1) * n = q * n + n /\ q * n \in Nat
    OBVIOUS
  <2>5. (q + 1) * n <= y
    BY <1>7, <2>2, <2>3, <2>4
  <2>6. q + 1 <= y \div n
    <3>1. PICK z \in Nat : z = q + 1
      OBVIOUS
    <3>2. z * n <= y
      BY <2>5, <3>1
    <3>3. y \in Nat
      BY <2>2
    <3>4. z <= y \div n
      BY ONLY n \in Nat \ {0}, z \in Nat, <3>2, <3>3, DivisionReaches, SMTT(30)
    <3> QED
      BY <3>1, <3>4
  <2>7. y \div n \in Nat
    BY <2>2, Division
  <2> QED
    BY <1>4, <2>1, <2>3, <2>6, <2>7
<1>11. ASSUME NEW v \in 0 .. n - 1 PROVE at[v] \in Slots(L) /\ L.items[at[v]] = Sentinel(v)
  <2>1. at[v] \in 0 .. N - 1
    BY <1>7, <1>9
  <2>2. \A w \in 0 .. n - 1 : at[w] = at[v] => w = v
    <3> SUFFICES ASSUME NEW w \in 0 .. n - 1, at[w] = at[v], w # v PROVE FALSE
      OBVIOUS
    <3>1. at[v] \in Nat /\ at[w] \in Nat
      BY <1>9
    <3>2. v < w \/ w < v
      OBVIOUS
    <3> QED
      BY <1>10, <3>1, <3>2
  <2>3. (CHOOSE w \in 0 .. n - 1 : at[w] = at[v]) = v
    BY <2>2
  <2> QED
    BY <1>5, <1>6, <1>7, <2>1, <2>3
<1>12. ASSUME NEW p \in Slots(L), ~IsNull(L.items[p])
       PROVE  \E v \in 0 .. n - 1 : at[v] = p /\ L.items[p] = Sentinel(v)
  <2>1. \E v \in 0 .. n - 1 : at[v] = p
    <3>1. IsNull(Null)
      BY DEF Null, IsNull
    <3>2. L.items[p] # Null
      BY <1>12, <3>1
    <3>3. p \in 0 .. N - 1
      BY <1>7
    <3> QED
      BY <1>5, <1>6, <3>2, <3>3
  <2> QED
    BY <1>11, <2>1
<1>13. ASSUME NEW v \in 0 .. n - 1, NEW p \in Slots(L), L.items[p] = Sentinel(v) PROVE at[v] = p
  <2>1. ~IsNull(L.items[p])
    BY <1>8, <1>13, Kinds
  <2>2. PICK w \in 0 .. n - 1 : at[w] = p /\ L.items[p] = Sentinel(w)
    BY <1>12, <2>1
  <2>3. w = v
    <3>1. Owner(Sentinel(v)) = v /\ Owner(Sentinel(w)) = w
      BY <1>8, Kinds
    <3> QED
      BY <1>13, <2>2, <3>1
  <2> QED
    BY <2>2, <2>3
<1>14. Sole(L)
  <2>1. \A p \in Slots(L) : Proper(L.items[p], Vertices(L))
    BY <1>7, <1>12 DEF Proper
  <2> QED
    BY <1>7, <1>11, <1>13, <2>1 DEF Sole
<1>15. ASSUME NEW v \in 0 .. n - 1 PROVE Noted(L.nodes, L.N, at[v], v)
  <2>1. Cardinality(DOMAIN L.nodes) = n
    <3>1. Cardinality(0 .. n - 1) = n
      <4>1. PICK m \in Nat : m = n - 1
        OBVIOUS
      <4>2. Cardinality(0 .. m) = m - 0 + 1
        BY FS_Interval
      <4> QED
        BY <4>1, <4>2
    <3> QED
      BY <1>4, <1>6, <3>1
  <2>2. v > 0 => v - 1 \in 0 .. n - 1 /\ v - 1 # n - 1 /\ (v - 1) + 1 = v
    OBVIOUS
  <2>3. v > 0 => nodes[v - 1].end = at[v]
    BY <1>4, <2>2
  <2> QED
    BY <1>4, <1>6, <2>1, <2>3 DEF Noted
<1>16. Placed(L)
  BY <1>7, <1>13, <1>14, <1>15 DEF Placed, PlacedBut
<1>17. InBlocks(L)
  <2>1. ASSUME NEW p \in Slots(L), NEW q \in Slots(L), p < q,
               ~IsNull(L.items[p]), ~IsNull(L.items[q])
        PROVE  Before(L.items[p], L.items[q])
    <3>1. PICK v \in 0 .. n - 1 : at[v] = p /\ L.items[p] = Sentinel(v)
      BY <1>12, <2>1
    <3>2. PICK w \in 0 .. n - 1 : at[w] = q /\ L.items[q] = Sentinel(w)
      BY <1>12, <2>1
    <3>3. Owner(L.items[p]) = v /\ Owner(L.items[q]) = w
      BY <1>8, <3>1, <3>2, Kinds
    <3>4. at[v] \in Nat /\ at[w] \in Nat /\ at[v] < at[w]
      BY <1>9, <2>1, <3>1, <3>2
    <3>5. w < v => at[w] < at[v]
      BY <1>10
    <3>6. v # w
      BY <3>4
    <3> QED
      BY <3>3, <3>4, <3>5, <3>6 DEF Before
  <2>2. L.N \in Nat
    BY <1>6, <1>7
  <2> QED
    BY <2>1, <2>2, BlocksFound
<1>18. ~IsNull(L.items[0])
  <2>1. 0 \in 0 .. n - 1 /\ 0 * N = 0 /\ 0 \div n = 0
    BY <1>7
  <2>2. at[0] = 0
    BY <1>4, <2>1
  <2> QED
    BY <1>8, <1>11, <2>1, <2>2, Kinds
<1>19. Ascending(L)
  <2>1. \A p \in Slots(L) : ~IsEdge(L.items[p])
    BY <1>8, <1>12, Kinds DEF IsEdge
  <2>2. L.N \in Nat
    BY <1>6, <1>7
  <2> QED
    BY <2>1, <2>2, AscendingFound
<1>20. WellFormed(L)
  BY <1>7, <1>8, <1>16, <1>17, <1>18, <1>19 DEF WellFormed
<1>21. Backed(L)
  <2>1. ASSUME NEW v \in 0 .. n - 1 PROVE at[v] # N - 1
    <3>1. n < N
      BY <1>7
    <3>2. (v * N) \div n < N - 1
      BY <1>7, <3>1, SpreadSlotShort
    <3> QED
      BY <1>4, <1>7, <1>9, <3>2
  <2>2. N - 1 \in Slots(L)
    BY <1>7
  <2>3. IsNull(L.items[N - 1])
    BY <1>12, <2>1, <2>2
  <2> QED
    BY <1>6, <2>3 DEF Backed
<1> QED
  BY <1>1, <1>20, <1>21

----------------------------------------------------------------------------
(* What a thread was asked to do, and what its search has locked.          *)

\* The call stays the same.
SameAsked(f, g) == g.kind = f.kind /\ g.src = f.src /\ g.dest = f.dest /\ g.value = f.value

\* What a step does to the locals of a call is no other call.
LEMMA LocalsKeep ==
  ASSUME NEW f \in Frames
  PROVE  /\ SameAsked(f, f)
         /\ \A n : SameAsked(f, Frame(f.kind, f.src, f.dest, f.value, n))
         /\ \A x : /\ SameAsked(f, [f EXCEPT !.beginning = x]) /\ SameAsked(f, [f EXCEPT !.next = x])
                   /\ SameAsked(f, [f EXCEPT !.hi = x]) /\ SameAsked(f, [f EXCEPT !.info = x])
                   /\ SameAsked(f, [f EXCEPT !.fresh = x])
         /\ \A x, y : SameAsked(f, [[f EXCEPT !.end = x] EXCEPT !.next = y])
         /\ \A w, x, y, z : SameAsked(f, [f EXCEPT !.index = w, !.lo = x, !.hi = y, !.next = z])
         /\ \A w, x, y, z : SameAsked(f, [f EXCEPT !.tries = w, !.lo = x, !.next = y, !.hi = z])
<1>1. SameAsked(f, f) /\ \A n : SameAsked(f, Frame(f.kind, f.src, f.dest, f.value, n))
  BY DEF Frames, Frame, SameAsked
<1>2. \A x : SameAsked(f, [f EXCEPT !.beginning = x]) /\ SameAsked(f, [f EXCEPT !.next = x])
  BY DEF Frames, SameAsked
<1>3. \A x : SameAsked(f, [f EXCEPT !.hi = x]) /\ SameAsked(f, [f EXCEPT !.info = x])
  BY DEF Frames, SameAsked
<1>4. \A x : SameAsked(f, [f EXCEPT !.fresh = x])
  BY DEF Frames, SameAsked
<1>5. \A x, y : SameAsked(f, [[f EXCEPT !.end = x] EXCEPT !.next = y])
  BY DEF Frames, SameAsked
<1>6. \A w, x, y, z : SameAsked(f, [f EXCEPT !.index = w, !.lo = x, !.hi = y, !.next = z])
  BY DEF Frames, SameAsked
<1>7. \A w, x, y, z : SameAsked(f, [f EXCEPT !.tries = w, !.lo = x, !.next = y, !.hi = z])
  BY DEF Frames, SameAsked
<1> QED
  BY <1>1, <1>2, <1>3, <1>4, <1>5, <1>6, <1>7

\* The steps of a call keep what was asked.
LEMMA CallStays ==
  ASSUME LeafInv, NEW t \in Threads, Continue(t), NEW u \in Threads, pc'[u] # "idle"
  PROVE  pc[u] # "idle" /\ SameAsked(frame[u], frame'[u])
<1>1. DOMAIN pc = Threads /\ DOMAIN frame = Threads
  BY DEF LeafInv, LockInv, Typed, FramesTyped
<1>2. pc[t] # "idle"
  BY DEF Continue, CallForced, Call, Snap, ShareLeaf, Search, LoadVersion, LockLeaf, CheckInsert,
         CheckRemove, Plan, Write, SpreadLeaf, SettleDensity, ReleaseLocks, Upgrade, WriteAlone, Unlock
<1>3. PICK f : f = frame[t]
  OBVIOUS
<1>4. f \in Frames /\ (pc[u] # "idle" => frame[u] \in Frames)
  BY <1>2, <1>3 DEF LeafInv, FramesTyped
<1>5. ASSUME NEW to, Goto(t, to) \/ (UNCHANGED pc /\ to = pc[t]), UNCHANGED frame
      PROVE  pc[u] # "idle" /\ SameAsked(frame[u], frame'[u])
  <2>1. pc[u] # "idle"
    BY <1>1, <1>2, <1>5 DEF Goto
  <2> QED
    BY <1>4, <1>5, <2>1, LocalsKeep
<1>6. ASSUME NEW to, Goto(t, to) \/ UNCHANGED pc, NEW g, SetFrame(t, g), SameAsked(f, g)
      PROVE  pc[u] # "idle" /\ SameAsked(frame[u], frame'[u])
  <2>1. pc[u] # "idle"
    BY <1>1, <1>2, <1>6 DEF Goto
  <2>2. CASE u = t
    BY <1>1, <1>3, <1>6, <2>1, <2>2 DEF SetFrame
  <2>3. CASE u # t
    <3>1. frame'[u] = frame[u]
      BY <1>1, <1>6, <2>3 DEF SetFrame
    <3> QED
      BY <1>4, <2>1, <3>1, LocalsKeep
  <2> QED
    BY <2>2, <2>3
<1>7. ASSUME Return(t) PROVE pc[u] # "idle" /\ SameAsked(frame[u], frame'[u])
  <2>1. u # t /\ pc[u] = pc'[u]
    BY <1>1, <1>7 DEF Return, Goto
  <2>2. frame'[u] = frame[u]
    BY <1>1, <1>7, <2>1 DEF Return, SetFrame
  <2> QED
    BY <1>4, <2>1, <2>2, LocalsKeep
<1>8. ASSUME CallAgain(t) PROVE pc[u] # "idle" /\ SameAsked(frame[u], frame'[u])
  <2>1. PICK n : SetFrame(t, Frame(f.kind, f.src, f.dest, f.value, n)) /\ Goto(t, "call")
    BY <1>3, <1>8 DEF CallAgain
  <2>2. SameAsked(f, Frame(f.kind, f.src, f.dest, f.value, n))
    BY <1>4, LocalsKeep
  <2> QED
    BY <1>6, <2>1, <2>2
<1>9. ASSUME NEW info, Escalate(t, info) PROVE pc[u] # "idle" /\ SameAsked(frame[u], frame'[u])
  <2>1. SetFrame(t, [f EXCEPT !.info = info]) /\ Goto(t, "upgrade")
    BY <1>3, <1>9 DEF Escalate
  <2>2. SameAsked(f, [f EXCEPT !.info = info])
    BY <1>4, LocalsKeep
  <2> QED
    BY <1>6, <2>1, <2>2
<1>10. ASSUME Extend(t) PROVE pc[u] # "idle" /\ SameAsked(frame[u], frame'[u])
  <2>1. PICK x : x = f.hi + 1
    OBVIOUS
  <2>2. SetFrame(t, [f EXCEPT !.hi = x]) /\ UNCHANGED pc
    BY <1>3, <1>10, <2>1 DEF Extend
  <2>3. SameAsked(f, [f EXCEPT !.hi = x])
    BY <1>4, LocalsKeep
  <2> QED
    BY <1>6, <2>2, <2>3
<1>11. CASE CallForced(t) \/ LoadVersion(t) \/ Write(t) \/ SpreadLeaf(t) \/ SettleDensity(t)
            \/ Upgrade(t) \/ WriteAlone(t)
  BY <1>5, <1>11 DEF CallForced, LoadVersion, Write, SpreadLeaf, SettleDensity, Upgrade, WriteAlone
<1>12. CASE Call(t)
  <2>1. PICK x : x = list.nodes[f.src].beginning
    OBVIOUS
  <2>2. SetFrame(t, [f EXCEPT !.beginning = x]) /\ Goto(t, "snap")
    BY <1>3, <1>12, <2>1 DEF Call
  <2>3. SameAsked(f, [f EXCEPT !.beginning = x])
    BY <1>4, LocalsKeep
  <2> QED
    BY <1>6, <2>2, <2>3
<1>13. CASE Snap(t)
  <2>1. PICK x, h : x = list.nodes[f.src].end /\ h = [f EXCEPT !.end = x]
    OBVIOUS
  <2>2. PICK y : y = FirstNode(h)
    OBVIOUS
  <2>3. PICK to : Goto(t, to)
    BY <1>13 DEF Snap
  <2>4. SetFrame(t, [h EXCEPT !.next = y])
    BY <1>3, <1>13, <2>1, <2>2 DEF Snap
  <2>5. SameAsked(f, [h EXCEPT !.next = y])
    BY <1>4, <2>1, LocalsKeep
  <2> QED
    BY <1>6, <2>3, <2>4, <2>5
<1>14. CASE ShareLeaf(t) \/ LockLeaf(t)
  <2>1. PICK x : x = f.next + 1
    OBVIOUS
  <2>2. SetFrame(t, [f EXCEPT !.next = x])
    BY <1>3, <1>14, <2>1 DEF ShareLeaf, LockLeaf
  <2>3. PICK to : Goto(t, to)
    BY <1>14 DEF ShareLeaf, LockLeaf
  <2>4. SameAsked(f, [f EXCEPT !.next = x])
    BY <1>4, LocalsKeep
  <2> QED
    BY <1>6, <2>2, <2>3, <2>4
<1>15. CASE Search(t)
  <2>1. \/ CallAgain(t)
        \/ \E i, lo, node, to : /\ SetFrame(t, [f EXCEPT !.index = i, !.lo = lo, !.hi = node, !.next = lo])
                                /\ Goto(t, to)
    BY <1>3, <1>15, Zenon DEF Search
  <2>2. \A i, lo, node : SameAsked(f, [f EXCEPT !.index = i, !.lo = lo, !.hi = node, !.next = lo])
    BY <1>4, LocalsKeep
  <2> QED
    BY <1>6, <1>8, <2>1, <2>2
<1>16. CASE CheckInsert(t) \/ CheckRemove(t)
  <2>1. \/ CallAgain(t) \/ Escalate(t, NoInfo) \/ Extend(t) \/ Return(t)
        \/ Goto(t, "plan") /\ UNCHANGED frame
    BY <1>16 DEF CheckInsert, CheckRemove, Retry
  <2> QED
    BY <1>5, <1>7, <1>8, <1>9, <1>10, <2>1
<1>17. CASE Plan(t)
  <2>1. PICK d : d = Decision(t)
    OBVIOUS
  <2>2. \/ Extend(t) \/ Restarted(t, d.from) \/ Escalate(t, d.info)
        \/ SetFrame(t, [f EXCEPT !.info = d.info]) /\ Goto(t, "write")
    BY <1>3, <1>17, <2>1 DEF Plan
  <2>3. ASSUME Restarted(t, d.from) PROVE pc[u] # "idle" /\ SameAsked(frame[u], frame'[u])
    <3>1. \/ Escalate(t, NoInfo)
          \/ \E tries, hi : /\ Goto(t, "lock")
                            /\ SetFrame(t, [f EXCEPT !.tries = tries, !.lo = d.from, !.next = d.from, !.hi = hi])
      BY <1>3, <2>3, Zenon DEF Restarted
    <3>2. \A tries, hi :
            SameAsked(f, [f EXCEPT !.tries = tries, !.lo = d.from, !.next = d.from, !.hi = hi])
      BY <1>4, LocalsKeep
    <3> QED
      BY <1>6, <1>9, <3>1, <3>2
  <2>4. SameAsked(f, [f EXCEPT !.info = d.info])
    BY <1>4, LocalsKeep
  <2> QED
    BY <1>6, <1>9, <1>10, <2>2, <2>3, <2>4
<1>18. CASE ReleaseLocks(t)
  <2>1. u # t /\ pc[u] = pc'[u]
    BY <1>1, <1>18 DEF ReleaseLocks, Goto
  <2>2. frame'[u] = frame[u] \/ frame'[u] = [frame[u] EXCEPT !.fresh = FALSE]
    BY <1>18, <2>1 DEF ReleaseLocks
  <2>3. frame[u] \in Frames
    BY <1>4, <2>1
  <2>4. SameAsked(frame[u], [frame[u] EXCEPT !.fresh = FALSE]) /\ SameAsked(frame[u], frame[u])
    BY <2>3, LocalsKeep
  <2> QED
    BY <2>1, <2>2, <2>4
<1>19. CASE Unlock(t)
  BY <1>7, <1>19 DEF Unlock
<1> QED
  BY <1>11, <1>12, <1>13, <1>14, <1>15, <1>16, <1>17, <1>18, <1>19 DEF Continue

\* What a thread was asked to do.
AskedTo(t, f) ==
  IF f.kind = "add" THEN <<f.src, f.dest>> \in Adds[t] /\ f.value \in Values
                    ELSE <<f.src, f.dest>> \in Removes[t] /\ f.value = 1

Asked == \A t \in Threads : pc[t] # "idle" => AskedTo(t, frame[t])

\* A thread does what it was asked to do.
LEMMA AskedStep ==
  ASSUME LeafInv, Asked, [Next]_vars
  PROVE  Asked'
<1> SUFFICES ASSUME NEW u \in Threads, pc'[u] # "idle" PROVE AskedTo(u, frame'[u])
  BY DEF Asked, AskedTo
<1>1. pc[u] # "idle" => AskedTo(u, frame[u])
  BY DEF Asked
<1>2. DOMAIN pc = Threads /\ DOMAIN frame = Threads
  BY DEF LeafInv, LockInv, Typed, FramesTyped
<1>3. CASE UNCHANGED <<pc, frame>>
  BY <1>1, <1>3
<1>4. ASSUME NEW t \in Threads, Begin(t) PROVE AskedTo(u, frame'[u])
  <2>1. PICK k, s, d, v :
          /\ SetFrame(t, Frame(k, s, d, v, 0)) /\ Goto(t, "call")
          /\ \/ k = "add" /\ <<s, d>> \in Adds[t] /\ v \in Values
             \/ k = "remove" /\ <<s, d>> \in Removes[t] /\ v = 1
    <3>1. CASE \E e \in Adds[t], v \in Values : BeginAdd(t, e[1], e[2], v)
      <4>1. PICK e \in Adds[t], v \in Values : BeginAdd(t, e[1], e[2], v)
        BY <3>1
      <4>2. e = <<e[1], e[2]>>
        BY InputsAssumption
      <4> QED
        BY <4>1, <4>2 DEF BeginAdd
    <3>2. CASE \E e \in Removes[t] : BeginRemove(t, e[1], e[2])
      <4>1. PICK e \in Removes[t] : BeginRemove(t, e[1], e[2])
        BY <3>2
      <4>2. e = <<e[1], e[2]>>
        BY InputsAssumption
      <4> QED
        BY <4>1, <4>2 DEF BeginRemove
    <3> QED
      BY <1>4, <3>1, <3>2 DEF Begin
  <2>2. CASE u = t
    <3>1. PICK g : g = Frame(k, s, d, v, 0)
      OBVIOUS
    <3>2. frame'[u] = g
      BY <1>2, <2>1, <2>2, <3>1 DEF SetFrame
    <3>3. g.kind = k /\ g.src = s /\ g.dest = d /\ g.value = v
      BY <3>1 DEF Frame
    <3> QED
      BY <2>1, <2>2, <3>2, <3>3 DEF AskedTo
  <2>3. CASE u # t
    <3>1. pc'[u] = pc[u] /\ frame'[u] = frame[u]
      BY <1>2, <2>1, <2>3 DEF SetFrame, Goto
    <3> QED
      BY <1>1, <3>1
  <2> QED
    BY <2>2, <2>3
<1>5. ASSUME NEW t \in Threads, Continue(t) PROVE AskedTo(u, frame'[u])
  <2>1. pc[u] # "idle" /\ SameAsked(frame[u], frame'[u])
    BY <1>5, CallStays
  <2> QED
    BY <1>1, <2>1 DEF AskedTo, SameAsked
<1> QED
  BY <1>3, <1>4, <1>5 DEF Next, AddVertex, vars

\* What a search holds: from the first leaf of its range to the last, when it has
\* locked them all.
Shares(t) ==
  LET f == frame[t]
  IN  /\ pc[t] = "share" => f.next <= LastNode(f)
      /\ pc[t] = "search" /\ lock_bsearch /\ FirstNode(f) <= LastNode(f) => LastNode(f) \in shared[t]

Sharing == \A t \in Threads : Shares(t)

\* A step of one thread leaves the others where they are; it may tell them that their
\* search is out of date.
LEMMA OthersStay ==
  ASSUME LeafInv, NEW t \in Threads, Continue(t), NEW u \in Threads \ {t}
  PROVE  /\ pc'[u] = pc[u] /\ shared'[u] = shared[u]
         /\ \/ frame'[u] = frame[u]
            \/ pc[u] \in {"lock", "check", "plan"} /\ frame'[u] = [frame[u] EXCEPT !.fresh = FALSE]
<1>1. DOMAIN pc = Threads /\ DOMAIN frame = Threads /\ DOMAIN shared = Threads
  BY DEF LeafInv, LockInv, Typed, FramesTyped
<1>2. ASSUME \/ UNCHANGED pc
             \/ \E to : Goto(t, to),
             \/ UNCHANGED frame
             \/ \E g : SetFrame(t, g),
             UNCHANGED shared \/ \E S : shared' = [shared EXCEPT ![t] = S]
      PROVE  pc'[u] = pc[u] /\ shared'[u] = shared[u] /\ frame'[u] = frame[u]
  BY <1>1, <1>2 DEF Goto, SetFrame
<1>3. ASSUME Return(t) \/ CallAgain(t) \/ Extend(t) \/ \E info : Escalate(t, info)
      PROVE  /\ UNCHANGED pc \/ \E to : Goto(t, to)
             /\ \E g : SetFrame(t, g)
  BY <1>3 DEF Return, CallAgain, Extend, Escalate
<1>4. CASE CallForced(t) \/ Call(t) \/ Snap(t) \/ LoadVersion(t) \/ LockLeaf(t)
           \/ Write(t) \/ SpreadLeaf(t) \/ SettleDensity(t) \/ Upgrade(t) \/ WriteAlone(t)
  <2>1. /\ \E to : Goto(t, to)
        /\ UNCHANGED frame \/ \E g : SetFrame(t, g)
        /\ UNCHANGED shared
    BY <1>4, Zenon DEF CallForced, Call, Snap, LoadVersion, LockLeaf, Write, SpreadLeaf, SettleDensity,
                       Upgrade, WriteAlone
  <2> QED
    BY <1>2, <2>1
<1>5. CASE ShareLeaf(t)
  <2>1. (\E to : Goto(t, to)) /\ (\E g : SetFrame(t, g))
        /\ \E S : shared' = [shared EXCEPT ![t] = S]
    BY <1>5 DEF ShareLeaf
  <2> QED
    BY <1>2, <2>1
<1>6. CASE Search(t)
  <2>1. shared' = [shared EXCEPT ![t] = {}]
    BY <1>6 DEF Search
  <2>2. CallAgain(t) \/ ((\E to : Goto(t, to)) /\ (\E g : SetFrame(t, g)))
    BY <1>6, Zenon DEF Search
  <2> QED
    BY <1>2, <1>3, <2>1, <2>2
<1>7. CASE CheckInsert(t) \/ CheckRemove(t)
  <2>1. UNCHANGED shared
    BY <1>7 DEF CheckInsert, CheckRemove, Retry, Escalate, Extend
  <2>2. \/ CallAgain(t) \/ Escalate(t, NoInfo) \/ Extend(t) \/ Return(t)
        \/ Goto(t, "plan") /\ UNCHANGED frame
    BY <1>7 DEF CheckInsert, CheckRemove, Retry
  <2> QED
    BY <1>2, <1>3, <2>1, <2>2
<1>8. CASE Plan(t)
  <2>1. UNCHANGED shared
    BY <1>8 DEF Plan, Extend, Restarted, Escalate
  <2>2. \/ Extend(t) \/ (\E info : Escalate(t, info))
        \/ (\E to : Goto(t, to)) /\ (\E g : SetFrame(t, g))
    BY <1>8, Zenon DEF Plan, Restarted
  <2> QED
    BY <1>2, <1>3, <2>1, <2>2
<1>9. CASE ReleaseLocks(t)
  <2>1. pc'[u] = pc[u] /\ UNCHANGED shared
    BY <1>1, <1>9 DEF ReleaseLocks, Goto
  <2>2. \/ frame'[u] = frame[u]
        \/ pc[u] \in {"lock", "check", "plan"} /\ frame'[u] = [frame[u] EXCEPT !.fresh = FALSE]
    BY <1>9 DEF ReleaseLocks
  <2> QED
    BY <2>1, <2>2
<1>10. CASE Unlock(t)
  BY <1>2, <1>3, <1>10 DEF Unlock
<1> QED
  BY <1>4, <1>5, <1>6, <1>7, <1>8, <1>9, <1>10 DEF Continue

\* Only Snap and ShareLeaf lead to a search.
LEMMA SearchesAhead ==
  ASSUME LeafInv, NEW t \in Threads, Continue(t), pc'[t] \in {"share", "search"}
  PROVE  Snap(t) \/ ShareLeaf(t)
<1>1. DOMAIN pc = Threads
  BY DEF LeafInv, LockInv, Typed
<1>2. \A to : Goto(t, to) => pc'[t] = to
  BY <1>1 DEF Goto
<1>3. ~(Return(t) \/ CallAgain(t) \/ \E info : Escalate(t, info))
  BY <1>2 DEF Return, CallAgain, Escalate
<1>4. ~(Extend(t) /\ pc[t] \in {"check", "plan"})
  BY DEF Extend
<1>5. ~(\/ CallForced(t) \/ Call(t) \/ LoadVersion(t) \/ LockLeaf(t) \/ Write(t) \/ SpreadLeaf(t)
        \/ SettleDensity(t) \/ Upgrade(t) \/ WriteAlone(t) \/ ReleaseLocks(t))
  BY <1>2 DEF CallForced, Call, LoadVersion, LockLeaf, Write, SpreadLeaf, SettleDensity, Upgrade, WriteAlone,
              ReleaseLocks
<1>6. ~Search(t)
  <2>1. Search(t) => CallAgain(t) \/ Goto(t, "lock") \/ Goto(t, "load")
    BY Zenon DEF Search
  <2> QED
    BY <1>2, <1>3, <2>1
<1>7. ~(CheckInsert(t) \/ CheckRemove(t))
  BY <1>2, <1>3, <1>4 DEF CheckInsert, CheckRemove, Retry
<1>8. ~Plan(t)
  BY <1>2, <1>3, <1>4 DEF Plan, Restarted
<1>9. ~Unlock(t)
  BY <1>3 DEF Unlock
<1> QED
  BY <1>5, <1>6, <1>7, <1>8, <1>9 DEF Continue

\* A search holds what it has locked until it is over.
LEMMA SharingStep ==
  ASSUME WriteInv, Sharing, [Next]_vars
  PROVE  Sharing'
<1> SUFFICES ASSUME NEW u \in Threads, pc'[u] \in {"share", "search"} PROVE Shares(u)'
  BY DEF Sharing, Shares
<1>1. LeafInv /\ LockInv /\ DOMAIN pc = Threads /\ DOMAIN frame = Threads /\ DOMAIN shared = Threads
      /\ Shares(u) /\ IsList(list) /\ (\A t \in Threads : pc[t] # "idle" => frame[t] \in Frames)
  BY DEF WriteInv, LeafInv, LockInv, Typed, FramesTyped, Sharing
<1>2. ASSUME list'.N = list.N, pc'[u] = pc[u], frame'[u] = frame[u], shared'[u] = shared[u],
             UNCHANGED lock_bsearch
      PROVE  Shares(u)'
  BY <1>1, <1>2 DEF Shares, FirstNode, LastNode, LeafId
<1>3. CASE UNCHANGED vars
  BY <1>2, <1>3 DEF vars
<1>4. CASE AddVertex
  BY <1>4 DEF AddVertex
<1>5. ASSUME NEW t \in Threads, Begin(t) PROVE u # t /\ UNCHANGED <<list, shared>>
                                             /\ pc'[u] = pc[u] /\ frame'[u] = frame[u]
  <2>1. Goto(t, "call") /\ UNCHANGED <<list, shared>> /\ \E g : SetFrame(t, g)
    BY <1>5 DEF Begin, BeginAdd, BeginRemove
  <2> QED
    BY <1>1, <2>1 DEF Goto, SetFrame
<1>6. ASSUME NEW t \in Threads, Continue(t), u # t, UNCHANGED lock_bsearch PROVE Shares(u)'
  <2>1. pc'[u] = pc[u] /\ shared'[u] = shared[u] /\ frame'[u] = frame[u]
    BY <1>1, <1>6, OthersStay
  <2>2. ~WriteAlone(t)
    <3>1. pc[u] \in Inside /\ global_lock[u] = "shared"
      BY <1>1, <2>1 DEF LockInv, ModeFollowsPc, Inside
    <3>2. pc[t] = "force" => global_lock[t] = "exclusive"
      BY <1>1 DEF LockInv, ModeFollowsPc, Alone
    <3> QED
      BY <1>1, <1>6, <3>1, <3>2 DEF LockInv, GlobalExclusion, WriteAlone
  <2>3. list'.N = list.N
    <3>1. CASE Write(t) \/ SpreadLeaf(t) \/ SettleDensity(t)
      BY <3>1, WriteLocked DEF Confined, Reshaped
    <3>2. CASE UNCHANGED list
      BY <3>2
    <3> QED
      BY <1>1, <1>6, <2>2, <3>1, <3>2, ContinueMoves
  <2> QED
    BY <1>2, <1>6, <2>1, <2>3
<1>7. ASSUME Continue(u), UNCHANGED lock_bsearch PROVE Shares(u)'
  <2>1. Snap(u) \/ ShareLeaf(u)
    BY <1>1, <1>7, SearchesAhead
  <2>2. PICK f : f = frame[u]
    OBVIOUS
  <2>3. f \in Frames /\ UNCHANGED list
    BY <1>1, <2>1, <2>2 DEF Snap, ShareLeaf
  <2>4. CASE Snap(u)
    <3>1. PICK h : h = [f EXCEPT !.end = list.nodes[f.src].end]
      OBVIOUS
    <3>2. PICK x : x = FirstNode(h)
      OBVIOUS
    <3>3. PICK g : g = [h EXCEPT !.next = x]
      OBVIOUS
    <3>4. /\ frame'[u] = g
          /\ pc'[u] = IF lock_bsearch /\ x <= LastNode(h) THEN "share" ELSE "search"
      BY <1>1, <2>2, <2>4, <3>1, <3>2, <3>3 DEF Snap, SetFrame, Goto
    <3>5. g.beginning = h.beginning /\ g.end = h.end /\ g.next = x
      BY <2>3, <3>1, <3>3 DEF Frames
    <3>6. FirstNode(g) = x /\ LastNode(g) = LastNode(h)
      BY <3>2, <3>5 DEF FirstNode, LastNode
    <3>7. FirstNode(g)' = FirstNode(g) /\ LastNode(g)' = LastNode(g)
      BY <2>3 DEF FirstNode, LastNode
    <3>8. /\ pc'[u] = "share" => g.next <= LastNode(g)
          /\ ~(pc'[u] = "search" /\ lock_bsearch /\ FirstNode(g) <= LastNode(g))
      BY <3>4, <3>5, <3>6
    <3> QED
      BY <1>7, <2>3, <3>4, <3>8 DEF Shares, FirstNode, LastNode
  <2>5. CASE ShareLeaf(u)
    <3>1. PICK x, last : x = f.next /\ last = LastNode(f)
      OBVIOUS
    <3>2. PICK g : g = [f EXCEPT !.next = x + 1]
      OBVIOUS
    <3>3. /\ frame'[u] = g /\ shared'[u] = shared[u] \cup {x} /\ pc[u] = "share"
          /\ pc'[u] = IF x = last THEN "search" ELSE "share"
      BY <1>1, <2>2, <2>5, <3>1, <3>2 DEF ShareLeaf, SetFrame, Goto
    <3>4. g.beginning = f.beginning /\ g.end = f.end /\ g.next = x + 1 /\ x \in Nat /\ f.end \in Nat
      BY <2>3, <3>1, <3>2 DEF Frames
    <3>5. LastNode(g) = last /\ last \in Nat
      BY <1>1, <3>1, <3>4, LeafFound DEF LastNode
    <3>6. x <= last
      BY <1>1, <2>2, <3>1, <3>3 DEF Shares
    <3>7. /\ pc'[u] = "share" => g.next <= LastNode(g)
          /\ pc'[u] = "search" => LastNode(g) \in shared'[u]
      BY <3>3, <3>4, <3>5, <3>6
    <3> QED
      BY <2>3, <3>3, <3>7 DEF Shares, FirstNode, LastNode
  <2> QED
    BY <2>1, <2>4, <2>5
<1> QED
  BY <1>2, <1>3, <1>4, <1>5, <1>6, <1>7 DEF Next

----------------------------------------------------------------------------
(* What a thread relies on between its steps.                              *)

\* The leaves that other threads than t are changing, or have changed and not yet
\* told: release_locks gives them a new version.
Busy(t) ==
  UNION {exclusive[u] : u \in {v \in Threads \ {t} : pc[v] \in Writing \cup {"release"}}}

\* The slot f.index is where the search of src and dest ends.
Located(L, f) ==
  /\ FitsOrEnds(L, f.src, f.index)
  /\ OneWriter => Splits(L, f.src, f.dest, f.index)

\* The edge to remove is in the slot.
Removable(L, f) ==
  LET e == L.items[f.index] IN IsEdge(e) /\ e.src = f.src /\ e.dest = f.dest

\* What the search of a call with the locals f has found still holds in L, unless
\* its leaf is one of those in busy or its version has changed.
Sure(L, f, at, busy) ==
  /\ at \in {"load", "lock"} \cup Holding => f.index \in Slots(L)
  /\ f.fresh /\ at \in {"load", "lock", "check"} /\ LeafId(L, f.index) \notin busy => Located(L, f)
  /\ at \in {"plan", "write"} => Located(L, f)
  /\ f.kind = "add" /\ at \in {"plan", "write"} => (f.index = L.N - 1 => IsNull(L.items[f.index]))
  /\ f.kind = "remove" /\ at \in {"plan", "write"} => Removable(L, f)

\* The range of its source, read under no lock, is that of L where nobody else
\* can change it.
Ranged(L, f, at) ==
  /\ at = "load" => ~lock_bsearch
  /\ at = "share" => lock_bsearch
  /\ ~lock_bsearch /\ at \in {"snap", "search"} => f.beginning = L.nodes[f.src].beginning
  /\ ~lock_bsearch /\ at = "search" => f.end = L.nodes[f.src].end

Laid ==
  /\ WellFormed(list)
  /\ \A t \in Threads : /\ Sure(list, frame[t], pc[t], Busy(t))
                        /\ Ranged(list, frame[t], pc[t])

\* The last slot of the list is taken only when the one before it is, except where a
\* thread has put an element there and not yet evened out its leaf.
EndBacked ==
  \/ Backed(list)
  \/ \E t \in Threads : pc[t] = "spread" /\ LeafId(list, frame[t].index) = LeafId(list, list.N - 1)

\* Nothing is claimed of several threads that search without leaf locks.
Exact == lock_bsearch \/ (IsFiniteSet(Threads) /\ Cardinality(Threads) = 1)

BlockInv == Exact /\ SizeInv /\ Asked /\ Sharing /\ EndBacked /\ Laid

\* The edges after f was carried out in L.
Done(L, f, edges) ==
  edges = IF f.kind = "add" THEN Without(L, f.src, f.dest) \cup {<<f.src, f.dest, f.value>>}
                            ELSE Without(L, f.src, f.dest)

\* The value that a thread gives, and the edge that it was asked for.
LEMMA AskedFound ==
  ASSUME BlockInv, NEW t \in Threads, pc[t] # "idle"
  PROVE  LET f == frame[t]
         IN  /\ f \in Frames /\ f.src \in Vertices(list) /\ f.dest \in 0 .. MaxU32 - 1 /\ f.dest \in Int
             /\ f.kind \in {"add", "remove"} /\ (f.kind = "add" => f.value \in Values)
             /\ \E e \in Adds[t] \cup Removes[t] : e[1] = f.src
<1>1. PICK f : f = frame[t]
  OBVIOUS
<1>2. f \in Frames /\ AskedTo(t, f)
  BY <1>1, LocalsFound DEF BlockInv, SizeInv, Asked
<1>3. f.src \in Vertices(list) /\ f.dest \in 0 .. MaxU32 - 1 /\ f.kind \in {"add", "remove"}
  BY <1>2 DEF Frames
<1>4. MaxU32 \in Nat
  BY MaxU32Assumption
<1>5. f.dest \in Int
  BY <1>3, <1>4
<1>6. <<f.src, f.dest>> \in Adds[t] \cup Removes[t] /\ <<f.src, f.dest>>[1] = f.src
  BY <1>2 DEF AskedTo
<1> QED
  BY <1>1, <1>2, <1>3, <1>5, <1>6 DEF AskedTo

\* Two threads work for different sources.
LEMMA OtherSource ==
  ASSUME BlockInv, OneWriter, NEW t \in Threads, NEW u \in Threads, t # u,
         pc[t] # "idle", pc[u] # "idle"
  PROVE  frame[t].src # frame[u].src
<1>1. PICK d \in Adds[t] \cup Removes[t] : d[1] = frame[t].src
  BY AskedFound
<1>2. PICK e \in Adds[u] \cup Removes[u] : e[1] = frame[u].src
  BY AskedFound
<1> QED
  BY <1>1, <1>2 DEF OneWriter

----------------------------------------------------------------------------
(* Every write keeps the list well formed.                                 *)

\* An update of a value that is there already.
LEMMA UpdateWell ==
  ASSUME NEW L, WellFormed(L), NEW i \in Slots(L), NEW d \in 0 .. MaxU32 - 1,
         NEW v \in Values, ~IsNull(L.items[i]), L.items[i].dest = d
  PROVE  LET M == [L EXCEPT !.items[i].value = v]
             src == L.items[i].src
         IN  /\ WellFormed(M) /\ IsEdge(L.items[i])
             /\ \A p \in Slots(L) : IsNull(M.items[p]) <=> IsNull(L.items[p])
             /\ Ascending(L) => EdgesOf(M) = Without(L, src, d) \cup {<<src, d, v>>}
<1>1. IsList(L) /\ Numbered(Vertices(L))
  BY DEF WellFormed
<1>2. PICK old, new : old = L.items[i] /\ new = [old EXCEPT !.value = v]
  OBVIOUS
<1>3. ~IsNull(old) /\ old.dest # MaxU32
  <2>1. MaxU32 \in Nat
    BY MaxU32Assumption
  <2>2. d # MaxU32
    BY <2>1
  <2> QED
    BY <1>2, <2>2
<1>4. old \in EdgesFrom(Vertices(L)) /\ IsEdge(old)
  <2>1. \A w \in Vertices(L) : Sentinel(w).dest = MaxU32
    BY DEF Sentinel
  <2>2. Proper(old, Vertices(L))
    BY <1>2 DEF WellFormed, Placed, PlacedBut, Sole
  <2>3. old \in EdgesFrom(Vertices(L))
    BY <1>3, <2>1, <2>2 DEF Proper
  <2> QED
    BY <1>1, <2>3, Kinds
<1>5. new \in EdgesFrom(Vertices(L)) /\ new.src = old.src /\ new.dest = old.dest /\ new.value = v
  BY <1>2, <1>4 DEF EdgesFrom
<1>6. PICK M : M = [L EXCEPT !.items[i].value = v]
  OBVIOUS
<1>7. M = [L EXCEPT !.items[i] = new]
  <2>1. DOMAIN L.items = Slots(L)
    BY <1>1 DEF IsList
  <2> QED
    BY <1>1, <1>2, <1>6, <2>1 DEF IsList
<1>8. Wrote(L, M, i, new)
  BY <1>7 DEF Wrote
<1>9. WellFormed(M)
  BY <1>2, <1>4, <1>5, <1>8, ReplaceWell
<1>10. PICK src, dest : src = old.src /\ dest = old.dest
  OBVIOUS
<1>11. Ascending(L) => EdgesOf(M) = Without(L, src, dest) \cup {<<src, dest, new.value>>}
  <2>1. IsEdge(L.items[i]) /\ src = L.items[i].src /\ dest = L.items[i].dest
    BY <1>2, <1>4, <1>10
  <2>2. ASSUME Ascending(L)
        PROVE  new \in EdgesFrom(Vertices(L)) /\ new.src = src /\ new.dest = dest =>
                 EdgesOf(M) = Without(L, src, dest) \cup {<<src, dest, new.value>>}
    BY <1>8, <2>1, <2>2, ReplaceEdges
  <2> QED
    BY <1>5, <1>10, <2>2
<1>12. dest = d /\ new.value = v
  BY <1>2, <1>5, <1>10
<1>13. ASSUME NEW p \in Slots(L) PROVE IsNull(M.items[p]) <=> IsNull(L.items[p])
  <2>1. ~IsNull(new) /\ ~IsNull(L.items[i])
    BY <1>1, <1>5, Kinds
  <2>2. M.items[p] = IF p = i THEN new ELSE L.items[p]
    BY <1>1, <1>8 DEF Wrote, IsList
  <2> QED
    BY <2>1, <2>2
<1> QED
  BY <1>2, <1>4, <1>6, <1>9, <1>10, <1>11, <1>12, <1>13

\* The edge that a thread inserts.
LEMMA ElementFound ==
  ASSUME NEW f \in Frames, f.value \in Values
  PROVE  /\ Element(f) \in EdgesFrom(Vertices(list))
         /\ Element(f).src = f.src /\ Element(f).dest = f.dest /\ Element(f).value = f.value
         /\ f.src \in Vertices(list) /\ f.dest \in 0 .. MaxU32 - 1
<1>1. f.src \in Vertices(list) /\ f.dest \in 0 .. MaxU32 - 1
  BY DEF Frames
<1> QED
  BY <1>1 DEF Element, EdgesFrom

\* insert and remove inside the leaf locks, step by step.
LEMMA WritesWell ==
  ASSUME BlockInv, SlidesInside, NEW t \in Threads, Write(t) \/ SpreadLeaf(t) \/ SettleDensity(t)
  PROVE  /\ WellFormed(list')
         /\ Write(t) /\ OneWriter => Done(list, frame[t], EdgesOf(list'))
         /\ ~Write(t) => EdgesOf(list') = EdgesOf(list)
<1>1. pc[t] \in Writing /\ pc[t] # "idle"
  BY DEF Writing, Write, SpreadLeaf, SettleDensity
<1>2. PICK f, H : f = frame[t] /\ H = Locked(list, f.lo, f.hi)
  OBVIOUS
<1>3. /\ f.lo \in Nat /\ f.hi \in Nat /\ f.index \in Nat /\ f \in Frames
      /\ f.kind \in {"add", "remove"} /\ f.info \in Infos /\ IsList(list)
      /\ f.index \in H /\ Ready(list, f, pc[t]) /\ f.index \in Slots(list)
  BY <1>1, <1>2, WriterFound DEF BlockInv, SizeInv
<1>4. WellFormed(list) /\ Height(list.N) > 0 /\ Sure(list, f, pc[t], Busy(t))
  BY <1>2 DEF BlockInv, SizeInv, KeepsHeight, Laid
<1>5. H \subseteq Slots(list) /\ Convex(H)
  BY <1>2, <1>3, HeldFound
<1>6. FindLeaf(list, f.index) \in Slots(list)
  BY <1>3, <1>4, LeafInside DEF FindLeaf
<1>7. CASE Write(t)
  <2>1. pc[t] = "write"
    BY <1>7 DEF Write
  <2>2. /\ Located(list, f) /\ f.src \in Vertices(list) /\ f.dest \in 0 .. MaxU32 - 1 /\ f.dest \in Int
        /\ f.kind = "add" => f.value \in Values
    BY <1>1, <1>2, <1>4, <2>1, AskedFound DEF Sure
  <2>3. PICK src, dest, i : src = f.src /\ dest = f.dest /\ i = f.index
    OBVIOUS
  <2>4. FitsOrEnds(list, src, i) /\ (OneWriter => Splits(list, src, dest, i)) /\ (OneWriter => Ascending(list))
    BY <1>4, <2>2, <2>3 DEF Located, WellFormed
  <2>5. CASE f.kind = "add"
    <3>1. PICK e : e = Element(f)
      OBVIOUS
    <3>2. e \in EdgesFrom(Vertices(list)) /\ e.src = src /\ e.dest = dest /\ e.value = f.value
      BY <1>3, <2>2, <2>3, <2>5, <3>1, ElementFound
    <3>3. CASE Present(list, i, e) /\ list' = [list EXCEPT !.items[i].value = f.value]
      <4>1. ~IsNull(list.items[i]) /\ list.items[i].dest = dest
        BY <3>2, <3>3 DEF Present
      <4>2. PICK M : M = [list EXCEPT !.items[i].value = f.value]
        OBVIOUS
      <4>3. /\ WellFormed(M) /\ IsEdge(list.items[i])
            /\ Ascending(list) => EdgesOf(M) = Without(list, list.items[i].src, dest)
                                                 \cup {<<list.items[i].src, dest, f.value>>}
        BY <1>3, <1>4, <2>2, <2>3, <2>5, <4>1, <4>2, UpdateWell, SMTT(30)
      <4>4. list.items[i].src = src
        BY <1>3, <1>4, <2>2, <2>3, <2>4, <4>3, OwnEdge
      <4>5. OneWriter => Done(list, f, EdgesOf(M))
        BY <2>3, <2>4, <2>5, <4>3, <4>4 DEF Done
      <4> QED
        BY <1>2, <1>7, <3>3, <4>2, <4>3, <4>5
    <3>4. CASE ~Present(list, i, e) /\ list' = Put(list, i, e)
      <4>1. Room(list, i, H) /\ Spare(list, H)
        BY <1>2, <1>3, <2>1, <2>3, <2>5 DEF Ready
      <4>2. Slidable(list, i)
        BY <1>3, <1>5, <2>3, <4>1, RoomSlides
      <4>3. \/ IsNull(list.items[i])
            \/ NextNull(list, i) < list.N
            \/ ~IsSentinel(list.items[list.N - 1])
        BY <1>2, <2>1, <2>3, <2>5, <3>1, <3>4 DEF SlidesInside
      <4>4. Roomy(list, i)
        BY <4>2, <4>3 DEF Roomy, Slidable
      <4>5. ~IsSentinel(e) /\ (i = list.N - 1 => IsNull(list.items[i]))
        <5>1. IsEdge(e)
          BY <1>4, <3>2, Kinds DEF WellFormed
        <5> QED
          BY <1>4, <2>1, <2>3, <2>5, <5>1 DEF Sure, IsEdge
      <4>6. Fits(list, src, i)
        <5>1. ~IsNull(Sentinel(src))
          BY <1>4, <2>2, <2>3, Kinds DEF WellFormed
        <5> QED
          BY <2>4, <4>5, <5>1 DEF FitsOrEnds
      <4>7. OneWriter => Parted(list, src, dest, i)
        <5>1. ~(IsEdge(list.items[i]) /\ list.items[i].src = src /\ list.items[i].dest = dest)
          BY <3>2, <3>4, <4>5 DEF Present, IsEdge
        <5> QED
          BY <1>3, <1>4, <2>2, <2>3, <2>4, <4>5, <5>1, SplitsParted
      <4>8. PICK M : M = Put(list, i, e)
        OBVIOUS
      <4>9. WellFormed(M) /\ EdgesOf(M) = EdgesOf(list) \cup {<<src, dest, f.value>>}
        BY <1>3, <1>4, <2>3, <3>2, <4>4, <4>6, <4>7, <4>8, PutWell
      <4>10. OneWriter => Without(list, src, dest) = EdgesOf(list)
        BY <1>3, <1>4, <2>2, <2>3, <4>7, PartedWithout
      <4>11. OneWriter => Done(list, f, EdgesOf(M))
        BY <2>3, <2>5, <4>9, <4>10 DEF Done
      <4> QED
        BY <1>2, <1>7, <3>4, <4>8, <4>9, <4>11
    <3> QED
      BY <1>2, <1>7, <2>3, <2>5, <3>1, <3>3, <3>4 DEF Write
  <2>6. CASE f.kind = "remove"
    <3>1. PICK M : M = Erase(list, i)
      OBVIOUS
    <3>2. list' = M
      BY <1>2, <1>7, <2>3, <2>6, <3>1 DEF Write
    <3>3. IsEdge(list.items[i]) /\ list.items[i].src = src /\ list.items[i].dest = dest
      BY <1>4, <2>1, <2>3, <2>6 DEF Sure, Removable
    <3>4. WellFormed(M) /\ (Ascending(list) => EdgesOf(M) = Without(list, src, dest))
      BY <1>3, <1>4, <2>3, <3>1, <3>3, EraseWell
    <3>5. OneWriter => Done(list, f, EdgesOf(M))
      BY <2>3, <2>4, <2>6, <3>4 DEF Done
    <3> QED
      BY <1>2, <1>7, <3>2, <3>4, <3>5
  <2> QED
    BY <1>3, <2>5, <2>6
<1>8. CASE SpreadLeaf(t)
  <2>1. list' \in {EvenOut(list, f.index, LogN(list.N)),
                   Redistribute(list, FindLeaf(list, f.index), LogN(list.N))}
    BY <1>2, <1>8 DEF SpreadLeaf
  <2>2. ~Write(t)
    BY <1>8 DEF Write, SpreadLeaf
  <2> QED
    BY <1>3, <1>4, <2>1, <2>2, EvenOutWell
<1>9. CASE SettleDensity(t)
  <2>1. ~Write(t)
    BY <1>9 DEF Write, SettleDensity
  <2>2. CASE f.kind = "add"
    <3>1. list' = Settle(list, FindLeaf(list, f.index), f.info)
      BY <1>2, <1>9, <2>2 DEF SettleDensity
    <3>2. f.info.kind = "range" /\ Window(f.info.start, f.info.len) \subseteq H
      BY <1>1, <1>2, <1>3, <2>2 DEF Ready, Told
    <3>3. Window(f.info.start, f.info.len) \subseteq Slots(list)
      BY <1>5, <3>2
    <3>4. WellFormed(list') /\ EdgesOf(list') = EdgesOf(list)
      BY <1>3, <1>4, <1>6, <3>1, <3>3, SettleWell
    <3> QED
      BY <2>1, <3>4
  <2>3. CASE f.kind = "remove"
    <3>1. list' = SettleRemoval(list, FindLeaf(list, f.index))
      BY <1>2, <1>9, <2>3 DEF SettleDensity
    <3>2. WellFormed(list') /\ EdgesOf(list') = EdgesOf(list)
      BY <1>4, <1>6, <3>1, SettleRemovalWell
    <3> QED
      BY <2>1, <3>2
  <2> QED
    BY <1>3, <2>2, <2>3
<1> QED
  BY <1>7, <1>8, <1>9

\* In the exclusive section no leaf is half written.
LEMMA AloneBacked ==
  ASSUME BlockInv, NEW t \in Threads, pc[t] \in Alone
  PROVE  Backed(list)
<1>1. LockInv /\ global_lock[t] = "exclusive"
  BY DEF BlockInv, SizeInv, WriteInv, LeafInv, LockInv, ModeFollowsPc
<1>2. ASSUME NEW u \in Threads, pc[u] = "spread" PROVE FALSE
  <2>1. global_lock[u] = "shared" /\ u # t
    BY <1>1, <1>2 DEF LockInv, ModeFollowsPc, Inside, Alone
  <2> QED
    BY <1>1, <2>1 DEF LockInv, GlobalExclusion
<1> QED
  BY <1>2 DEF BlockInv, EndBacked

\* insert and remove in the exclusive section.
LEMMA AloneWell ==
  ASSUME BlockInv, SlidesInside, NEW t \in Threads, WriteAlone(t)
  PROVE  /\ WellFormed(list') /\ Backed(list')
         /\ OneWriter => Done(list, frame[t], EdgesOf(list'))
<1>1. pc[t] = "force"
  BY DEF WriteAlone
<1>2. PICK f, i, src, dest : /\ f = frame[t] /\ i = FindEdge(list, f.src, f.dest)
                             /\ src = f.src /\ dest = f.dest
  OBVIOUS
<1>3. f \in Frames /\ f.info \in {NoInfo, DoubleInfo}
  BY <1>1, <1>2, LocalsFound DEF BlockInv, SizeInv, Writing
<1>4. WellFormed(list) /\ Height(list.N) > 0 /\ Backed(list) /\ IsList(list)
  BY <1>1, AloneBacked DEF BlockInv, SizeInv, KeepsHeight, Laid, Alone, WellFormed
<1>5. /\ f.kind \in {"add", "remove"} /\ src \in Vertices(list) /\ dest \in 0 .. MaxU32 - 1 /\ dest \in Int
      /\ f.kind = "add" => f.value \in Values
  BY <1>1, <1>2, AskedFound
<1>6. i \in Slots(list) /\ FitsOrEnds(list, src, i)
  BY <1>2, <1>4, <1>5, FindFits DEF FitsOrEnds
<1>7. OneWriter => Splits(list, src, dest, i)
  BY <1>2, <1>4, <1>5, FindSplits DEF WellFormed
<1>8. CASE f.kind = "add"
  <2>1. PICK e : e = Element(f)
    OBVIOUS
  <2>2. e \in EdgesFrom(Vertices(list)) /\ e.src = src /\ e.dest = dest /\ e.value = f.value
    BY <1>2, <1>3, <1>5, <1>8, <2>1, ElementFound
  <2>3. Present(list, i, e) \/ i = list.N - 1 \/ Roomy(list, i)
    BY <1>1, <1>2, <1>8, <2>1 DEF SlidesInside
  <2>4. i = FindEdge(list, e.src, e.dest)
    BY <1>2, <2>2
  <2>5. PICK M : M = Insert(list, i, e, e.src, f.info)
    OBVIOUS
  <2>6. /\ WellFormed(M)
        /\ OneWriter => EdgesOf(M) = Without(list, e.src, e.dest) \cup {<<e.src, e.dest, e.value>>}
    BY <1>3, <1>4, <2>2, <2>3, <2>4, <2>5, InsertWell
  <2>7. Backed(M)
    BY <1>3, <1>4, <1>6, <2>2, <2>3, <2>5, InsertBacked
  <2>8. OneWriter => Done(list, f, EdgesOf(M))
    BY <1>2, <1>8, <2>2, <2>6 DEF Done
  <2>9. list' = M
    BY <1>2, <1>8, <2>1, <2>2, <2>5 DEF WriteAlone, Apply
  <2> QED
    BY <1>2, <2>6, <2>7, <2>8, <2>9
<1>9. CASE f.kind = "remove"
  <2>1. PICK M : M = Remove(list, i, dest)
    OBVIOUS
  <2>2. list' = M
    BY <1>2, <1>9, <2>1 DEF WriteAlone, Apply
  <2>3. WellFormed(M) /\ (OneWriter => EdgesOf(M) = Without(list, src, dest))
    BY <1>4, <1>5, <1>6, <1>7, <2>1, RemoveWell
  <2>4. Backed(M)
    BY <1>4, <1>6, <2>1, RemoveBacked
  <2>5. OneWriter => Done(list, f, EdgesOf(M))
    BY <1>2, <1>9, <2>3 DEF Done
  <2> QED
    BY <1>2, <2>2, <2>3, <2>4, <2>5
<1> QED
  BY <1>5, <1>8, <1>9

\* add_node.
LEMMA VertexWell ==
  ASSUME MaxVertices <= MaxU32, BlockInv, AddsAtFreeEnd, AddVertex
  PROVE  /\ WellFormed(list') /\ Backed(list') /\ EdgesOf(list') = EdgesOf(list)
         /\ Vertices(list') = 0 .. Cardinality(Vertices(list))
<1>1. WellFormed(list) /\ Height(list.N) > 0 /\ Cardinality(Vertices(list)) >= 2
  BY DEF BlockInv, SizeInv, KeepsHeight, Laid
<1>2. PICK n \in Nat : Vertices(list) = 0 .. n - 1 /\ Cardinality(Vertices(list)) = n
  BY <1>1, VerticesFound DEF WellFormed
<1>3. n < MaxVertices /\ MaxVertices \in Nat /\ MaxU32 \in Nat
  BY <1>2, InputsAssumption, MaxU32Assumption DEF AddVertex
<1>4. Numbered(0 .. n)
  BY <1>3 DEF Numbered
<1>5. Vertices(list) # {}
  <2>1. n >= 2
    BY <1>1, <1>2
  <2>2. 0 \in Vertices(list)
    BY <1>2, <2>1
  <2> QED
    BY <2>2
<1>6. IsNull(list.items[list.N - 1])
  BY DEF AddsAtFreeEnd
<1>7. /\ WellFormed(AddNode(list)) /\ Backed(AddNode(list)) /\ EdgesOf(AddNode(list)) = EdgesOf(list)
      /\ Vertices(AddNode(list)) = 0 .. Cardinality(Vertices(list))
  BY <1>1, <1>2, <1>4, <1>5, <1>6, AddNodeWell
<1> QED
  BY <1>7 DEF AddVertex

----------------------------------------------------------------------------
(* What the threads rely on, step by step.                                 *)

\* Where nothing was searched yet, nothing is sure.
LEMMA SureEarly ==
  ASSUME NEW L, NEW f, NEW at \in PCs \ ({"load", "lock"} \cup Holding), NEW busy
  PROVE  Sure(L, f, at, busy)
BY DEF Sure, Holding

\* The call stays the same, and what its search has found.
SameCall(f, g) ==
  /\ g.kind = f.kind /\ g.src = f.src /\ g.dest = f.dest
  /\ g.index = f.index /\ g.fresh = f.fresh

\* A step of t on the list as it is, which takes it on.
LEMMA BlockMoves ==
  ASSUME BlockInv, UNCHANGED <<lock_bsearch, list>>, NEW t \in Threads,
         pc[t] \notin Writing \cup {"release"}, NEW to, NEW g,
         Goto(t, to), SetFrame(t, g) \/ (UNCHANGED frame /\ g = frame[t]),
         \A u \in Threads \ {t} : exclusive'[u] = exclusive[u],
         Sure(list, g, to, Busy(t)), Ranged(list, g, to)
  PROVE  Laid'
<1>1. DOMAIN pc = Threads /\ DOMAIN frame = Threads
  BY DEF BlockInv, SizeInv, WriteInv, LeafInv, LockInv, Typed, FramesTyped
<1>2. pc'[t] = to /\ frame'[t] = g
  BY <1>1 DEF Goto, SetFrame
<1>3. \A u \in Threads \ {t} : pc'[u] = pc[u] /\ frame'[u] = frame[u]
  BY <1>1 DEF Goto, SetFrame
<1>4. Busy(t)' = Busy(t)
  BY <1>3 DEF Busy
<1>5. ASSUME NEW u \in Threads \ {t} PROVE Busy(u) \subseteq Busy(u)'
  BY <1>3 DEF Busy
<1>6. ASSUME NEW u \in Threads
      PROVE  Sure(list', frame'[u], pc'[u], Busy(u)') /\ Ranged(list, frame'[u], pc'[u])
  <2>1. CASE u = t
    BY <1>2, <1>4, <2>1
  <2>2. CASE u # t
    <3>1. Sure(list, frame[u], pc[u], Busy(u)) /\ Ranged(list, frame[u], pc[u])
      BY DEF BlockInv, Laid
    <3>2. Sure(list, frame[u], pc[u], Busy(u)')
      BY <1>5, <2>2, <3>1 DEF Sure
    <3> QED
      BY <1>3, <2>2, <3>1, <3>2
  <2> QED
    BY <2>1, <2>2
<1>7. \A u \in Threads : Ranged(list, frame'[u], pc'[u]) => Ranged(list, frame[u], pc[u])'
  BY DEF Ranged
<1>8. WellFormed(list')
  BY DEF BlockInv, Laid
<1> QED
  BY <1>6, <1>7, <1>8 DEF Laid

\* The locals of t, and what it is sure of.
LEMMA SureFound ==
  ASSUME BlockInv, NEW t \in Threads, pc[t] # "idle"
  PROVE  /\ frame[t] \in Frames /\ WellFormed(list) /\ IsList(list)
         /\ Sure(list, frame[t], pc[t], Busy(t)) /\ Ranged(list, frame[t], pc[t])
BY LocalsFound DEF BlockInv, SizeInv, Laid

\* add_edge and remove_edge are called.
LEMMA BlockBegin ==
  ASSUME BlockInv, UNCHANGED lock_bsearch, NEW t \in Threads, Begin(t)
  PROVE  Laid'
<1>1. pc[t] = "idle" /\ UNCHANGED <<list, exclusive>>
  BY DEF Begin, BeginAdd, BeginRemove
<1>2. PICK k, s, d, v : SetFrame(t, Frame(k, s, d, v, 0)) /\ Goto(t, "call")
  BY DEF Begin, BeginAdd, BeginRemove
<1>3. PICK g : g = Frame(k, s, d, v, 0)
  OBVIOUS
<1>4. Sure(list, g, "call", Busy(t)) /\ Ranged(list, g, "call")
  BY SureEarly DEF PCs, Holding, Ranged
<1>5. pc[t] \notin Writing \cup {"release"}
  BY <1>1 DEF Writing
<1> QED
  BY <1>1, <1>2, <1>3, <1>4, <1>5, BlockMoves

\* The call is made again, changes to the exclusive section, or returns.
LEMMA BlockOut ==
  ASSUME BlockInv, UNCHANGED <<lock_bsearch, list>>, NEW t \in Threads, pc[t] # "idle",
         pc[t] \notin Writing \cup {"release"},
         \A u \in Threads \ {t} : exclusive'[u] = exclusive[u],
         \/ CallAgain(t)
         \/ \E info : Escalate(t, info)
         \/ Return(t)
  PROVE  Laid'
<1>1. ASSUME NEW to \in {"call", "upgrade", "idle"}, NEW g, Goto(t, to), SetFrame(t, g) PROVE Laid'
  <2>1. Sure(list, g, to, Busy(t)) /\ Ranged(list, g, to)
    BY SureEarly DEF PCs, Holding, Ranged
  <2> QED
    BY <1>1, <2>1, BlockMoves
<1>2. CASE CallAgain(t)
  BY <1>1, <1>2 DEF CallAgain
<1>3. CASE \E info : Escalate(t, info)
  BY <1>1, <1>3 DEF Escalate
<1>4. CASE Return(t)
  BY <1>1, <1>4 DEF Return
<1> QED
  BY <1>2, <1>3, <1>4

\* The sections of the global lock are entered, the range of the source is read,
\* and its leaves are locked shared.
LEMMA BlockEnter ==
  ASSUME BlockInv, UNCHANGED lock_bsearch, NEW t \in Threads,
         CallForced(t) \/ Call(t) \/ Snap(t) \/ Upgrade(t) \/ ShareLeaf(t)
  PROVE  Laid'
<1>1. pc[t] \in {"call", "snap", "share", "upgrade"} /\ UNCHANGED <<list, exclusive>>
  BY DEF CallForced, Call, Snap, Upgrade, ShareLeaf
<1>2. PICK f : f = frame[t]
  OBVIOUS
<1>3. pc[t] # "idle" /\ pc[t] \notin Writing \cup {"release"}
  BY <1>1 DEF Writing
<1>4. f \in Frames /\ Sure(list, f, pc[t], Busy(t)) /\ Ranged(list, f, pc[t])
  BY <1>2, <1>3, SureFound
<1>6. ASSUME NEW to \in {"snap", "share", "search", "force"}, NEW g, Goto(t, to),
             SetFrame(t, g) \/ (UNCHANGED frame /\ g = frame[t]), Ranged(list, g, to)
      PROVE  Laid'
  <2>1. Sure(list, g, to, Busy(t))
    BY SureEarly DEF PCs, Holding
  <2> QED
    BY <1>1, <1>3, <1>6, <2>1, BlockMoves
<1>7. CASE CallForced(t) \/ Upgrade(t)
  <2>1. Goto(t, "force") /\ UNCHANGED frame
    BY <1>7 DEF CallForced, Upgrade
  <2>2. Ranged(list, f, "force")
    BY DEF Ranged
  <2> QED
    BY <1>2, <1>6, <2>1, <2>2
<1>8. CASE Call(t)
  <2>1. PICK g : g = [f EXCEPT !.beginning = list.nodes[f.src].beginning]
    OBVIOUS
  <2>2. SetFrame(t, g) /\ Goto(t, "snap")
    BY <1>2, <1>8, <2>1 DEF Call
  <2>3. g.src = f.src /\ g.beginning = list.nodes[f.src].beginning
    BY <1>4, <2>1 DEF Frames
  <2>4. Ranged(list, g, "snap")
    BY <2>3 DEF Ranged
  <2> QED
    BY <1>6, <2>2, <2>3, <2>4
<1>9. CASE Snap(t)
  <2>1. pc[t] = "snap"
    BY <1>9 DEF Snap
  <2>2. PICK h : h = [f EXCEPT !.end = list.nodes[f.src].end]
    OBVIOUS
  <2>3. PICK x : x = FirstNode(h)
    OBVIOUS
  <2>4. PICK g : g = [h EXCEPT !.next = x]
    OBVIOUS
  <2>5. /\ SetFrame(t, g)
        /\ Goto(t, IF lock_bsearch /\ x <= LastNode(h) THEN "share" ELSE "search")
    BY <1>2, <1>9, <2>2, <2>3, <2>4 DEF Snap
  <2>6. g.src = f.src /\ g.beginning = f.beginning /\ g.end = list.nodes[f.src].end
    BY <1>4, <2>2, <2>4 DEF Frames
  <2>7. CASE lock_bsearch /\ x <= LastNode(h)
    <3>1. Goto(t, "share") /\ Ranged(list, g, "share")
      BY <2>5, <2>7 DEF Ranged
    <3> QED
      BY <1>6, <2>5, <2>6, <3>1
  <2>8. CASE ~(lock_bsearch /\ x <= LastNode(h))
    <3>1. Goto(t, "search") /\ Ranged(list, g, "search")
      BY <1>4, <2>1, <2>5, <2>6, <2>8 DEF Ranged
    <3> QED
      BY <1>6, <2>5, <2>6, <3>1
  <2> QED
    BY <2>7, <2>8
<1>10. CASE ShareLeaf(t)
  <2>1. PICK x : x = f.next + 1
    OBVIOUS
  <2>2. PICK g : g = [f EXCEPT !.next = x]
    OBVIOUS
  <2>3. pc[t] = "share" /\ SetFrame(t, g) /\ (Goto(t, "share") \/ Goto(t, "search"))
    BY <1>2, <1>10, <2>1, <2>2 DEF ShareLeaf
  <2>4. lock_bsearch
    BY <1>4, <2>3 DEF Ranged
  <2>5. Ranged(list, g, "share") /\ Ranged(list, g, "search")
    BY <2>4 DEF Ranged
  <2> QED
    BY <1>6, <2>3, <2>5
<1> QED
  BY <1>7, <1>8, <1>9, <1>10

\* Who searches without leaf locks is the only thread.
LEMMA OnlyThread ==
  ASSUME Exact, ~lock_bsearch, NEW t \in Threads, NEW u \in Threads
  PROVE  t = u
<1>1. IsFiniteSet(Threads) /\ Cardinality(Threads) = 1
  BY DEF Exact
<1>2. PICK x : Threads = {x}
  BY <1>1, FS_Singleton
<1> QED
  BY <1>2

\* A thread holds the leaf of its slot ...
LEMMA HoldsLeaf ==
  ASSUME WriteInv, NEW t \in Threads, pc[t] \in Holding
  PROVE  LeafId(list, frame[t].index) \in exclusive[t]
<1>1. frame[t] \in Frames /\ Ready(list, frame[t], pc[t]) /\ HeldBy(t) /\ IsList(list)
  <2>1. pc[t] # "idle"
    BY DEF Holding
  <2> QED
    BY <2>1, LocalsFound DEF WriteInv, LeafInv
<1>2. PICK x, lo, hi : x = LeafId(list, frame[t].index) /\ lo = frame[t].lo /\ hi = frame[t].hi
  OBVIOUS
<1>3. lo <= x /\ x <= hi /\ exclusive[t] = lo .. hi
  BY <1>1, <1>2 DEF Ready, HeldBy
<1>4. x \in Nat /\ lo \in Nat /\ hi \in Nat
  <2>1. frame[t].index \in Nat /\ lo \in Nat /\ hi \in Nat
    BY <1>1, <1>2 DEF Frames
  <2> QED
    BY <1>1, <1>2, <2>1, LeafFound
<1> QED
  BY <1>2, <1>3, <1>4

\* ... and nobody else is changing it.
LEMMA OwnLeaf ==
  ASSUME WriteInv, NEW t \in Threads, pc[t] \in Holding
  PROVE  LeafId(list, frame[t].index) \notin Busy(t)
BY HoldsLeaf DEF Busy, WriteInv, LeafInv, LeafExclusion

\* While a search holds the last leaf, nobody has put an element there.
LEMMA SearchBacked ==
  ASSUME BlockInv, NEW t \in Threads, pc[t] = "search",
         list.nodes[frame[t].src].beginning = frame[t].beginning,
         list.nodes[frame[t].src].end = frame[t].end,
         frame[t].beginning # list.N - 1, frame[t].end = list.N - 1
  PROVE  Backed(list)
<1>1. PICK f, b : f = frame[t] /\ b = f.beginning
  OBVIOUS
<1>2. /\ f \in Frames /\ IsList(list) /\ WellFormed(list) /\ WriteInv /\ LeafExclusion
      /\ list.N \in Nat \ {0} /\ f.src \in Vertices(list)
  <2>1. f \in Frames /\ IsList(list)
    BY <1>1, LocalsFound DEF BlockInv, SizeInv
  <2> QED
    BY <2>1, SlotsFound DEF BlockInv, SizeInv, WriteInv, LeafInv, Laid, Frames
<1>3. b \in Slots(list) /\ b # list.N - 1
  BY <1>1, <1>2, RangeFound
<1>4. b + 1 \in Nat /\ b + 1 <= list.N - 1 /\ list.N - 1 \in Nat
  BY <1>2, <1>3 DEF Slots
<1>5. PICK last : last = LeafId(list, list.N - 1)
  OBVIOUS
<1>6. LastNode(f) = last /\ FirstNode(f) <= last
  BY <1>1, <1>2, <1>4, <1>5, LeafFound DEF FirstNode, LastNode
<1>7. CASE lock_bsearch
  <2>1. last \in shared[t]
    BY <1>1, <1>6, <1>7 DEF BlockInv, Sharing, Shares
  <2>2. ASSUME NEW u \in Threads, pc[u] = "spread", LeafId(list, frame[u].index) = last PROVE FALSE
    <3>1. last \in exclusive[u]
      BY <1>2, <2>2, HoldsLeaf DEF Holding
    <3> QED
      BY <1>2, <2>1, <2>2, <3>1 DEF LeafExclusion
  <2> QED
    BY <1>5, <2>2 DEF BlockInv, EndBacked
<1>8. CASE ~lock_bsearch
  <2>1. \A u \in Threads : pc[u] # "spread"
    BY <1>8, OnlyThread DEF BlockInv
  <2> QED
    BY <2>1 DEF BlockInv, EndBacked
<1> QED
  BY <1>7, <1>8

\* A search that is not made again was that of FindEdge in the list as it is.
LEMMA SearchExact ==
  ASSUME BlockInv, NEW t \in Threads, pc[t] = "search", ~(lock_bsearch /\ Moved(frame[t])),
         NEW i \in Found(t)
  PROVE  /\ i = FindEdge(list, frame[t].src, frame[t].dest)
         /\ OneWriter => Splits(list, frame[t].src, frame[t].dest, i)
<1>1. PICK f, b, e : f = frame[t] /\ b = f.beginning /\ e = f.end
  OBVIOUS
<1>2. Ranged(list, f, "search")
  BY <1>1 DEF BlockInv, Laid
<1>3. list.nodes[f.src].beginning = b /\ list.nodes[f.src].end = e
  <2>1. CASE lock_bsearch
    BY <1>1, <2>1 DEF Moved
  <2>2. CASE ~lock_bsearch
    BY <1>1, <1>2, <2>2 DEF Ranged
  <2> QED
    BY <2>1, <2>2
<1>4. ~(~lock_bsearch /\ Disturbed(t, FirstNode(f), LastNode(f)))
  BY OnlyThread DEF Disturbed, BlockInv
<1>5. i = BinarySearch(list, f.dest, b + 1, e)
  BY <1>1, <1>4 DEF Found
<1>6. i = BinarySearch(list, f.dest, list.nodes[f.src].beginning + 1, list.nodes[f.src].end)
  BY <1>3, <1>5, Zenon
<1>7. i = FindEdge(list, f.src, f.dest)
  BY <1>6 DEF FindEdge
<1>8. b # list.N - 1 /\ e = list.N - 1 => Backed(list)
  BY <1>1, <1>3, SearchBacked
<1>9. WellFormed(list) /\ f.src \in Vertices(list) /\ f.dest \in Int
  BY <1>1, AskedFound DEF BlockInv, Laid
<1>10. OneWriter => Splits(list, f.src, f.dest, i)
  BY <1>3, <1>7, <1>8, <1>9, FindSplits DEF WellFormed
<1> QED
  BY <1>1, <1>7, <1>10

\* The slot is searched.
LEMMA BlockSearch ==
  ASSUME BlockInv, UNCHANGED lock_bsearch, NEW t \in Threads, Search(t)
  PROVE  Laid'
<1>1. pc[t] = "search"
  BY DEF Search
<1>2. PICK f : f = frame[t]
  OBVIOUS
<1>3. pc[t] # "idle" /\ pc[t] \notin Writing \cup {"release"}
  BY <1>1 DEF Writing
<1>4. f \in Frames /\ Sure(list, f, pc[t], Busy(t)) /\ WellFormed(list)
  BY <1>2, <1>3, SureFound
<1>5. PICK i \in Found(t) :
        LET node == LeafId(list, i)
            lo == IF f.kind = "add" /\ ~lock_bsearch /\ node > 0 THEN node - 1 ELSE node
        IN  IF \/ lock_bsearch /\ Moved(f)
               \/ ~lock_bsearch /\ f.kind = "add" /\ node < FirstNode(f)
            THEN CallAgain(t) /\ UNCHANGED <<list, exclusive>>
            ELSE /\ SetFrame(t, [f EXCEPT !.index = i, !.lo = lo, !.hi = node, !.next = lo])
                 /\ Goto(t, IF lock_bsearch THEN "lock" ELSE "load")
                 /\ UNCHANGED <<list, global_lock, exclusive>>
  BY <1>2, Zenon DEF Search
<1>6. PICK node, lo : /\ node = LeafId(list, i)
                      /\ lo = IF f.kind = "add" /\ ~lock_bsearch /\ node > 0 THEN node - 1 ELSE node
  OBVIOUS
<1>7. \/ CallAgain(t) /\ UNCHANGED <<list, exclusive>>
      \/ /\ ~(lock_bsearch /\ Moved(f))
         /\ SetFrame(t, [f EXCEPT !.index = i, !.lo = lo, !.hi = node, !.next = lo])
         /\ Goto(t, IF lock_bsearch THEN "lock" ELSE "load")
         /\ UNCHANGED <<list, exclusive>>
  BY <1>5, <1>6
<1>8. CASE CallAgain(t) /\ UNCHANGED <<list, exclusive>>
  BY <1>3, <1>8, BlockOut
<1>9. CASE /\ ~(lock_bsearch /\ Moved(f))
           /\ SetFrame(t, [f EXCEPT !.index = i, !.lo = lo, !.hi = node, !.next = lo])
           /\ Goto(t, IF lock_bsearch THEN "lock" ELSE "load")
           /\ UNCHANGED <<list, exclusive>>
  <2>1. i = FindEdge(list, f.src, f.dest) /\ (OneWriter => Splits(list, f.src, f.dest, i))
    BY <1>1, <1>2, <1>9, SearchExact
  <2>2. f.src \in Vertices(list)
    BY <1>4 DEF Frames
  <2>3. i \in Slots(list) /\ FitsOrEnds(list, f.src, i)
    BY <1>4, <2>1, <2>2, FindFits DEF FitsOrEnds
  <2>4. PICK g : g = [f EXCEPT !.index = i, !.lo = lo, !.hi = node, !.next = lo]
    OBVIOUS
  <2>5. g.src = f.src /\ g.dest = f.dest /\ g.index = i
    BY <1>4, <2>4 DEF Frames
  <2>6. Located(list, g)
    BY <2>1, <2>3, <2>5 DEF Located
  <2>7. PICK to : to = IF lock_bsearch THEN "lock" ELSE "load"
    OBVIOUS
  <2>8. Goto(t, to) /\ SetFrame(t, g) /\ to \in {"lock", "load"}
    BY <1>9, <2>4, <2>7
  <2>9. Sure(list, g, to, Busy(t))
    BY <2>3, <2>5, <2>6, <2>8 DEF Sure
  <2>10. Ranged(list, g, to)
    BY <2>7 DEF Ranged
  <2> QED
    BY <1>3, <1>9, <2>8, <2>9, <2>10, BlockMoves
<1> QED
  BY <1>7, <1>8, <1>9

\* Its version is loaded, and the first leaves are locked.
LEMMA BlockLock ==
  ASSUME BlockInv, UNCHANGED lock_bsearch, NEW t \in Threads, LoadVersion(t) \/ LockLeaf(t)
  PROVE  Laid'
<1>1. pc[t] \in {"load", "lock"} /\ UNCHANGED list
  BY DEF LoadVersion, LockLeaf
<1>2. PICK f : f = frame[t]
  OBVIOUS
<1>3. pc[t] # "idle" /\ pc[t] \notin Writing \cup {"release"}
  BY <1>1 DEF Writing
<1>4. f \in Frames /\ Sure(list, f, pc[t], Busy(t))
  BY <1>2, <1>3, SureFound
<1>5. \A to \in {"lock", "check"} : \A g : SameCall(f, g) =>
        Sure(list, g, to, Busy(t)) /\ Ranged(list, g, to)
  BY <1>1, <1>4 DEF Sure, Ranged, SameCall, Holding, Located
<1>6. \A u \in Threads \ {t} : exclusive'[u] = exclusive[u]
  <2>1. DOMAIN exclusive = Threads
    BY DEF BlockInv, SizeInv, WriteInv, LeafInv, LockInv, Typed
  <2> QED
    BY <2>1 DEF LoadVersion, LockLeaf
<1>7. CASE LoadVersion(t)
  <2>1. Goto(t, "lock") /\ UNCHANGED frame
    BY <1>7 DEF LoadVersion
  <2>2. Sure(list, f, "lock", Busy(t)) /\ Ranged(list, f, "lock")
    BY <1>5 DEF SameCall
  <2> QED
    BY <1>1, <1>2, <1>3, <1>6, <2>1, <2>2, BlockMoves
<1>8. CASE LockLeaf(t)
  <2>1. PICK x : x = f.next + 1
    OBVIOUS
  <2>2. PICK g : g = [f EXCEPT !.next = x]
    OBVIOUS
  <2>3. SetFrame(t, g) /\ (Goto(t, "lock") \/ Goto(t, "check"))
    BY <1>2, <1>8, <2>1, <2>2 DEF LockLeaf
  <2>4. SameCall(f, g)
    BY <1>4, <2>2 DEF Frames, SameCall
  <2>5. /\ Sure(list, g, "lock", Busy(t)) /\ Ranged(list, g, "lock")
        /\ Sure(list, g, "check", Busy(t)) /\ Ranged(list, g, "check")
    BY <1>5, <2>4
  <2> QED
    BY <1>1, <1>3, <1>6, <2>3, <2>5, BlockMoves
<1> QED
  BY <1>7, <1>8

\* One leaf more.
LEMMA BlockExtend ==
  ASSUME BlockInv, UNCHANGED lock_bsearch, NEW t \in Threads, pc[t] \in {"check", "plan"}, Extend(t)
  PROVE  Laid'
<1>1. PICK f, x : f = frame[t] /\ x = f.hi + 1
  OBVIOUS
<1>2. PICK g : g = [f EXCEPT !.hi = x]
  OBVIOUS
<1>3. SetFrame(t, g) /\ UNCHANGED <<list, pc>>
  BY <1>1, <1>2 DEF Extend
<1>4. pc[t] # "idle" /\ pc[t] \notin Writing \cup {"release"}
  BY DEF Writing
<1>5. f \in Frames /\ Sure(list, f, pc[t], Busy(t)) /\ Ranged(list, f, pc[t])
  BY <1>1, <1>4, SureFound
<1>6. SameCall(f, g)
  BY <1>2, <1>5 DEF Frames, SameCall
<1>7. Sure(list, g, pc[t], Busy(t)) /\ Ranged(list, g, pc[t])
  BY <1>5, <1>6 DEF Sure, Ranged, SameCall, Located, Removable
<1>8. DOMAIN exclusive = Threads /\ DOMAIN pc = Threads
  BY DEF BlockInv, SizeInv, WriteInv, LeafInv, LockInv, Typed
<1>9. Goto(t, pc[t]) /\ \A u \in Threads \ {t} : exclusive'[u] = exclusive[u]
  <2>1. pc' = [pc EXCEPT ![t] = pc[t]]
    <3>1. [pc EXCEPT ![t] = pc[t]] = pc
      BY DEF BlockInv, SizeInv, WriteInv, LeafInv, LockInv, Typed
    <3> QED
      BY <1>3, <3>1
  <2> QED
    BY <1>8, <2>1 DEF Extend, Goto
<1> QED
  BY <1>3, <1>4, <1>7, <1>9, BlockMoves

\* The checks: a search that is not out of date was right, and its leaf is locked
\* now.
LEMMA BlockCheck ==
  ASSUME BlockInv, UNCHANGED lock_bsearch, NEW t \in Threads, CheckInsert(t) \/ CheckRemove(t)
  PROVE  Laid'
<1>1. pc[t] = "check"
  BY DEF CheckInsert, CheckRemove
<1>2. PICK f, i : f = frame[t] /\ i = f.index
  OBVIOUS
<1>3. pc[t] # "idle" /\ pc[t] \notin Writing \cup {"release"}
  BY <1>1 DEF Writing
<1>4. f \in Frames /\ Sure(list, f, pc[t], Busy(t)) /\ WellFormed(list)
  BY <1>2, <1>3, SureFound
<1>5. LeafId(list, i) \notin Busy(t)
  BY <1>1, <1>2, OwnLeaf DEF Holding, BlockInv, SizeInv
<1>6. i \in Slots(list) /\ (f.fresh => Located(list, f))
  BY <1>1, <1>2, <1>4, <1>5 DEF Sure, Holding
<1>7. ASSUME Goto(t, "plan"), UNCHANGED <<list, global_lock, shared, exclusive, frame>>, f.fresh,
             f.kind = "add" => (i = list.N - 1 => IsNull(list.items[i])),
             f.kind = "remove" => Removable(list, f)
      PROVE  Laid'
  <2>1. Sure(list, f, "plan", Busy(t)) /\ Ranged(list, f, "plan")
    BY <1>2, <1>6, <1>7 DEF Sure, Ranged
  <2> QED
    BY <1>2, <1>3, <1>7, <2>1, BlockMoves
<1>8. CASE Extend(t)
  BY <1>1, <1>8, BlockExtend
<1>9. DOMAIN exclusive = Threads
  BY DEF BlockInv, SizeInv, WriteInv, LeafInv, LockInv, Typed
<1>10. CASE Retry(t)
  <2>1. UNCHANGED list /\ CallAgain(t) /\ \A u \in Threads \ {t} : exclusive'[u] = exclusive[u]
    BY <1>9, <1>10 DEF Retry, ReleaseLeaves
  <2> QED
    BY <1>3, <2>1, BlockOut
<1>11. CASE Escalate(t, NoInfo)
  <2>1. UNCHANGED list /\ \A u \in Threads \ {t} : exclusive'[u] = exclusive[u]
    BY <1>9, <1>11 DEF Escalate, ReleaseLeaves
  <2> QED
    BY <1>3, <1>11, <2>1, BlockOut
<1>12. CASE Return(t) /\ UNCHANGED <<list, shared>>
  <2>1. UNCHANGED list /\ \A u \in Threads \ {t} : exclusive'[u] = exclusive[u]
    BY <1>9, <1>12 DEF Return, ReleaseLeaves
  <2> QED
    BY <1>3, <1>12, <2>1, BlockOut
<1>13. CASE CheckInsert(t)
  <2>1. \/ Extend(t) \/ Retry(t) \/ Escalate(t, NoInfo)
        \/ /\ f.kind = "add" /\ f.fresh /\ ~(i = list.N - 1 /\ ~IsNull(list.items[i]))
           /\ Goto(t, "plan") /\ UNCHANGED <<list, global_lock, shared, exclusive, frame>>
    BY <1>2, <1>13 DEF CheckInsert
  <2> QED
    BY <1>7, <1>8, <1>10, <1>11, <2>1
<1>14. CASE CheckRemove(t)
  <2>1. \/ Extend(t) \/ Retry(t) \/ (Return(t) /\ UNCHANGED <<list, shared>>)
        \/ /\ f.kind = "remove" /\ f.fresh /\ ~(IsNull(list.items[i]) \/ list.items[i].dest # f.dest)
           /\ Goto(t, "plan") /\ UNCHANGED <<list, global_lock, shared, exclusive, frame>>
    BY <1>2, <1>14 DEF CheckRemove
  <2>2. ASSUME f.fresh, ~(IsNull(list.items[i]) \/ list.items[i].dest # f.dest)
        PROVE  Removable(list, f)
    <3>1. f.dest \in 0 .. MaxU32 - 1 /\ MaxU32 \in Nat
      BY <1>4, MaxU32Assumption DEF Frames
    <3>2. list.items[i].dest # MaxU32
      BY <2>2, <3>1
    <3>3. \A w \in Vertices(list) : Sentinel(w).dest = MaxU32
      BY DEF Sentinel
    <3>4. IsEdge(list.items[i])
      BY <1>4, <1>6, <2>2, <3>2, <3>3, SlotHolds
    <3>5. FitsOrEnds(list, f.src, i) /\ f.src \in Vertices(list)
      BY <1>2, <1>4, <1>6, <2>2 DEF Located, Frames
    <3>6. list.items[i].src = f.src
      BY <1>4, <1>6, <3>4, <3>5, OwnEdge
    <3> QED
      BY <1>2, <2>2, <3>4, <3>6 DEF Removable
  <2> QED
    BY <1>7, <1>8, <1>10, <1>12, <2>1, <2>2
<1> QED
  BY <1>13, <1>14

\* The decision of acquire_insert_locks and acquire_remove_locks is carried out.
LEMMA BlockPlan ==
  ASSUME BlockInv, UNCHANGED lock_bsearch, NEW t \in Threads, Plan(t)
  PROVE  Laid'
<1>1. PICK d, f : d = Decision(t) /\ f = frame[t]
  OBVIOUS
<1>2. /\ pc[t] = "plan"
      /\ \/ Extend(t)
         \/ Restarted(t, d.from)
         \/ Escalate(t, d.info)
         \/ /\ SetFrame(t, [f EXCEPT !.info = d.info])
            /\ Goto(t, "write")
            /\ UNCHANGED <<list, global_lock, shared, exclusive>>
  BY <1>1 DEF Plan
<1>3. pc[t] # "idle" /\ pc[t] \notin Writing \cup {"release"}
  BY <1>2 DEF Writing
<1>4. f \in Frames /\ Sure(list, f, "plan", Busy(t)) /\ WellFormed(list)
  BY <1>1, <1>2, <1>3, SureFound
<1>5. DOMAIN exclusive = Threads
  BY DEF BlockInv, SizeInv, WriteInv, LeafInv, LockInv, Typed
<1>6. ASSUME NEW info, Escalate(t, info) PROVE Laid'
  <2>1. UNCHANGED list /\ \A u \in Threads \ {t} : exclusive'[u] = exclusive[u]
    BY <1>5, <1>6 DEF Escalate, ReleaseLeaves
  <2> QED
    BY <1>3, <1>6, <2>1, BlockOut
<1>7. CASE Restarted(t, d.from)
  <2>1. ASSUME NEW tries, NEW hi, Goto(t, "lock"), UNCHANGED list, ReleaseLeaves(t),
               SetFrame(t, [f EXCEPT !.tries = tries, !.lo = d.from, !.next = d.from, !.hi = hi])
        PROVE  Laid'
    <3>1. PICK g : g = [f EXCEPT !.tries = tries, !.lo = d.from, !.next = d.from, !.hi = hi]
      OBVIOUS
    <3>2. SameCall(f, g)
      BY <1>4, <3>1 DEF Frames, SameCall
    <3>3. Sure(list, g, "lock", Busy(t))
      BY <1>4, <3>2 DEF Sure, SameCall, Located, Holding
    <3>4. Ranged(list, g, "lock") /\ SetFrame(t, g)
      BY <2>1, <3>1 DEF Ranged
    <3>5. \A u \in Threads \ {t} : exclusive'[u] = exclusive[u]
      BY <1>5, <2>1 DEF ReleaseLeaves
    <3> QED
      BY <1>3, <2>1, <3>3, <3>4, <3>5, BlockMoves
  <2> QED
    BY <1>1, <1>6, <1>7, <2>1 DEF Restarted
<1>8. CASE /\ SetFrame(t, [f EXCEPT !.info = d.info])
           /\ Goto(t, "write")
           /\ UNCHANGED <<list, global_lock, shared, exclusive>>
  <2>1. PICK g : g = [f EXCEPT !.info = d.info]
    OBVIOUS
  <2>2. SameCall(f, g)
    BY <1>4, <2>1 DEF Frames, SameCall
  <2>3. Sure(list, g, "write", Busy(t)) /\ Ranged(list, g, "write")
    BY <1>4, <2>2 DEF Sure, SameCall, Ranged, Holding, Located, Removable
  <2> QED
    BY <1>3, <1>8, <2>1, <2>3, BlockMoves
<1> QED
  BY <1>2, <1>6, <1>7, <1>8, BlockExtend

\* release_locks: who was searching in a leaf that t had changed learns of it.
LEMMA BlockRelease ==
  ASSUME BlockInv, UNCHANGED lock_bsearch, NEW t \in Threads, ReleaseLocks(t)
  PROVE  Laid'
<1>1. DOMAIN pc = Threads /\ DOMAIN frame = Threads /\ DOMAIN exclusive = Threads
  BY DEF BlockInv, SizeInv, WriteInv, LeafInv, LockInv, Typed, FramesTyped
<1>2. /\ UNCHANGED list /\ pc'[t] = "idle" /\ frame'[t] = NoFrame /\ pc[t] = "release"
      /\ \A u \in Threads \ {t} : pc'[u] = pc[u] /\ exclusive'[u] = exclusive[u]
  BY <1>1 DEF ReleaseLocks, Goto, ReleaseLeaves
<1>3. ASSUME NEW u \in Threads \ {t}
      PROVE  \/ frame'[u] = frame[u] /\ (pc[u] \in {"lock", "check", "plan"} =>
                                           LeafId(list, frame[u].index) \notin exclusive[t])
             \/ frame'[u] = [frame[u] EXCEPT !.fresh = FALSE] /\ pc[u] \in {"lock", "check", "plan"}
  BY DEF ReleaseLocks
<1>4. ASSUME NEW u \in Threads \ {t}
      PROVE  Busy(u) \subseteq Busy(u)' \cup exclusive[t]
  BY <1>2 DEF Busy
<1>5. ASSUME NEW u \in Threads
      PROVE  Sure(list, frame'[u], pc'[u], Busy(u)') /\ Ranged(list, frame'[u], pc'[u])
  <2>1. CASE u = t
    BY <1>2, <2>1 DEF Sure, Ranged, Holding, NoFrame
  <2>2. CASE u # t
    <3>1. PICK f, at, i : f = frame[u] /\ at = pc[u] /\ i = LeafId(list, f.index)
      OBVIOUS
    <3>2. /\ Sure(list, f, at, Busy(u)) /\ Ranged(list, f, at) /\ pc'[u] = at
          /\ at # "idle" => f \in Frames
      BY <1>2, <2>2, <3>1, SureFound DEF BlockInv, Laid
    <3>3. at # "load"
      BY <2>2, <3>2, OnlyThread DEF BlockInv, Ranged
    <3>4. PICK g : g = frame'[u]
      OBVIOUS
    <3>5. CASE g = f /\ (at \in {"lock", "check", "plan"} => i \notin exclusive[t])
      <4>1. at \in {"lock", "check"} /\ i \notin Busy(u)' => i \notin Busy(u)
        BY <1>4, <2>2, <3>5
      <4>2. Sure(list, g, at, Busy(u)')
        BY <3>1, <3>2, <3>3, <3>5, <4>1 DEF Sure
      <4> QED
        BY <3>2, <3>4, <3>5, <4>2
    <3>6. CASE g = [f EXCEPT !.fresh = FALSE] /\ at \in {"lock", "check", "plan"}
      <4>1. /\ g.kind = f.kind /\ g.src = f.src /\ g.dest = f.dest /\ g.index = f.index
            /\ g.fresh = FALSE
        BY <3>2, <3>4, <3>6 DEF Frames
      <4>2. Sure(list, g, at, Busy(u)')
        BY <3>2, <4>1 DEF Sure, Located, Removable
      <4>3. Ranged(list, g, at)
        BY <3>2, <3>6 DEF Ranged
      <4> QED
        BY <3>2, <3>4, <4>2, <4>3
    <3> QED
      BY <1>3, <2>2, <3>1, <3>4, <3>5, <3>6
  <2> QED
    BY <2>1, <2>2
<1>6. \A u \in Threads : Ranged(list, frame'[u], pc'[u]) => Ranged(list, frame[u], pc[u])'
  BY <1>2 DEF Ranged
<1>7. WellFormed(list')
  BY <1>2 DEF BlockInv, Laid
<1> QED
  BY <1>2, <1>5, <1>6, <1>7 DEF Laid

\* A write elsewhere that adds no edge of src leaves the edges of src on their sides of
\* the slot j.
LEMMA SplitsElsewhere ==
  ASSUME NEW L, WellFormed(L), NEW M, WellFormed(M), Ascending(M), NEW H, H \subseteq Slots(L), Convex(H),
         Confined(L, M, H), M.N = L.N, NEW src, NEW dest \in Int, NEW j \in Slots(L), j \notin H,
         \A e \in EdgesOf(M) : e[1] = src => e \in EdgesOf(L), Splits(L, src, dest, j)
  PROVE  Splits(M, src, dest, j)
<1>1. Slots(M) = Slots(L) /\ Slots(L) \subseteq Nat /\ L.N \in Nat
  BY SlotsFound DEF Slots, WellFormed
<1>2. ASSUME NEW p \in Slots(M), IsEdge(M.items[p]), M.items[p].src = src
      PROVE  \E q \in Slots(L) : /\ IsEdge(L.items[q]) /\ L.items[q].src = src
                                  /\ L.items[q].dest = M.items[p].dest
                                  /\ (p < j <=> q < j) /\ (p = j <=> q = j) /\ (j < p <=> j < q)
  <2>1. CASE p \notin H
    BY <1>1, <1>2, <2>1 DEF Confined
  <2>2. CASE p \in H
    <3>1. PICK e : e = <<M.items[p].src, M.items[p].dest, M.items[p].value>>
      OBVIOUS
    <3>2. e \in EdgesOf(L) /\ e[1] = src /\ e[2] = M.items[p].dest
      <4>1. e \in EdgesOf(M) /\ e[1] = src /\ e[2] = M.items[p].dest
        BY <1>2, <3>1 DEF EdgesOf
      <4> QED
        BY <4>1
    <3>3. PICK q \in Slots(L) : IsEdge(L.items[q]) /\ e = <<L.items[q].src, L.items[q].dest, L.items[q].value>>
      BY <3>2 DEF EdgesOf
    <3>4. L.items[q].src = src /\ L.items[q].dest = M.items[p].dest
      BY <3>2, <3>3
    <3>5. q \in H
      <4>1. SUFFICES ASSUME q \notin H PROVE FALSE
        OBVIOUS
      <4>2. M.items[q] = L.items[q] /\ q # p
        BY <2>2, <4>1 DEF Confined
      <4>3. IsEdge(M.items[q]) /\ M.items[q].src = src /\ M.items[q].dest = M.items[p].dest
        BY <3>3, <3>4, <4>2
      <4>4. M.items[p].dest \in Int
        <5>1. ~IsNull(M.items[p]) /\ ~IsSentinel(M.items[p])
          BY <1>2 DEF IsEdge
        <5>2. M.items[p] \in EdgesFrom(Vertices(M))
          BY <1>2, <5>1, SlotHolds
        <5>3. MaxU32 \in Nat
          BY MaxU32Assumption
        <5> QED
          BY <5>2, <5>3 DEF EdgesFrom
      <4>5. M.N \in Nat
        BY <1>1
      <4>6. /\ p < q => M.items[p].dest < M.items[q].dest
            /\ q < p => M.items[q].dest < M.items[p].dest
        BY <1>1, <1>2, <4>3, <4>5, AscendingFound
      <4> QED
        BY <1>1, <1>2, <4>2, <4>3, <4>4, <4>6
    <3>6. (p < j <=> q < j) /\ (p = j <=> q = j) /\ (j < p <=> j < q)
      <4>1. p \in Int /\ q \in Int /\ j \in Int
        BY <1>1
      <4>2. ~(p < j /\ j < q) /\ ~(q < j /\ j < p) /\ p # j /\ q # j
        BY <2>2, <3>5, <4>1 DEF Convex
      <4> QED
        BY <4>1, <4>2
    <3> QED
      BY <3>3, <3>4, <3>6
  <2> QED
    BY <2>1, <2>2
<1> QED
  BY <1>1, <1>2 DEF Splits

\* What another thread relies on holds after a write inside the leaves that t has
\* locked.
LEMMA SureElsewhere ==
  ASSUME NEW L, WellFormed(L), NEW M, WellFormed(M), NEW H, H \subseteq Slots(L), Convex(H),
         Confined(L, M, H), M.N = L.N, Vertices(M) = Vertices(L), NEW f, NEW at, NEW busy,
         at \in {"load", "lock"} \cup Holding => f.src \in Vertices(L) /\ f.index \in Nat /\ f.dest \in Int,
         OneWriter /\ at \in {"load", "lock"} \cup Holding =>
           \A e \in EdgesOf(M) : e[1] = f.src => e \in EdgesOf(L),
         Sure(L, f, at, busy),
         at \in {"load", "lock"} \cup Holding => LeafId(L, f.index) \in busy \/ f.index \notin H,
         at \in {"plan", "write"} => f.index \notin H
  PROVE  Sure(M, f, at, busy)
<1>1. PICK i : i = f.index
  OBVIOUS
<1>2. Slots(M) = Slots(L) /\ LeafId(M, i) = LeafId(L, i)
  BY DEF Slots, LeafId
<1>3. {"load", "lock", "check"} \subseteq {"load", "lock"} \cup Holding
      /\ {"plan", "write"} \subseteq {"load", "lock"} \cup Holding
  BY DEF Holding
<1>4. ASSUME i \in Slots(L), i \notin H PROVE M.items[i] = L.items[i]
  BY <1>4 DEF Confined
<1>5. ASSUME at \in {"load", "lock"} \cup Holding, i \in Slots(L), i \notin H, Located(L, f)
      PROVE  Located(M, f)
  <2>1. FitsOrEnds(M, f.src, i)
    BY <1>1, <1>4, <1>5, FitsElsewhere DEF FitsOrEnds, Located
  <2>2. ASSUME OneWriter PROVE Splits(M, f.src, f.dest, i)
    BY <1>1, <1>5, <2>2, SplitsElsewhere DEF Located, WellFormed
  <2> QED
    BY <1>1, <2>1, <2>2 DEF Located
<1>6. ASSUME f.fresh, at \in {"load", "lock", "check"}, LeafId(M, i) \notin busy
      PROVE  Located(M, f)
  <2>1. Located(L, f) /\ i \in Slots(L) /\ i \notin H
    BY <1>1, <1>2, <1>3, <1>6 DEF Sure
  <2> QED
    BY <1>3, <1>5, <1>6, <2>1
<1>7. ASSUME at \in {"plan", "write"}
      PROVE  Located(M, f) /\ M.items[i] = L.items[i]
  <2>1. Located(L, f) /\ i \in Slots(L) /\ i \notin H
    BY <1>1, <1>3, <1>7 DEF Sure
  <2> QED
    BY <1>3, <1>4, <1>5, <1>7, <2>1
<1> QED
  BY <1>1, <1>2, <1>6, <1>7 DEF Sure, Removable

\* The element is put or erased, and windows are evened out, inside the leaf locks.
LEMMA BlockWrites ==
  ASSUME BlockInv, UNCHANGED lock_bsearch, SlidesInside, NEW t \in Threads,
         Write(t) \/ SpreadLeaf(t) \/ SettleDensity(t)
  PROVE  Laid'
<1>1. WriteInv /\ DOMAIN pc = Threads /\ WellFormed(list)
  BY DEF BlockInv, SizeInv, WriteInv, LeafInv, LockInv, Typed, Laid
<1>2. /\ pc[t] \in Writing /\ UNCHANGED <<frame, exclusive>>
      /\ \A u \in Threads \ {t} : pc'[u] = pc[u]
      /\ pc'[t] \in {"spread", "settle", "release"}
  BY <1>1 DEF Writing, Write, SpreadLeaf, SettleDensity, Goto
<1>3. PICK H : H = Locked(list, frame[t].lo, frame[t].hi)
  OBVIOUS
<1>4. Confined(list, list', H) /\ WellFormed(list')
  BY <1>1, <1>3, WriteLocked, WritesWell
<1>5. /\ H \subseteq Slots(list) /\ Convex(H) /\ exclusive[t] = frame[t].lo .. frame[t].hi
      /\ frame[t].index \in Slots(list) /\ frame[t] \in Frames
  <2>1. /\ IsList(list) /\ frame[t].lo \in Nat /\ frame[t].hi \in Nat
        /\ exclusive[t] = frame[t].lo .. frame[t].hi /\ frame[t].index \in Slots(list)
        /\ frame[t] \in Frames
    BY <1>1, <1>2, WriterFound
  <2> QED
    BY <1>3, <2>1, HeldFound
<1>6. \A p \in H : LeafId(list, p) \in exclusive[t]
  BY <1>3, <1>5 DEF Locked
<1>7. list'.N = list.N /\ Vertices(list') = Vertices(list) /\ Slots(list') = Slots(list)
  BY <1>4 DEF Confined, Reshaped, Slots
<1>11. ASSUME NEW u \in Threads \ {t}
      PROVE  Busy(u)' = Busy(u) /\ exclusive[t] \subseteq Busy(u)
  <2>1. pc[t] \in Writing \cup {"release"} /\ pc'[t] \in Writing \cup {"release"}
    BY <1>2 DEF Writing
  <2> QED
    BY <1>2, <2>1 DEF Busy
<1>8. ASSUME OneWriter, NEW u \in Threads \ {t}, pc[u] # "idle", NEW e \in EdgesOf(list'), e[1] = frame[u].src
      PROVE  e \in EdgesOf(list)
  <2>1. frame[u].src # frame[t].src
    BY <1>2, <1>8, OtherSource DEF Writing
  <2>2. CASE Write(t)
    <3>1. Done(list, frame[t], EdgesOf(list'))
      BY <1>8, <2>2, WritesWell
    <3>2. e \in Without(list, frame[t].src, frame[t].dest)
      BY <1>8, <2>1, <3>1 DEF Done
    <3> QED
      BY <3>2 DEF Without
  <2>3. CASE ~Write(t)
    BY <1>8, <2>3, WritesWell
  <2> QED
    BY <2>2, <2>3
<1>9. ASSUME NEW u \in Threads
      PROVE  Sure(list', frame[u], pc'[u], Busy(u)') /\ Ranged(list', frame[u], pc'[u])
  <2>1. CASE u = t
    <3>1. Sure(list', frame[u], pc'[u], Busy(u)')
      BY <1>2, <1>5, <1>7, <2>1 DEF Sure
    <3> QED
      BY <1>2, <2>1, <3>1 DEF Ranged
  <2>2. CASE u # t
    <3>1. PICK f, at, busy : f = frame[u] /\ at = pc[u] /\ busy = Busy(u)
      OBVIOUS
    <3>2. /\ Sure(list, f, at, busy) /\ Ranged(list, f, at) /\ pc'[u] = at
          /\ at # "idle" => f \in Frames
      BY <1>2, <2>2, <3>1, SureFound DEF BlockInv, Laid
    <3>3. "idle" \notin {"load", "lock"} \cup Holding
          /\ {"plan", "write"} \subseteq Holding
      BY DEF Holding
    <3>4. /\ at \in {"load", "lock"} \cup Holding =>
                f.src \in Vertices(list) /\ f.index \in Nat /\ f.dest \in Int
          /\ OneWriter /\ at \in {"load", "lock"} \cup Holding =>
                \A e \in EdgesOf(list') : e[1] = f.src => e \in EdgesOf(list)
      BY <1>8, <2>2, <3>1, <3>2, <3>3, AskedFound DEF Frames
    <3>5. exclusive[t] \subseteq busy
      BY <1>11, <2>2, <3>1
    <3>6. LeafId(list, f.index) \in busy \/ f.index \notin H
      BY <1>6, <3>5
    <3>7. at \in {"plan", "write"} => f.index \notin H
      <4>1. at \in {"plan", "write"} => LeafId(list, f.index) \notin busy
        BY <1>1, <3>1, <3>3, OwnLeaf
      <4> QED
        BY <3>6, <4>1
    <3>8. Sure(list', f, at, busy)
      BY <1>1, <1>4, <1>5, <1>7, <3>2, <3>4, <3>6, <3>7, SureElsewhere
    <3>9. lock_bsearch
      BY <2>2, OnlyThread DEF BlockInv
    <3>10. Ranged(list', f, at)
      BY <3>2, <3>9 DEF Ranged
    <3> QED
      BY <1>11, <2>2, <3>1, <3>2, <3>8, <3>10
  <2> QED
    BY <2>1, <2>2
<1>10. \A u \in Threads : Ranged(list', frame[u], pc'[u]) => Ranged(list, frame[u], pc[u])'
  BY <1>2 DEF Ranged
<1> QED
  BY <1>2, <1>4, <1>9, <1>10 DEF Laid

\* A thread outside of any shared section relies on nothing.
LEMMA SureOutside ==
  ASSUME NEW M, NEW f, NEW at \in Outside \cup Alone, NEW busy
  PROVE  Sure(M, f, at, busy) /\ Ranged(M, f, at)
BY DEF Sure, Ranged, Holding, Outside, Alone

\* insert and remove in the exclusive section, where nobody else relies on the list.
LEMMA BlockAlone ==
  ASSUME BlockInv, SlidesInside, NEW t \in Threads, WriteAlone(t)
  PROVE  Laid'
<1>1. /\ pc[t] = "force" /\ Goto(t, "unlock") /\ UNCHANGED frame
      /\ LockInv /\ pc \in [Threads -> PCs]
  BY DEF WriteAlone, BlockInv, SizeInv, WriteInv, LeafInv, LockInv, Typed
<1>2. global_lock[t] = "exclusive"
  BY <1>1 DEF LockInv, ModeFollowsPc, Alone
<1>3. ASSUME NEW u \in Threads \ {t} PROVE pc[u] \in Outside
  <2>1. global_lock[u] = "none"
    BY <1>1, <1>2 DEF LockInv, GlobalExclusion
  <2>2. pc[u] \notin Inside \cup Alone
    BY <1>1, <2>1 DEF LockInv, ModeFollowsPc
  <2> QED
    BY <1>1, <2>2 DEF PCs, Inside, Alone, Outside
<1>4. ASSUME NEW u \in Threads
      PROVE  Sure(list', frame[u], pc'[u], Busy(u)') /\ Ranged(list', frame[u], pc'[u])
  <2>1. pc'[u] \in Outside \cup Alone
    BY <1>1, <1>3 DEF Goto, Outside, Alone
  <2> QED
    BY <2>1, SureOutside
<1>5. \A u \in Threads : Ranged(list', frame[u], pc'[u]) => Ranged(list, frame[u], pc[u])'
  <2>1. \A u \in Threads : pc'[u] \in Outside \cup Alone
    BY <1>1, <1>3 DEF Goto, Outside, Alone
  <2> QED
    BY <1>1, <2>1 DEF Ranged, Outside, Alone
<1>6. WellFormed(list')
  BY AloneWell
<1> QED
  BY <1>1, <1>4, <1>5, <1>6 DEF Laid

\* add_node, which is called while no thread is inside an update.
LEMMA BlockAdd ==
  ASSUME MaxVertices <= MaxU32, BlockInv, AddsAtFreeEnd, AddVertex
  PROVE  Laid'
<1>1. (\A t \in Threads : pc[t] = "idle") /\ UNCHANGED <<pc, frame>>
  BY DEF AddVertex
<1>2. WellFormed(list')
  BY VertexWell
<1>3. ASSUME NEW u \in Threads PROVE (Sure(list, frame[u], pc[u], Busy(u)) /\ Ranged(list, frame[u], pc[u]))'
  BY <1>1 DEF Sure, Ranged, Holding
<1> QED
  BY <1>2, <1>3 DEF Laid

----------------------------------------------------------------------------
(* Every step keeps the list well formed.                                  *)

\* What the threads rely on holds after every step.
LEMMA LaidStep ==
  ASSUME MaxVertices <= MaxU32, BlockInv, SlidesInside, [AddsAtFreeEnd]_vars, [Next]_vars
  PROVE  Laid'
<1>1. CASE UNCHANGED vars
  <2>1. UNCHANGED <<lock_bsearch, list, pc, frame, exclusive>>
    BY <1>1 DEF vars
  <2>2. Laid
    BY DEF BlockInv
  <2>3. \A t \in Threads : Busy(t)' = Busy(t)
    BY <2>1 DEF Busy
  <2>4. ASSUME NEW t \in Threads, Ranged(list, frame[t], pc[t])
        PROVE  Ranged(list, frame[t], pc[t])'
    BY <2>1, <2>4 DEF Ranged
  <2> QED
    BY <2>1, <2>2, <2>3, <2>4 DEF Laid
<1>2. CASE ~UNCHANGED vars
  <2>1. UNCHANGED lock_bsearch /\ AddsAtFreeEnd
        /\ (AddVertex \/ \E t \in Threads : Begin(t) \/ Continue(t))
    BY <1>2 DEF Next
  <2>2. CASE AddVertex
    BY <2>1, <2>2, BlockAdd
  <2>3. ASSUME NEW t \in Threads, Begin(t) PROVE Laid'
    BY <2>1, <2>3, BlockBegin
  <2>4. ASSUME NEW t \in Threads, Continue(t) PROVE Laid'
    <3>1. CASE CallForced(t) \/ Call(t) \/ Snap(t) \/ Upgrade(t) \/ ShareLeaf(t)
      BY <2>1, <3>1, BlockEnter
    <3>2. CASE Search(t)
      BY <2>1, <3>2, BlockSearch
    <3>3. CASE LoadVersion(t) \/ LockLeaf(t)
      BY <2>1, <3>3, BlockLock
    <3>4. CASE CheckInsert(t) \/ CheckRemove(t)
      BY <2>1, <3>4, BlockCheck
    <3>5. CASE Plan(t)
      BY <2>1, <3>5, BlockPlan
    <3>6. CASE Write(t) \/ SpreadLeaf(t) \/ SettleDensity(t)
      BY <2>1, <3>6, BlockWrites
    <3>7. CASE ReleaseLocks(t)
      BY <2>1, <3>7, BlockRelease
    <3>8. CASE WriteAlone(t)
      BY <3>8, BlockAlone
    <3>9. CASE Unlock(t)
      <4>1. DOMAIN exclusive = Threads
        BY DEF BlockInv, SizeInv, WriteInv, LeafInv, LockInv, Typed
      <4>2. /\ UNCHANGED list /\ Return(t)
            /\ pc[t] # "idle" /\ pc[t] \notin Writing \cup {"release"}
        BY <3>9 DEF Unlock, Writing
      <4>3. \A u \in Threads \ {t} : exclusive'[u] = exclusive[u]
        BY <4>1, <4>2 DEF Return, ReleaseLeaves
      <4> QED
        BY <2>1, <4>2, <4>3, BlockOut
    <3> QED
      BY <2>4, <3>1, <3>2, <3>3, <3>4, <3>5, <3>6, <3>7, <3>8, <3>9 DEF Continue
  <2> QED
    BY <2>1, <2>2, <2>3, <2>4
<1> QED
  BY <1>1, <1>2

\* insert and remove inside the leaf locks leave the last slot alone, or even out the
\* last leaf next.
LEMMA BackedWrites ==
  ASSUME BlockInv, NEW t \in Threads, Write(t) \/ SpreadLeaf(t) \/ SettleDensity(t)
  PROVE  EndBacked'
<1>1. pc[t] \in Writing /\ pc[t] # "idle"
  BY DEF Writing, Write, SpreadLeaf, SettleDensity
<1>2. PICK f, H, i : f = frame[t] /\ H = Locked(list, f.lo, f.hi) /\ i = f.index
  OBVIOUS
<1>3. /\ f.lo \in Nat /\ f.hi \in Nat /\ i \in Nat /\ f \in Frames
      /\ f.kind \in {"add", "remove"} /\ f.info \in Infos /\ IsList(list)
      /\ i \in H /\ Ready(list, f, pc[t]) /\ i \in Slots(list)
  BY <1>1, <1>2, WriterFound DEF BlockInv, SizeInv
<1>4. WellFormed(list) /\ Height(list.N) > 0 /\ Sure(list, f, pc[t], Busy(t)) /\ DOMAIN pc = Threads
  BY <1>2 DEF BlockInv, SizeInv, KeepsHeight, Laid, WriteInv, LeafInv, LockInv, Typed
<1>5. H \subseteq Slots(list) /\ Convex(H)
  BY <1>2, <1>3, HeldFound
<1>6. list'.N = list.N /\ UNCHANGED frame /\ \A u \in Threads \ {t} : pc'[u] = pc[u]
  <2>1. list'.N = list.N
    BY WriteLocked DEF Confined, Reshaped, BlockInv, SizeInv
  <2> QED
    BY <1>4, <2>1 DEF Write, SpreadLeaf, SettleDensity, Goto
<1>7. PICK last : last = LeafId(list, list.N - 1)
  OBVIOUS
<1>8. last' = last /\ \A j : LeafId(list', j) = LeafId(list, j)
  BY <1>6 DEF LeafId
<1>9. ASSUME NEW u \in Threads \ {t}, pc[u] = "spread", LeafId(list, frame[u].index) = last
      PROVE  EndBacked'
  BY <1>6, <1>7, <1>8, <1>9 DEF EndBacked
<1>10. ASSUME pc'[t] = "spread", LeafId(list, i) = last PROVE EndBacked'
  BY <1>2, <1>6, <1>7, <1>8, <1>10 DEF EndBacked
<1>11. ASSUME Backed(list') PROVE EndBacked'
  BY <1>11 DEF EndBacked
<1>12. CASE Write(t) /\ Backed(list)
  <2>1. pc[t] = "write" /\ list.N >= 2 /\ list.N \in Nat
    <3>1. list.N \in Nat /\ list.N >= 2
      BY <1>3, <1>4, LeafLength, SlotsFound, SMTT(30) DEF IsList
    <3> QED
      BY <1>12, <3>1 DEF Write
  <2>2. CASE f.kind = "add" /\ Present(list, i, Element(f))
    <3>1. list' = [list EXCEPT !.items[i].value = f.value]
      BY <1>2, <1>12, <2>2 DEF Write
    <3>2. \A p \in Slots(list) : IsNull(list'.items[p]) <=> IsNull(list.items[p])
      <4>1. f.value \in Values /\ f.dest \in 0 .. MaxU32 - 1
        BY <1>1, <1>2, <2>2, AskedFound
      <4>2. ~IsNull(list.items[i]) /\ list.items[i].dest = f.dest
        BY <1>3, <2>2, <4>1, ElementFound DEF Present
      <4> QED
        BY <1>3, <1>4, <3>1, <4>1, <4>2, UpdateWell
    <3>3. list.N - 1 \in Slots(list) /\ list.N - 2 \in Slots(list)
      BY <2>1 DEF Slots
    <3>4. Backed(list')
      BY <1>6, <1>12, <3>2, <3>3 DEF Backed
    <3> QED
      BY <1>11, <3>4
  <2>3. CASE f.kind = "add" /\ ~Present(list, i, Element(f))
    <3>1. list' = Put(list, i, Element(f)) /\ pc'[t] = "spread"
      BY <1>2, <1>4, <1>12, <2>3 DEF Write, Goto
    <3>2. CASE i = list.N - 1
      BY <1>7, <1>10, <3>1, <3>2
    <3>3. CASE i # list.N - 1
      <4>1. Room(list, i, H) /\ Spare(list, H)
        BY <1>2, <1>3, <2>1, <2>3 DEF Ready
      <4>2. Slidable(list, i)
        BY <1>3, <1>5, <4>1, RoomSlides
      <4>3. PICK e : e = Element(f)
        OBVIOUS
      <4>4. f.value \in Values
        BY <1>1, <1>2, <2>3, AskedFound
      <4>5. e \in EdgesFrom(Vertices(list))
        BY <1>3, <4>3, <4>4, ElementFound
      <4>6. ~IsNull(e)
        BY <1>4, <4>5, Kinds DEF WellFormed
      <4>7. Backed(list')
        BY <1>3, <1>12, <2>1, <3>1, <3>3, <4>2, <4>3, <4>6, PutBacked
      <4> QED
        BY <1>11, <4>7
    <3> QED
      BY <3>2, <3>3
  <2>4. CASE f.kind = "remove"
    <3>1. list' = Erase(list, i) /\ pc'[t] = "spread"
      BY <1>2, <1>4, <1>12, <2>4 DEF Write, Goto
    <3>2. Backed(list') \/ LeafId(list, i) = last
      BY <1>3, <1>4, <1>7, <1>12, <3>1, EraseBacked
    <3> QED
      BY <1>10, <1>11, <3>1, <3>2
  <2> QED
    BY <1>3, <2>2, <2>3, <2>4
<1>13. CASE SpreadLeaf(t) /\ (Backed(list) \/ LeafId(list, i) = last)
  <2>1. list' \in {EvenOut(list, i, LogN(list.N)), Redistribute(list, FindLeaf(list, i), LogN(list.N))}
    BY <1>2, <1>13 DEF SpreadLeaf
  <2>2. Backed(list')
    BY <1>3, <1>4, <1>7, <1>13, <2>1, EvenOutBacked
  <2> QED
    BY <1>11, <2>2
<1>14. CASE SettleDensity(t) /\ Backed(list)
  <2>1. FindLeaf(list, i) \in Slots(list)
    BY <1>3, <1>4, LeafInside DEF FindLeaf
  <2>2. CASE f.kind = "add"
    <3>1. list' = Settle(list, FindLeaf(list, i), f.info)
      BY <1>2, <1>14, <2>2 DEF SettleDensity
    <3>2. Window(f.info.start, f.info.len) \subseteq H /\ Even(f.info.start + f.info.len)
      BY <1>1, <1>2, <1>3, <2>2 DEF Ready, Told
    <3>3. Window(f.info.start, f.info.len) \subseteq Slots(list)
      BY <1>5, <3>2
    <3>4. Backed(list')
      BY <1>3, <1>4, <1>14, <2>1, <3>1, <3>2, <3>3, SettleBacked
    <3> QED
      BY <1>11, <3>4
  <2>3. CASE f.kind = "remove"
    <3>1. list' = SettleRemoval(list, FindLeaf(list, i))
      BY <1>2, <1>14, <2>3 DEF SettleDensity
    <3>2. Backed(list')
      BY <1>3, <1>4, <1>14, <2>1, <3>1, SettleBacked
    <3> QED
      BY <1>11, <3>2
  <2> QED
    BY <1>3, <2>2, <2>3
<1>15. Backed(list) \/ \E u \in Threads : pc[u] = "spread" /\ LeafId(list, frame[u].index) = last
  BY <1>7 DEF BlockInv, EndBacked
<1>16. ~Backed(list) /\ ~(\E u \in Threads \ {t} : pc[u] = "spread" /\ LeafId(list, frame[u].index) = last)
         => SpreadLeaf(t) /\ LeafId(list, i) = last
  BY <1>2, <1>15 DEF Write, SpreadLeaf, SettleDensity
<1> QED
  BY <1>9, <1>12, <1>13, <1>14, <1>16

\* Every step keeps the end backed.
LEMMA BackedStep ==
  ASSUME MaxVertices <= MaxU32, BlockInv, SlidesInside, [AddsAtFreeEnd]_vars, [Next]_vars
  PROVE  EndBacked'
<1>1. LeafInv /\ DOMAIN pc = Threads /\ DOMAIN frame = Threads
  BY DEF BlockInv, SizeInv, WriteInv, LeafInv, LockInv, Typed, FramesTyped
<1>2. ASSUME UNCHANGED list,
             \A u \in Threads : pc[u] = "spread" => pc'[u] = "spread" /\ frame'[u] = frame[u]
      PROVE  EndBacked'
  BY <1>2 DEF BlockInv, EndBacked
<1>3. CASE UNCHANGED vars
  BY <1>2, <1>3 DEF vars
<1>4. CASE AddVertex /\ AddsAtFreeEnd
  BY <1>4, VertexWell DEF EndBacked
<1>5. ASSUME NEW t \in Threads, Begin(t) PROVE EndBacked'
  <2>1. UNCHANGED list /\ pc[t] = "idle" /\ Goto(t, "call") /\ \E g : SetFrame(t, g)
    BY <1>5 DEF Begin, BeginAdd, BeginRemove
  <2>2. \A u \in Threads : pc[u] = "spread" => pc'[u] = "spread" /\ frame'[u] = frame[u]
    BY <1>1, <2>1 DEF Goto, SetFrame
  <2> QED
    BY <1>2, <2>1, <2>2
<1>6. ASSUME NEW t \in Threads, Continue(t) PROVE EndBacked'
  <2>1. CASE Write(t) \/ SpreadLeaf(t) \/ SettleDensity(t)
    BY <2>1, BackedWrites
  <2>2. CASE WriteAlone(t)
    BY <2>2, AloneWell DEF EndBacked
  <2>3. CASE UNCHANGED list /\ ~(Write(t) \/ SpreadLeaf(t) \/ SettleDensity(t))
    <3>1. ASSUME NEW u \in Threads, pc[u] = "spread" PROVE pc'[u] = "spread" /\ frame'[u] = frame[u]
      <4>1. pc[t] # "spread"
        BY <1>6, <2>3 DEF Continue, CallForced, Call, Snap, ShareLeaf, Search, LoadVersion, LockLeaf, CheckInsert,
                      CheckRemove, Plan, SpreadLeaf, ReleaseLocks, Upgrade, WriteAlone, Unlock
      <4> QED
        BY <1>1, <1>6, <3>1, <4>1, OthersStay, ZenonT(30)
    <3> QED
      BY <1>2, <2>3, <3>1
  <2> QED
    BY <1>6, <2>1, <2>2, <2>3, ContinueMoves
<1> QED
  BY <1>3, <1>4, <1>5, <1>6 DEF Next, vars

\* So nodes agrees with the sentinels, and the list keeps its size.
LEMMA BlockStep ==
  ASSUME MaxVertices <= MaxU32
  PROVE  BlockInv /\ SlidesInside /\ [AddsAtFreeEnd]_vars /\ [Next]_vars => BlockInv'
<1> SUFFICES ASSUME BlockInv, SlidesInside, [AddsAtFreeEnd]_vars, [Next]_vars
             PROVE  BlockInv'
  OBVIOUS
<1>1. Laid /\ Laid'
  BY LaidStep DEF BlockInv
<1>2. WellFormed(list) /\ WellFormed(list')
  BY <1>1 DEF Laid
<1>3. Pointed(list) /\ Pointed(list')
  BY <1>2, WellPointed
<1>4. SentinelsPointed /\ SentinelsPointed'
  BY <1>3 DEF SentinelsPointed
<1>5. SizeInv'
  BY <1>4, SizeStep DEF BlockInv
<1>6. Exact'
  BY DEF BlockInv, Exact, Next, vars
<1>7. Asked'
  BY AskedStep DEF BlockInv, SizeInv, WriteInv
<1>8. Sharing'
  BY SharingStep DEF BlockInv, SizeInv
<1>9. EndBacked'
  BY BackedStep
<1> QED
  BY <1>1, <1>5, <1>6, <1>7, <1>8, <1>9 DEF BlockInv

\* The constructor's list is well formed.
LEMMA BlockInit ==
  ASSUME MinCapacity >= 4, InitVertices >= 2, InitVertices <= MaxU32
  PROVE  Init /\ Exact => BlockInv
<1> SUFFICES ASSUME Init, Exact PROVE BlockInv
  OBVIOUS
<1>1. InitVertices \in Nat \ {0} /\ MinCapacity \in Nat \ {0}
  BY InputsAssumption
<1>2. WellFormed(list) /\ EndBacked
  BY <1>1, InitialWell DEF Init, EndBacked
<1>3. \A t \in Threads : pc[t] = "idle"
  BY DEF Init
<1>4. \A t \in Threads : Sure(list, frame[t], pc[t], Busy(t)) /\ Ranged(list, frame[t], pc[t])
  BY <1>3 DEF Sure, Ranged, Holding
<1>5. Asked /\ Sharing
  BY <1>3 DEF Asked, Sharing, Shares
<1> QED
  BY <1>2, <1>4, <1>5, SizeInit DEF BlockInv, Laid

\* Whether the search is exact is decided by the constructor.
LEMMA ExactStays == [Next]_vars => (Exact' <=> Exact)
BY DEF Exact, Next, vars

\* What BlocksIntact rests on: between its search and its write an insertion keeps
\* its slot, because every write since then is inside leaves that it does not hold,
\* on one side of it, or has given its leaf a new version.
THEOREM BlockInvCorrect ==
  ASSUME MinCapacity >= 4, InitVertices >= 2, InitVertices <= MaxU32, MaxVertices <= MaxU32
  PROVE  Spec /\ Exact /\ []SlidesInside /\ VertexAtFreeEnd => []BlockInv
<1>1. Init /\ Exact => BlockInv
  BY BlockInit
<1>2. BlockInv /\ SlidesInside /\ [AddsAtFreeEnd]_vars /\ [Next]_vars => BlockInv'
  BY BlockStep
<1> QED
  BY <1>1, <1>2, PTL DEF Spec, VertexAtFreeEnd

\* The first slot always holds the sentinel of vertex 0: redistribute puts the first
\* element of a window into its first slot, no edge fits left of that sentinel, and
\* remove erases no sentinel.
THEOREM FirstSlotTakenCorrect ==
  ASSUME MinCapacity >= 4, InitVertices >= 2, InitVertices <= MaxU32, MaxVertices <= MaxU32
  PROVE  Spec /\ Exact /\ []SlidesInside /\ VertexAtFreeEnd => []FirstSlotTaken
<1>1. BlockInv => FirstSlotTaken
  BY FirstFound DEF BlockInv, Laid, FirstSlotTaken
<1> QED
  BY <1>1, BlockInvCorrect, PTL

\* As long as no slide runs off the end of the list, nodes agrees with the sentinels
\* and no edge leaves the block of its source, whatever the threads do.
THEOREM BlocksIntactCorrect ==
  ASSUME MinCapacity >= 4, InitVertices >= 2, InitVertices <= MaxU32, MaxVertices <= MaxU32,
         IsFiniteSet(Threads)
  PROVE  Spec /\ []SlidesInside /\ VertexAtFreeEnd => []BlocksIntact
<1>1. BlockInv => BlocksIntact
  BY WellPointed DEF BlockInv, Laid, BlocksIntact
<1>2. ~Exact => BlocksIntact
  BY DEF Exact, BlocksIntact
<1>3. ~Exact /\ [Next]_vars => (~Exact)'
  BY ExactStays
<1> QED
  BY <1>1, <1>2, <1>3, BlockInvCorrect, PTL DEF Spec

\* Where no two threads work for the same source, its edges ascend and none is there
\* twice, so the search of add_edge finds the edge that it must update: what a search
\* has found still separates the edges of its source when the element is written.
THEOREM SortedCorrect ==
  ASSUME MinCapacity >= 4, InitVertices >= 2, InitVertices <= MaxU32, MaxVertices <= MaxU32, OneWriter
  PROVE  Spec /\ Exact /\ []SlidesInside /\ VertexAtFreeEnd => []Sorted
<1>1. BlockInv => Sorted
  BY DEF BlockInv, Laid, WellFormed, Sorted
<1> QED
  BY <1>1, BlockInvCorrect, PTL

\* half_list leaves more than one leaf, and insert a null for every slide.
THEOREM SizeKept ==
  ASSUME MinCapacity >= 4, InitVertices >= 2, InitVertices <= MaxU32, MaxVertices <= MaxU32
  PROVE  Spec /\ Exact /\ []SlidesInside /\ VertexAtFreeEnd => [](KeepsHeight /\ NeverFull)
<1>1. BlockInv => SentinelsPointed
  BY WellPointed DEF BlockInv, Laid, SentinelsPointed
<1> QED
  BY <1>1, BlockInvCorrect, KeepsHeightCorrect, NeverFullCorrect, PTL

\* Every write stays inside the leaves that its thread holds exclusively.
THEOREM WritesStayLocked ==
  ASSUME MinCapacity >= 4, InitVertices >= 2, InitVertices <= MaxU32, MaxVertices <= MaxU32
  PROVE  Spec /\ Exact /\ []SlidesInside /\ VertexAtFreeEnd => WritesAreLocked
BY SizeKept, WritesAreLockedCorrect, PTL

----------------------------------------------------------------------------
(* The graph.                                                              *)

\* What edge_exists finds.
LEMMA ExistsFound ==
  ASSUME BlockInv, OneWriter
  PROVE  EdgeExistsExact
<1> SUFFICES ASSUME Settled, NEW k \in Keys, k[1] \in Vertices(list)
             PROVE  EdgeExists(list, k[1], k[2])
                      <=> \E v \in Values : <<k[1], k[2], v>> \in EdgesOf(list)
  BY DEF EdgeExistsExact
<1>1. PICK src, dest, i : src = k[1] /\ dest = k[2] /\ i = FindEdge(list, src, dest)
  OBVIOUS
<1>2. src \in Vertices(list) /\ dest \in Int
  BY <1>1, InputsAssumption DEF Keys
<1>3. WellFormed(list) /\ Ascending(list) /\ Backed(list)
  BY DEF BlockInv, Laid, WellFormed, EndBacked, Settled
<1>4. i \in Slots(list) /\ FitsOrEnds(list, src, i) /\ Splits(list, src, dest, i)
  <2>1. i \in Slots(list) /\ FitsOrEnds(list, src, i)
    BY <1>1, <1>2, <1>3, FindFits DEF FitsOrEnds
  <2>2. Splits(list, src, dest, i)
    BY <1>1, <1>2, <1>3, FindSplits
  <2> QED
    BY <2>1, <2>2
<1>5. PICK e : e = list.items[i]
  OBVIOUS
<1>6. ASSUME IsEdge(e), e.dest = dest
      PROVE  \E v \in Values : <<src, dest, v>> \in EdgesOf(list)
  <2>1. e.src = src
    BY <1>2, <1>3, <1>4, <1>5, <1>6, OwnEdge
  <2>2. e \in EdgesFrom(Vertices(list))
    BY <1>3, <1>4, <1>5, <1>6, SlotHolds DEF IsEdge
  <2>3. e.value \in Values
    BY <2>2 DEF EdgesFrom
  <2>4. <<e.src, e.dest, e.value>> \in EdgesOf(list)
    BY <1>4, <1>5, <1>6 DEF EdgesOf
  <2> QED
    BY <1>6, <2>1, <2>3, <2>4
<1>7. ASSUME NEW v \in Values, <<src, dest, v>> \in EdgesOf(list)
      PROVE  IsEdge(e) /\ e.dest = dest
  <2>1. PICK p \in Slots(list) : /\ IsEdge(list.items[p])
                                 /\ list.items[p].src = src /\ list.items[p].dest = dest
    BY <1>7 DEF EdgesOf
  <2>2. ~(dest < dest)
    BY <1>2
  <2>3. ~(p < i) /\ ~(i < p)
    BY <1>4, <2>1, <2>2 DEF Splits
  <2>4. p = i
    <3>1. list.N \in Nat
      BY <1>3, PowersPositive DEF WellFormed, IsList
    <3> QED
      BY <1>4, <2>3, <3>1 DEF Slots
  <2> QED
    BY <1>5, <2>1, <2>4
<1> QED
  BY <1>1, <1>5, <1>6, <1>7 DEF EdgeExists, IsEdge

\* The vertices, and the calls under way.
Count == Cardinality(Vertices(list))
Calls == [t \in Threads |-> Pending(t)]

\* Where a call is not yet made, or has had its effect.
Closed == {"idle", "spread", "settle", "release", "unlock"}

\* What is under way.
LEMMA PendingOf ==
  ASSUME NEW t
  PROVE  Pending(t) = IF pc[t] \in Closed THEN G!NoCall
                      ELSE G!CallOf(frame[t].kind, <<frame[t].src, frame[t].dest>>, frame[t].value)
BY DEF Pending, Closed, G!NoCall, G!CallOf

\* And after a step.
LEMMA PendingNext ==
  ASSUME NEW t
  PROVE  Pending(t)' = IF pc'[t] \in Closed THEN G!NoCall
                       ELSE G!CallOf(frame'[t].kind, <<frame'[t].src, frame'[t].dest>>, frame'[t].value)
BY DEF Pending, Closed, G!NoCall, G!CallOf

\* Where the calls of the other threads stay.
LEMMA CallsNext ==
  ASSUME NEW t \in Threads, \A u \in Threads \ {t} : Pending(u)' = Pending(u)
  PROVE  Calls' = [Calls EXCEPT ![t] = Pending(t)']
<1>1. Calls' = [u \in Threads |-> Pending(u)']
  BY DEF Calls
<1>2. PICK x : x = Pending(t)'
  OBVIOUS
<1>3. \A u \in Threads : Pending(u)' = IF u = t THEN x ELSE Pending(u)
  BY <1>2
<1>4. [Calls EXCEPT ![t] = x] = [u \in Threads |-> IF u = t THEN x ELSE Pending(u)]
  BY DEF Calls
<1> QED
  BY <1>1, <1>2, <1>3, <1>4

\* The others keep their calls.
LEMMA OthersPending ==
  ASSUME LeafInv, NEW t \in Threads, Continue(t)
  PROVE  \A u \in Threads \ {t} : Pending(u)' = Pending(u)
<1> TAKE u \in Threads \ {t}
<1>1. pc'[u] = pc[u]
  BY OthersStay
<1>2. CASE pc[u] \in Closed
  BY <1>1, <1>2, PendingOf, PendingNext
<1>3. CASE pc[u] \notin Closed
  <2>1. SameAsked(frame[u], frame'[u])
    BY <1>1, <1>3, CallStays DEF Closed
  <2> QED
    BY <1>1, <1>3, <2>1, PendingOf, PendingNext DEF SameAsked
<1> QED
  BY <1>2, <1>3

\* A step of t neither makes a call nor ends one.
LEMMA CallsStay ==
  ASSUME LeafInv, NEW t \in Threads, Continue(t), pc'[t] \in Closed <=> pc[t] \in Closed
  PROVE  Calls' = Calls
<1>1. Pending(t)' = Pending(t)
  <2>1. CASE pc[t] \in Closed
    BY <2>1, PendingOf, PendingNext
  <2>2. CASE pc[t] \notin Closed
    <3>1. SameAsked(frame[t], frame'[t])
      BY <2>2, CallStays DEF Closed
    <3> QED
      BY <2>2, <3>1, PendingOf, PendingNext DEF SameAsked
  <2> QED
    BY <2>1, <2>2
<1>2. \A u \in Threads : Pending(u)' = Pending(u)
  BY <1>1, OthersPending
<1> QED
  BY <1>2 DEF Calls

\* A step of t after which its call has had its effect.
LEMMA CallEnds ==
  ASSUME LeafInv, NEW t \in Threads, Continue(t), pc'[t] \in Closed
  PROVE  Calls' = [Calls EXCEPT ![t] = G!NoCall]
BY OthersPending, PendingNext, CallsNext

\* The edge of a key and a value.
LEMMA KeyAndValue ==
  ASSUME NEW a, NEW b, NEW c
  PROVE  <<a, b>> \o <<c>> = <<a, b, c>>
<1>1. Len(<<a, b>>) = 2 /\ Len(<<c>>) = 1
  OBVIOUS
<1>2. <<a, b>> \o <<c>> = [i \in 1 .. 3 |-> IF i \in 1 .. 2 THEN <<a, b>>[i] ELSE <<c>>[i - 2]]
  BY <1>1
<1>3. <<a, b, c>> = [i \in 1 .. 3 |-> <<a, b, c>>[i]]
  OBVIOUS
<1>4. \A i \in 1 .. 3 : (IF i \in 1 .. 2 THEN <<a, b>>[i] ELSE <<c>>[i - 2]) = <<a, b, c>>[i]
  <2>1. \A i \in 1 .. 3 : i = 1 \/ i = 2 \/ i = 3
    OBVIOUS
  <2> QED
    BY <2>1
<1> QED
  BY <1>2, <1>3, <1>4, Zenon

\* The update of f happens.
LEMMA Happens ==
  ASSUME BlockInv, NEW t \in Threads, Continue(t), pc[t] \notin Closed, pc'[t] \in Closed,
         Vertices(list') = Vertices(list), Done(list, frame[t], EdgesOf(list'))
  PROVE  G!Happen(t)
<1>1. PICK f, c : f = frame[t] /\ c = G!CallOf(f.kind, <<f.src, f.dest>>, f.value)
  OBVIOUS
<1>2. f.kind \in {"add", "remove"}
  BY <1>1, AskedFound DEF Closed
<1>3. c.kind = f.kind /\ c.key = <<f.src, f.dest>> /\ c.value = f.value
  BY <1>1 DEF G!CallOf
<1>4. Calls[t] = c
  BY <1>1, PendingOf DEF Calls
<1>5. c # G!NoCall
  <2>1. c.kind # "none"
    BY <1>2, <1>3
  <2> QED
    BY <2>1 DEF G!NoCall
<1>6. Calls' = [Calls EXCEPT ![t] = G!NoCall]
  <2>1. LeafInv
    BY DEF BlockInv, SizeInv, WriteInv
  <2> QED
    BY <2>1, CallEnds
<1>7. EdgesOf(list') = G!After(c)
  <2>1. G!Without(c.key) = Without(list, f.src, f.dest)
    BY <1>3 DEF G!Without, Without
  <2>2. c.key \o <<c.value>> = <<f.src, f.dest, f.value>>
    BY <1>3, KeyAndValue
  <2> QED
    BY <1>1, <1>2, <1>3, <2>1, <2>2 DEF G!After, Done
<1>8. EdgesOf(list)' = EdgesOf(list') /\ Vertices(list)' = Vertices(list')
  BY DEF EdgesOf, Vertices, Slots
<1> QED
  BY <1>4, <1>5, <1>6, <1>7, <1>8 DEF G!Happen, Calls

\* A step that changes neither the list nor what is under way.
LEMMA Stutters ==
  ASSUME EdgesOf(list') = EdgesOf(list), Vertices(list') = Vertices(list), Calls' = Calls
  PROVE  UNCHANGED <<Count, EdgesOf(list), Calls>>
<1>1. EdgesOf(list)' = EdgesOf(list') /\ Count' = Cardinality(Vertices(list'))
  BY DEF EdgesOf, Vertices, Slots, Count
<1> QED
  BY <1>1 DEF Count

\* add_edge and remove_edge are called with the inputs of the thread.
LEMMA BeginCalls ==
  ASSUME BlockInv, NEW t \in Threads, Begin(t)
  PROVE  G!Call(t)
<1>1. PICK kind \in {"add", "remove"}, k \in Keys, v \in Values \cup {1} :
        /\ kind = "add" => v \in Values
        /\ kind = "remove" => v = 1
        /\ k \in (IF kind = "add" THEN Adds[t] ELSE Removes[t])
        /\ k[1] \in Vertices(list) /\ pc[t] = "idle" /\ UNCHANGED list
        /\ SetFrame(t, Frame(kind, k[1], k[2], v, 0)) /\ Goto(t, "call")
  BY DEF Begin, BeginAdd, BeginRemove, Keys
<1>2. k \in Nat \X (0 .. MaxU32 - 1)
  BY <1>1, InputsAssumption
<1>3. k = <<k[1], k[2]>>
  BY <1>2
<1>4. PICK c : c = G!CallOf(kind, k, v)
  OBVIOUS
<1>5. c \in G!GraphCalls
  BY <1>1, <1>4 DEF G!GraphCalls
<1>6. DOMAIN pc = Threads /\ DOMAIN frame = Threads
  BY DEF BlockInv, SizeInv, WriteInv, LeafInv, LockInv, Typed, FramesTyped
<1>7. /\ pc'[t] = "call" /\ frame'[t] = Frame(kind, k[1], k[2], v, 0)
      /\ \A u \in Threads \ {t} : pc'[u] = pc[u] /\ frame'[u] = frame[u]
  BY <1>1, <1>6 DEF Goto, SetFrame
<1>8. Pending(t)' = c
  <2>1. LET f == Frame(kind, k[1], k[2], v, 0)
        IN  f.kind = kind /\ f.src = k[1] /\ f.dest = k[2] /\ f.value = v
    BY DEF Frame
  <2> QED
    BY <1>3, <1>4, <1>7, <2>1, PendingNext DEF Closed
<1>9. \A u \in Threads \ {t} : Pending(u)' = Pending(u)
  BY <1>7, PendingOf, PendingNext
<1>10. Calls' = [Calls EXCEPT ![t] = c]
  BY <1>8, <1>9, CallsNext
<1>11. Calls[t] = G!NoCall
  BY <1>1, PendingOf DEF Calls, Closed
<1>12. c.key[1] \in 0 .. Count - 1
  <2>1. c.key = k
    BY <1>4 DEF G!CallOf
  <2>2. PICK n \in Nat : Vertices(list) = 0 .. n - 1 /\ Cardinality(Vertices(list)) = n
    BY VerticesFound DEF BlockInv, Laid, WellFormed
  <2> QED
    BY <1>1, <2>1, <2>2 DEF Count
<1>13. UNCHANGED <<Count, EdgesOf(list)>>
  BY <1>1 DEF Count, EdgesOf, Vertices, Slots
<1> QED
  BY <1>5, <1>10, <1>11, <1>12, <1>13 DEF G!Call, Count, Calls

\* An update happens where its element is put or erased, or is not found.
LEMMA WriteHappens ==
  ASSUME BlockInv, SlidesInside, OneWriter, NEW t \in Threads, Write(t) \/ WriteAlone(t)
  PROVE  G!Happen(t)
<1>1. pc[t] \in {"write", "force"} /\ pc'[t] \in {"release", "spread", "unlock"}
  <2>1. DOMAIN pc = Threads
    BY DEF BlockInv, SizeInv, WriteInv, LeafInv, LockInv, Typed
  <2> QED
    BY <2>1 DEF Write, WriteAlone, Goto
<1>2. Continue(t) /\ pc[t] \notin Closed /\ pc'[t] \in Closed /\ pc[t] # "idle"
  BY <1>1 DEF Continue, Closed
<1>3. Done(list, frame[t], EdgesOf(list'))
  BY WritesWell, AloneWell
<1>4. Vertices(list') = Vertices(list)
  <2>1. CASE Write(t)
    BY <2>1, WriteLocked DEF BlockInv, SizeInv, Confined, Reshaped
  <2>2. CASE WriteAlone(t)
    <3>1. PICK f : f = frame[t]
      OBVIOUS
    <3>2. /\ f \in Frames /\ f.info \in {NoInfo, DoubleInfo} /\ IsList(list)
          /\ f.src \in Vertices(list) /\ f.kind \in {"add", "remove"}
      BY <1>2, <2>2, <3>1, LocalsFound DEF BlockInv, SizeInv, WriteAlone, Writing, Frames
    <3>3. PICK i \in Nat : i = FindEdge(list, f.src, f.dest)
      BY <3>2, FindFits DEF BlockInv, Laid, Slots
    <3>4. CASE f.kind = "add"
      <4>1. list' = Insert(list, i, Element(f), f.src, f.info)
        BY <2>2, <3>1, <3>3, <3>4 DEF WriteAlone, Apply
      <4> QED
        BY <3>2, <3>3, <4>1, InsertShape DEF Grown, Infos
    <3>5. CASE f.kind = "remove"
      <4>1. list' = Remove(list, i, f.dest)
        BY <2>2, <3>1, <3>3, <3>5 DEF WriteAlone, Apply
      <4> QED
        BY <3>2, <3>3, <4>1, RemoveShape
    <3> QED
      BY <3>2, <3>4, <3>5
  <2> QED
    BY <2>1, <2>2
<1> QED
  BY <1>2, <1>3, <1>4, Happens

\* remove_edge finds no edge: there is none.
LEMMA NotFoundHappens ==
  ASSUME BlockInv, OneWriter, NEW t \in Threads, CheckRemove(t), pc'[t] = "idle"
  PROVE  G!Happen(t)
<1>1. PICK f, i : f = frame[t] /\ i = f.index
  OBVIOUS
<1>2. pc[t] = "check" /\ f.kind = "remove" /\ DOMAIN pc = Threads
  BY <1>1 DEF CheckRemove, BlockInv, SizeInv, WriteInv, LeafInv, LockInv, Typed
<1>3. /\ f.fresh /\ UNCHANGED list
      /\ IsNull(list.items[i]) \/ list.items[i].dest # f.dest
  <2>1. ~Extend(t) /\ ~Retry(t) /\ ~Goto(t, "plan")
    BY <1>2 DEF Extend, Retry, CallAgain, Goto
  <2> QED
    BY <1>1, <2>1 DEF CheckRemove
<1>4. Located(list, f) /\ i \in Slots(list)
  <2>1. LeafId(list, f.index) \notin Busy(t)
    BY <1>1, <1>2, OwnLeaf DEF BlockInv, SizeInv, Holding
  <2>2. Sure(list, f, pc[t], Busy(t))
    BY <1>1 DEF BlockInv, Laid
  <2> QED
    BY <1>1, <1>2, <1>3, <2>1, <2>2 DEF Sure, Holding
<1>5. f.dest \in Int /\ WellFormed(list)
  BY <1>1, <1>2, AskedFound DEF BlockInv, Laid
<1>6. Without(list, f.src, f.dest) = EdgesOf(list)
  BY <1>1, <1>3, <1>4, <1>5, SplitsWithout DEF Located
<1>7. Done(list, f, EdgesOf(list'))
  BY <1>2, <1>3, <1>6 DEF Done
<1>8. Continue(t) /\ pc[t] \notin Closed /\ pc'[t] \in Closed
  BY <1>2 DEF Continue, Closed
<1> QED
  BY <1>1, <1>3, <1>7, <1>8, Happens

\* What follows an update moves its elements, and every other step leaves the
\* graph alone.
LEMMA OthersStutter ==
  ASSUME BlockInv, SlidesInside, NEW t \in Threads, Continue(t),
         ~Write(t), ~WriteAlone(t), ~(CheckRemove(t) /\ pc'[t] = "idle")
  PROVE  UNCHANGED <<Count, EdgesOf(list), Calls>>
<1>1. LeafInv /\ DOMAIN pc = Threads
  BY DEF BlockInv, SizeInv, WriteInv, LeafInv, LockInv, Typed
<1>2. EdgesOf(list') = EdgesOf(list) /\ Vertices(list') = Vertices(list)
  <2>1. CASE UNCHANGED list
    BY <2>1
  <2>2. CASE SpreadLeaf(t) \/ SettleDensity(t)
    BY <2>2, WritesWell, WriteLocked DEF BlockInv, SizeInv, Confined, Reshaped
  <2> QED
    BY <2>1, <2>2, ContinueMoves
<1>3. pc'[t] \in Closed <=> pc[t] \in Closed
  <2>1. ASSUME NEW to, Goto(t, to) PROVE pc'[t] = to
    BY <1>1, <2>1 DEF Goto
  <2>2. /\ CallAgain(t) => pc'[t] = "call"
        /\ \A info : Escalate(t, info) => pc'[t] = "upgrade"
        /\ Extend(t) => pc'[t] = pc[t]
        /\ Return(t) => pc'[t] = "idle"
    BY <2>1 DEF CallAgain, Escalate, Extend, Return
  <2>3. CASE CallForced(t) \/ Call(t) \/ Snap(t) \/ ShareLeaf(t) \/ LoadVersion(t) \/ LockLeaf(t) \/ Upgrade(t)
    <3>1. /\ pc[t] \in {"call", "snap", "share", "load", "lock", "upgrade"}
          /\ pc'[t] \in {"force", "snap", "share", "search", "lock", "check"}
      BY <2>1, <2>3 DEF CallForced, Call, Snap, ShareLeaf, LoadVersion, LockLeaf, Upgrade
    <3> QED
      BY <3>1 DEF Closed
  <2>4. CASE Search(t)
    <3>1. pc[t] = "search" /\ pc'[t] \in {"call", "lock", "load"}
      BY <2>1, <2>2, <2>4 DEF Search
    <3> QED
      BY <3>1 DEF Closed
  <2>5. CASE CheckInsert(t) \/ CheckRemove(t)
    <3>1. pc[t] = "check" /\ pc'[t] \in {"call", "upgrade", "check", "plan", "idle"}
      BY <2>1, <2>2, <2>5 DEF CheckInsert, CheckRemove, Retry
    <3>2. CheckInsert(t) => pc'[t] # "idle"
      BY <2>1, <2>2 DEF CheckInsert, Retry
    <3> QED
      BY <2>5, <3>1, <3>2 DEF Closed
  <2>6. CASE Plan(t)
    <3>1. \A b : Restarted(t, b) => pc'[t] \in {"upgrade", "lock"}
      BY <2>1, <2>2 DEF Restarted
    <3>2. pc[t] = "plan" /\ pc'[t] \in {"upgrade", "lock", "plan", "write"}
      BY <2>1, <2>2, <2>6, <3>1 DEF Plan
    <3> QED
      BY <3>2 DEF Closed
  <2>7. CASE SpreadLeaf(t) \/ SettleDensity(t) \/ ReleaseLocks(t) \/ Unlock(t)
    <3>1. /\ pc[t] \in {"spread", "settle", "release", "unlock"}
          /\ pc'[t] \in {"settle", "release", "idle"}
      BY <2>1, <2>2, <2>7 DEF SpreadLeaf, SettleDensity, ReleaseLocks, Unlock
    <3> QED
      BY <3>1 DEF Closed
  <2> QED
    BY <2>3, <2>4, <2>5, <2>6, <2>7 DEF Continue
<1>4. Calls' = Calls
  BY <1>1, <1>3, CallsStay
<1> QED
  BY <1>2, <1>4, Stutters

\* add_node gives the graph a vertex without edges; nothing is under way then.
LEMMA VertexAdds ==
  ASSUME MaxVertices <= MaxU32, BlockInv, AddsAtFreeEnd, AddVertex
  PROVE  G!AddVertex
<1>1. EdgesOf(list') = EdgesOf(list) /\ Vertices(list') = 0 .. Cardinality(Vertices(list))
  BY VertexWell
<1>2. PICK n \in Nat : Vertices(list) = 0 .. n - 1 /\ Cardinality(Vertices(list)) = n
  BY VerticesFound DEF BlockInv, Laid, WellFormed
<1>3. Cardinality(Vertices(list')) = n + 1
  <2>1. PICK m \in Nat : Vertices(list') = 0 .. m - 1 /\ Cardinality(Vertices(list')) = m
    BY VertexWell, VerticesFound DEF WellFormed
  <2>2. 0 .. m - 1 = 0 .. n
    BY <1>1, <1>2, <2>1
  <2>3. n \in 0 .. m - 1 /\ (m > 0 => m - 1 \in 0 .. n)
    BY <2>2
  <2> QED
    BY <2>1, <2>3
<1>4. Calls' = Calls
  <2>1. \A t \in Threads : pc[t] = "idle" /\ pc'[t] = "idle"
    BY DEF AddVertex
  <2>2. \A t \in Threads : Pending(t)' = Pending(t)
    BY <2>1, PendingOf, PendingNext DEF Closed
  <2> QED
    BY <2>2 DEF Calls
<1>5. EdgesOf(list)' = EdgesOf(list') /\ Cardinality(Vertices(list))' = Cardinality(Vertices(list'))
  BY DEF EdgesOf, Vertices, Slots
<1> QED
  BY <1>1, <1>2, <1>3, <1>4, <1>5 DEF G!AddVertex, Calls

\* Each step is a step of the graph or leaves it alone.
LEMMA GraphStep ==
  ASSUME MaxVertices <= MaxU32, OneWriter, BlockInv, SlidesInside, [AddsAtFreeEnd]_vars, [Next]_vars
  PROVE  G!GraphNext \/ UNCHANGED <<Count, EdgesOf(list), Calls>>
<1>1. CASE UNCHANGED vars
  <2>1. UNCHANGED <<list, pc, frame>>
    BY <1>1 DEF vars
  <2>2. \A t \in Threads : Pending(t)' = Pending(t)
    BY <2>1, PendingOf, PendingNext
  <2>3. Calls' = Calls
    BY <2>2 DEF Calls
  <2> QED
    BY <2>1, <2>3, Stutters
<1>2. CASE ~UNCHANGED vars
  <2>1. AddsAtFreeEnd /\ (AddVertex \/ \E t \in Threads : Begin(t) \/ Continue(t))
    BY <1>2 DEF Next
  <2>2. CASE AddVertex
    BY <2>1, <2>2, VertexAdds DEF G!GraphNext
  <2>3. ASSUME NEW t \in Threads, Begin(t) PROVE G!GraphNext
    BY <2>3, BeginCalls DEF G!GraphNext
  <2>4. ASSUME NEW t \in Threads, Continue(t)
        PROVE  G!GraphNext \/ UNCHANGED <<Count, EdgesOf(list), Calls>>
    <3>1. CASE Write(t) \/ WriteAlone(t)
      BY <3>1, WriteHappens DEF G!GraphNext
    <3>2. CASE CheckRemove(t) /\ pc'[t] = "idle"
      BY <3>2, NotFoundHappens DEF G!GraphNext
    <3> QED
      BY <2>4, <3>1, <3>2, OthersStutter
  <2> QED
    BY <2>1, <2>2, <2>3, <2>4
<1> QED
  BY <1>1, <1>2

\* The new list holds no edge.
LEMMA GraphStarts ==
  ASSUME MinCapacity >= 4, InitVertices >= 2, InitVertices <= MaxU32, Init, Exact
  PROVE  G!GraphInit
<1>1. WellFormed(list)
  BY BlockInit DEF BlockInv, Laid
<1>2. Cardinality(Vertices(list)) \in Nat
  BY <1>1, VerticesFound DEF WellFormed
<1>3. EdgesOf(list) = {}
  <2>1. list = InitialList(InitVertices, MinCapacity)
    BY DEF Init
  <2>2. ASSUME NEW p \in Slots(list) PROVE list.items[p] = Null \/ \E v : list.items[p] = Sentinel(v)
    BY <2>1 DEF InitialList, Slots
  <2>3. ~IsEdge(Null) /\ \A v : ~IsEdge(Sentinel(v))
    BY DEF IsEdge, IsNull, IsSentinel, Null, Sentinel
  <2> QED
    BY <2>2, <2>3 DEF EdgesOf
<1>4. \A t \in Threads : Pending(t) = G!NoCall
  BY PendingOf DEF Init, Closed
<1> QED
  BY <1>2, <1>3, <1>4 DEF G!GraphInit

\* edge_exists finds exactly the stored edges, where no two threads work for the
\* same source and no update is half done.
THEOREM EdgeExistsExactCorrect ==
  ASSUME MinCapacity >= 4, InitVertices >= 2, InitVertices <= MaxU32, MaxVertices <= MaxU32, OneWriter
  PROVE  Spec /\ Exact /\ []SlidesInside /\ VertexAtFreeEnd => []EdgeExistsExact
BY ExistsFound, BlockInvCorrect, PTL

\* Every update happens in one step between its call and its return, where no two
\* threads work for the same source: an insertion replaces the value of an edge that
\* is there, a removal takes the edge out or finds that there is none, and retries,
\* escalations, redistributions and resizes of other threads never show.
THEOREM GraphCorrect ==
  ASSUME MinCapacity >= 4, InitVertices >= 2, InitVertices <= MaxU32, MaxVertices <= MaxU32, OneWriter
  PROVE  Spec /\ Exact /\ []SlidesInside /\ VertexAtFreeEnd => ImplementsGraph
<1>1. Init /\ Exact => G!GraphInit
  BY GraphStarts
<1>2. BlockInv /\ SlidesInside /\ [AddsAtFreeEnd]_vars /\ [Next]_vars
        => [G!GraphNext]_<<Cardinality(Vertices(list)), EdgesOf(list), [t \in Threads |-> Pending(t)]>>
  BY GraphStep DEF Count, Calls
<1> QED
  BY <1>1, <1>2, BlockInvCorrect, PTL DEF Spec, VertexAtFreeEnd, ImplementsGraph, G!GraphSpec

----------------------------------------------------------------------------
(* Types.                                                                  *)

\* The leaf of a slot has a lock.
LEMMA LeafOfSlot ==
  ASSUME NEW L, IsList(L), NEW p \in Slots(L)
  PROVE  LeafId(L, p) \in Leaves(L)
<1>1. PICK len, c : len = LogN(L.N) /\ c = 2^Height(L.N)
  OBVIOUS
<1>2. len \in Nat \ {0} /\ c \in Nat /\ c * len = L.N
  <2>1. len \in Nat \ {0} /\ Height(L.N) \in Nat /\ len * c = L.N
    BY <1>1, LeafLength DEF IsList
  <2>2. c \in Nat
    BY <1>1, <2>1, Powers
  <2> QED
    BY <2>1, <2>2
<1>3. p \in Nat /\ p < L.N /\ L.N \in Nat
  BY SlotsFound DEF Slots
<1>4. LeafId(L, p) \in Nat /\ LeafId(L, p) < c
  BY <1>1, <1>2, <1>3, Division DEF LeafId
<1>5. L.N \div len = c
  <2>1. c * len <= L.N /\ L.N < c * len + len
    BY <1>2, <1>3
  <2> QED
    BY <1>2, <1>3, <2>1, Division
<1> QED
  BY <1>1, <1>2, <1>4, <1>5 DEF Leaves

\* The leaves left of one.
LEMMA LeavesBelow ==
  ASSUME NEW L, IsList(L), NEW hi \in Leaves(L), NEW i \in Nat, i <= hi
  PROVE  i \in Leaves(L)
<1>1. PICK len \in Nat \ {0}, N \in Nat : len = LogN(L.N) /\ N = L.N
  BY LeafLength, SlotsFound DEF IsList
<1>2. PICK m \in Int : m = N \div len
  BY <1>1
<1>3. Leaves(L) = 0 .. m - 1
  BY <1>1, <1>2 DEF Leaves
<1>4. hi \in 0 .. m - 1
  BY <1>3
<1>5. i \in 0 .. m - 1
  BY <1>4
<1> QED
  BY <1>3, <1>5

\* Where a slot is not locked and not to the left, there is one leaf more to lock.
LEMMA RightOfHeld ==
  ASSUME NEW L, IsList(L), NEW lo \in Nat, NEW hi \in Nat, NEW p \in Slots(L),
         p \notin Locked(L, lo, hi), lo <= LeafId(L, p)
  PROVE  hi + 1 \in Leaves(L)
<1>1. LeafId(L, p) \in Leaves(L) /\ LeafId(L, p) \in Nat
  BY LeafOfSlot, LeafFound, SlotsFound
<1>2. LeafId(L, p) > hi
  BY <1>1 DEF Locked
<1> QED
  BY <1>1, <1>2, LeavesBelow

\* got_correct_insertion_index locks a leaf that exists.
LEMMA CheckLocks ==
  ASSUME NEW L, IsList(L), NEW src, NEW index \in Nat, NEW dest, NEW hi \in Nat,
         CheckIndex(L, src, index, dest, hi) = Lock
  PROVE  hi + 1 \in Leaves(L)
<1>1. PICK q : q = IF NextElement(L, index) < L.N THEN NextElement(L, index) ELSE L.N - 1
  OBVIOUS
<1>2. LeafId(L, q) > hi
  <2>1. \A b : Correct(b) # Lock
    <3>1. \A b : Correct(b).do = "checked" /\ Lock.do = "lock"
      BY DEF Correct, Lock
    <3> QED
      BY <3>1
  <2> QED
    BY <1>1, <2>1 DEF CheckIndex
<1>3. q \in Slots(L)
  <2>1. L.N \in Nat \ {0}
    BY SlotsFound
  <2>2. PICK S : S = {p \in index + 1 .. L.N - 1 : ~IsNull(L.items[p])}
    OBVIOUS
  <2>3. NextElement(L, index) = IF S = {} THEN L.N ELSE Least(S)
    BY <2>2 DEF NextElement
  <2>4. CASE S = {}
    BY <1>1, <2>1, <2>3, <2>4 DEF Slots
  <2>5. CASE S # {}
    <3>1. S \subseteq Nat /\ S \subseteq Slots(L)
      BY <2>1, <2>2 DEF Slots
    <3>2. Least(S) \in S
      BY <2>5, <3>1, LeastFound
    <3>3. NextElement(L, index) \in Slots(L)
      BY <2>3, <2>5, <3>1, <3>2
    <3>4. L.N - 1 \in Slots(L)
      BY <2>1 DEF Slots
    <3> QED
      BY <1>1, <3>3, <3>4
  <2> QED
    BY <2>4, <2>5
<1>4. LeafId(L, q) \in Leaves(L) /\ LeafId(L, q) \in Nat
  BY <1>3, LeafOfSlot, LeafFound, SlotsFound
<1> QED
  BY <1>2, <1>4, LeavesBelow

\* slide_right does.
LEMMA SlideLocks ==
  ASSUME NEW L, IsList(L), NEW lo \in Nat, NEW hi \in Nat, NEW index \in Slots(L),
         lo <= LeafId(L, index), NEW info, PlanSlide(L, index, lo, hi, info).do = "lock"
  PROVE  hi + 1 \in Leaves(L)
<1>1. PICK stop : stop = {p \in index + 1 .. L.N - 1 : p \notin Locked(L, lo, hi) \/ IsNull(L.items[p])}
  OBVIOUS
<1>2. stop # {} /\ Least(stop) \notin Locked(L, lo, hi)
  BY <1>1, DecisionsDiffer DEF PlanSlide
<1>3. index \in Nat /\ L.N \in Nat
  BY SlotsFound
<1>4. PICK p \in stop : p = Least(stop)
  <2>1. stop \subseteq Nat
    BY <1>1, <1>3
  <2> QED
    BY <1>2, <2>1, LeastFound
<1>5. p \in Slots(L) /\ p \in Nat /\ index <= p
  BY <1>1, <1>3, <1>4 DEF Slots
<1>6. lo <= LeafId(L, p)
  <2>1. LeafId(L, index) \in Nat /\ LeafId(L, p) \in Nat /\ LeafId(L, index) <= LeafId(L, p)
    BY <1>3, <1>5, LeafFound
  <2> QED
    BY <2>1
<1> QED
  BY <1>2, <1>4, <1>5, <1>6, RightOfHeld

\* A window that begins right of lo and is not locked ends right of hi.
LEMMA WindowLocks ==
  ASSUME NEW L, IsList(L), NEW lo \in Nat, NEW hi \in Nat, NEW index \in Slots(L),
         NEW j \in 0 .. Height(L.N),
         ~(Window(StartAt(L, index, j), LenAt(L, j)) \subseteq Locked(L, lo, hi)),
         ~(LeafId(L, StartAt(L, index, j)) < lo)
  PROVE  hi + 1 \in Leaves(L)
<1>1. index \in Nat /\ Height(L.N) \in Nat
  BY SlotsFound, LeafLength DEF IsList
<1>2. PICK start \in Nat, len \in Nat : start = StartAt(L, index, j) /\ len = LenAt(L, j)
  BY <1>1, LevelFound
<1>3. Window(start, len) \subseteq Slots(L)
  BY <1>1, <1>2, LevelsNest
<1>4. PICK p \in Window(start, len) : p \notin Locked(L, lo, hi)
  BY <1>2
<1>5. p \in Slots(L) /\ p \in Nat /\ start <= p
  BY <1>2, <1>3, <1>4 DEF Window
<1>6. lo <= LeafId(L, p)
  <2>1. LeafId(L, start) \in Nat /\ LeafId(L, p) \in Nat /\ LeafId(L, start) <= LeafId(L, p)
    BY <1>2, <1>5, LeafFound
  <2> QED
    BY <1>2, <2>1
<1> QED
  BY <1>4, <1>5, <1>6, RightOfHeld

\* acquire_insert_locks does.
LEMMA InsertLocks ==
  ASSUME NEW L, IsList(L), NEW lo \in Nat, NEW hi \in Nat, NEW index \in Slots(L),
         lo <= LeafId(L, index), PlanInsert(L, index, lo, hi).do = "lock"
  PROVE  hi + 1 \in Leaves(L)
<1> DEFINE len == LogN(L.N)
           leaf == FindNode(index, len)
           base == IF Full(L, leaf, len) + 1 = len THEN FindNode(leaf, 2 * len) ELSE leaf
           H == Height(L.N)
           Known(j) == Window(StartAt(L, base, j), LenAt(L, j)) \subseteq Locked(L, lo, hi)
           T == {j \in 0 .. H + 1 : j = H + 1 \/ ~Known(j) \/ ~DenseAt(L, base, j, 1)}
           top == Least(T)
           told == RangeInfo(StartAt(L, base, top), LenAt(L, top))
<1>1. H \in Nat /\ len \in Nat \ {0}
  BY LeafLength DEF IsList
<1>2. base \in Slots(L)
  <2>1. index \in Nat /\ L.N \in Nat /\ index < L.N
    BY SlotsFound DEF Slots
  <2>2. leaf \in Nat /\ leaf <= index
    BY <1>1, <2>1, NodeFound
  <2>3. FindNode(leaf, 2 * len) \in Nat /\ FindNode(leaf, 2 * len) <= leaf
    <3>1. 2 * len \in Nat \ {0}
      BY <1>1
    <3> HIDE DEF leaf
    <3> QED
      BY <2>2, <3>1, NodeFound
  <2> HIDE DEF leaf, len
  <2> QED
    BY <2>1, <2>2, <2>3 DEF Slots
<1>3. top \in 0 .. H + 1
  <2>1. T \subseteq Nat /\ H + 1 \in T
    BY <1>1
  <2>2. top \in T
    <3> HIDE DEF T
    <3> QED
      BY <2>1, LeastFound
  <2> QED
    BY <2>2
<1>4. PlanInsert(L, index, lo, hi) =
        IF top = H + 1 THEN Global(DoubleInfo)
        ELSE IF Known(top) THEN PlanSlide(L, index, lo, hi, told)
        ELSE IF LeafId(L, StartAt(L, base, top)) < lo THEN Restart(LeafId(L, StartAt(L, base, top)))
        ELSE Lock
  BY DEF PlanInsert
<1> HIDE DEF base, T, top, told, H
<1>5. top # H + 1
  BY <1>4, DecisionsDiffer
<1>6. CASE Known(top)
  BY <1>4, <1>5, <1>6, SlideLocks
<1>7. CASE ~Known(top)
  <2>1. ~(LeafId(L, StartAt(L, base, top)) < lo)
    BY <1>4, <1>5, <1>7, DecisionsDiffer
  <2>2. top \in 0 .. H
    BY <1>1, <1>3, <1>5
  <2> QED
    BY <1>2, <1>7, <2>1, <2>2, WindowLocks DEF H
<1> QED
  BY <1>6, <1>7

\* acquire_remove_locks does.
LEMMA RemoveLocks ==
  ASSUME NEW L, IsList(L), NEW lo \in Nat, NEW hi \in Nat, NEW index \in Slots(L),
         PlanRemove(L, index, lo, hi).do = "lock"
  PROVE  hi + 1 \in Leaves(L)
<1> DEFINE H == Height(L.N)
           Known(j) == Window(StartAt(L, index, j), LenAt(L, j)) \subseteq Locked(L, lo, hi)
           T == {j \in 0 .. H + 1 : j = H + 1 \/ ~Known(j) \/ ~SparseAt(L, index, j, 1)}
           top == Least(T)
<1>1. H \in Nat
  BY LeafLength DEF IsList
<1>2. top \in 0 .. H + 1
  <2>1. T \subseteq Nat /\ H + 1 \in T
    BY <1>1
  <2>2. top \in T
    <3> HIDE DEF T
    <3> QED
      BY <2>1, LeastFound
  <2> QED
    BY <2>2
<1>3. PlanRemove(L, index, lo, hi) =
        IF top = H + 1 THEN Global(NoInfo)
        ELSE IF Known(top) THEN Go(NoInfo)
        ELSE IF LeafId(L, StartAt(L, index, top)) < lo THEN Restart(LeafId(L, StartAt(L, index, top)))
        ELSE Lock
  BY DEF PlanRemove
<1> HIDE DEF T, top, H
<1>4. top # H + 1 /\ ~Known(top) /\ ~(LeafId(L, StartAt(L, index, top)) < lo)
  BY <1>3, DecisionsDiffer
<1>5. top \in 0 .. H
  BY <1>1, <1>2, <1>4
<1> QED
  BY <1>4, <1>5, WindowLocks DEF H

\* A thread locks leaves that exist, and has no locals outside of a call.
InLeaves(L, f, at, S) ==
  /\ S \subseteq Leaves(L)
  /\ at \in {"share", "search"} => f.end \in Slots(L)
  /\ at \in {"load", "lock"} \cup Holding => f.hi \in Leaves(L)
  /\ at = "idle" => f = NoFrame

Bounded == \A t \in Threads : InLeaves(list, frame[t], pc[t], shared[t])

\* What a thread knows of the leaves depends on the list's length only.
LEMMA LengthCounts ==
  ASSUME NEW L, NEW M, M.N = L.N, NEW f, NEW at, NEW S
  PROVE  InLeaves(M, f, at, S) <=> InLeaves(L, f, at, S)
BY DEF InLeaves, Leaves, Slots

\* Where a thread holds no leaf lock and is looking for none.
LEMMA NoLeaves ==
  ASSUME NEW L, NEW f, NEW at \in (Outside \cup Alone \cup {"snap"}) \ {"idle"}
  PROVE  InLeaves(L, f, at, {})
BY DEF InLeaves, Outside, Alone, Holding

\* release_locks tells a thread only that its search is stale.
LEMMA StillInLeaves ==
  ASSUME NEW L, NEW f \in Frames, NEW at, NEW S, at # "idle", InLeaves(L, f, at, S)
  PROVE  InLeaves(L, [f EXCEPT !.fresh = FALSE], at, S)
<1>1. PICK g : g = [f EXCEPT !.fresh = FALSE]
  OBVIOUS
<1>2. g.end = f.end /\ g.hi = f.hi
  BY <1>1 DEF Frames
<1> QED
  BY <1>1, <1>2 DEF InLeaves

\* The other threads while t takes a step.
LEMMA BoundedOthers ==
  ASSUME WriteInv, Bounded, NEW t \in Threads, Continue(t), NEW u \in Threads \ {t}
  PROVE  InLeaves(list', frame'[u], pc'[u], shared'[u])
<1>1. /\ pc'[u] = pc[u] /\ shared'[u] = shared[u]
      /\ \/ frame'[u] = frame[u]
         \/ pc[u] \in {"lock", "check", "plan"} /\ frame'[u] = [frame[u] EXCEPT !.fresh = FALSE]
  BY OthersStay DEF WriteInv
<1>2. InLeaves(list, frame[u], pc[u], shared[u]) /\ (pc[u] # "idle" => frame[u] \in Frames)
  BY DEF Bounded, WriteInv, LeafInv, FramesTyped
<1>3. InLeaves(list, frame'[u], pc'[u], shared'[u])
  BY <1>1, <1>2, StillInLeaves
<1>4. CASE WriteAlone(t)
  <2>1. LockInv /\ global_lock[t] = "exclusive"
    BY <1>4 DEF WriteAlone, WriteInv, LeafInv, LockInv, ModeFollowsPc, Alone
  <2>2. pc[u] \in Outside
    <3>1. global_lock[u] = "none" /\ pc[u] \in PCs
      BY <2>1 DEF LockInv, GlobalExclusion, Typed
    <3> QED
      BY <2>1, <3>1 DEF LockInv, ModeFollowsPc, PCs, Inside, Alone, Outside
  <2>3. shared[u] = {}
    BY <2>1, <2>2 DEF LockInv, LeavesFollowPc, Outside
  <2>4. CASE pc[u] = "idle"
    BY <1>3, <1>1, <2>3, <2>4 DEF InLeaves, Holding
  <2>5. CASE pc[u] # "idle"
    BY <1>1, <2>2, <2>3, <2>5, NoLeaves
  <2> QED
    BY <2>4, <2>5
<1>5. CASE Write(t) \/ SpreadLeaf(t) \/ SettleDensity(t)
  <2>1. list'.N = list.N
    BY <1>5, WriteLocked DEF Confined, Reshaped
  <2> QED
    BY <1>3, <2>1, LengthCounts
<1> QED
  BY <1>3, <1>4, <1>5, ContinueMoves

\* What a step of t needs.
LEMMA BoundedMoves ==
  ASSUME WriteInv, Bounded, NEW t \in Threads, Continue(t),
         InLeaves(list', frame'[t], pc'[t], shared'[t])
  PROVE  Bounded'
<1>1. \A u \in Threads : InLeaves(list', frame'[u], pc'[u], shared'[u])
  BY BoundedOthers
<1> QED
  BY <1>1 DEF Bounded, InLeaves, Leaves, Slots, LogN, Bsr

\* A thread that is not searching holds no shared leaf lock.
LEMMA NoneShared ==
  ASSUME WriteInv, NEW t \in Threads, pc[t] \notin {"share", "search"}
  PROVE  shared[t] = {}
BY DEF WriteInv, LeafInv, LockInv, LeavesFollowPc

\* Steps that neither lock a leaf nor look for one.
LEMMA BoundedOut ==
  ASSUME WriteInv, Bounded, NEW t \in Threads, Continue(t), pc[t] # "idle",
         \/ CallAgain(t) /\ (UNCHANGED shared \/ shared' = [shared EXCEPT ![t] = {}])
         \/ UNCHANGED shared /\ \E info : Escalate(t, info)
         \/ UNCHANGED shared /\ Return(t),
         pc[t] \in {"share", "search"} => shared' = [shared EXCEPT ![t] = {}]
  PROVE  Bounded'
<1>1. DOMAIN pc = Threads /\ DOMAIN frame = Threads /\ DOMAIN shared = Threads
  BY DEF WriteInv, LeafInv, LockInv, Typed, FramesTyped
<1>2. shared'[t] = {}
  BY <1>1, NoneShared
<1>3. pc'[t] \in {"call", "upgrade"} \/ (pc'[t] = "idle" /\ frame'[t] = NoFrame)
  BY <1>1 DEF CallAgain, Escalate, Return, Goto, SetFrame
<1>4. InLeaves(list', frame'[t], pc'[t], shared'[t])
  <2>1. CASE pc'[t] \in {"call", "upgrade"}
    BY <1>2, <2>1, NoLeaves DEF Outside
  <2>2. CASE pc'[t] = "idle" /\ frame'[t] = NoFrame
    BY <1>2, <2>2 DEF InLeaves, Holding
  <2> QED
    BY <1>3, <2>1, <2>2
<1> QED
  BY <1>4, BoundedMoves

\* The steps before the search and outside of the shared section.
LEMMA BoundedEnter ==
  ASSUME BlockInv, Bounded, NEW t \in Threads,
         \/ CallForced(t) \/ Call(t) \/ Snap(t) \/ Upgrade(t) \/ ShareLeaf(t) \/ WriteAlone(t)
  PROVE  Bounded'
<1>1. /\ WriteInv /\ DOMAIN pc = Threads /\ DOMAIN frame = Threads /\ DOMAIN shared = Threads
      /\ IsList(list) /\ WellFormed(list) /\ Shares(t)
      /\ InLeaves(list, frame[t], pc[t], shared[t])
  BY DEF BlockInv, SizeInv, WriteInv, LeafInv, LockInv, Typed, FramesTyped, Laid, WellFormed, Sharing, Bounded
<1>2. Continue(t) /\ pc[t] # "idle"
  BY DEF Continue, CallForced, Call, Snap, Upgrade, ShareLeaf, WriteAlone
<1>3. PICK f : f = frame[t]
  OBVIOUS
<1>4. f \in Frames
  BY <1>1, <1>2, <1>3, LocalsFound
<1>5. CASE CallForced(t) \/ Call(t) \/ Upgrade(t) \/ WriteAlone(t)
  <2>1. pc'[t] \in {"force", "snap", "unlock"} /\ UNCHANGED shared /\ pc[t] \notin {"share", "search"}
    BY <1>1, <1>5 DEF CallForced, Call, Upgrade, WriteAlone, Goto
  <2>2. shared'[t] = {}
    BY <1>1, <2>1, NoneShared
  <2>3. InLeaves(list', frame'[t], pc'[t], shared'[t])
    BY <2>1, <2>2, NoLeaves DEF Alone
  <2> QED
    BY <1>1, <1>2, <2>3, BoundedMoves
<1>6. CASE Snap(t)
  <2>1. PICK e, x : e = list.nodes[f.src].end /\ x = FirstNode([f EXCEPT !.end = e])
    OBVIOUS
  <2>2. PICK g : g = [[f EXCEPT !.end = e] EXCEPT !.next = x]
    OBVIOUS
  <2>3. frame'[t] = g /\ pc'[t] \in {"share", "search"} /\ UNCHANGED <<list, shared>>
    BY <1>1, <1>3, <1>6, <2>1, <2>2 DEF Snap, SetFrame, Goto
  <2>4. g.end = e
    BY <1>4, <2>2 DEF Frames
  <2>5. e \in Slots(list)
    BY <1>1, <1>4, <2>1, RangeFound DEF Frames
  <2>6. InLeaves(list', frame'[t], pc'[t], shared'[t])
    BY <1>1, <2>3, <2>4, <2>5 DEF InLeaves, Holding
  <2> QED
    BY <1>1, <1>2, <2>6, BoundedMoves
<1>7. CASE ShareLeaf(t)
  <2>1. PICK x : x = f.next
    OBVIOUS
  <2>2. PICK g : g = [f EXCEPT !.next = x + 1]
    OBVIOUS
  <2>3. /\ frame'[t] = g /\ shared'[t] = shared[t] \cup {x} /\ pc[t] = "share"
        /\ pc'[t] \in {"share", "search"} /\ UNCHANGED list
    BY <1>1, <1>3, <1>7, <2>1, <2>2 DEF ShareLeaf, SetFrame, Goto
  <2>4. g.end = f.end /\ x \in Nat
    BY <1>4, <2>1, <2>2 DEF Frames
  <2>5. f.end \in Slots(list) /\ x <= LeafId(list, f.end)
    BY <1>1, <1>3, <2>1, <2>3 DEF InLeaves, Shares, LastNode
  <2>6. x \in Leaves(list)
    BY <1>1, <2>4, <2>5, LeafOfSlot, LeavesBelow
  <2>7. InLeaves(list', frame'[t], pc'[t], shared'[t])
    BY <1>1, <2>3, <2>4, <2>5, <2>6, SMTT(30) DEF InLeaves, Holding
  <2> QED
    BY <1>1, <1>2, <2>7, BoundedMoves
<1> QED
  BY <1>5, <1>6, <1>7

\* The search ends in a slot, whose leaf is the last one to lock.
LEMMA BoundedSearch ==
  ASSUME BlockInv, Bounded, NEW t \in Threads, Search(t)
  PROVE  Bounded'
<1>1. /\ WriteInv /\ DOMAIN pc = Threads /\ DOMAIN frame = Threads /\ DOMAIN shared = Threads
      /\ IsList(list) /\ WellFormed(list) /\ pc[t] = "search" /\ Continue(t)
  BY DEF BlockInv, SizeInv, WriteInv, LeafInv, LockInv, Typed, FramesTyped, Laid, WellFormed, Search, Continue
<1>2. PICK f : f = frame[t]
  OBVIOUS
<1>3. f \in Frames /\ f.src \in Vertices(list)
  BY <1>1, <1>2, LocalsFound DEF Frames
<1>4. shared' = [shared EXCEPT ![t] = {}]
  BY DEF Search
<1>5. CASE CallAgain(t)
  BY <1>1, <1>4, <1>5, BoundedOut
<1>6. ASSUME NEW i \in Found(t), NEW lo, ~(lock_bsearch /\ Moved(f)),
             SetFrame(t, [f EXCEPT !.index = i, !.lo = lo, !.hi = LeafId(list, i), !.next = lo]),
             Goto(t, IF lock_bsearch THEN "lock" ELSE "load"), UNCHANGED list
      PROVE  Bounded'
  <2>1. PICK h : h = LeafId(list, i)
    OBVIOUS
  <2>2. PICK g : g = [f EXCEPT !.index = i, !.lo = lo, !.hi = h, !.next = lo]
    OBVIOUS
  <2>3. frame'[t] = g /\ pc'[t] \in {"lock", "load"} /\ shared'[t] = {}
    BY <1>1, <1>4, <1>6, <2>1, <2>2 DEF SetFrame, Goto
  <2>4. g.hi = h
    BY <1>3, <2>2 DEF Frames
  <2>5. i \in Slots(list)
    <3>1. i = FindEdge(list, f.src, f.dest)
      BY <1>1, <1>2, <1>6, SearchExact
    <3> QED
      BY <1>1, <1>3, <3>1, FindFits
  <2>6. h \in Leaves(list)
    BY <1>1, <2>1, <2>5, LeafOfSlot
  <2>7. InLeaves(list', frame'[t], pc'[t], shared'[t])
    BY <1>6, <2>3, <2>4, <2>6 DEF InLeaves
  <2> QED
    BY <1>1, <2>7, BoundedMoves
<1>7. CallAgain(t) \/ \E i \in Found(t) : \E lo \in {LeafId(list, i), LeafId(list, i) - 1} :
        /\ ~(lock_bsearch /\ Moved(f)) /\ UNCHANGED list
        /\ SetFrame(t, [f EXCEPT !.index = i, !.lo = lo, !.hi = LeafId(list, i), !.next = lo])
        /\ Goto(t, IF lock_bsearch THEN "lock" ELSE "load")
  BY <1>2, Zenon DEF Search
<1> QED
  BY <1>5, <1>6, <1>7

\* Leaves are locked up to the last one, and one more where there is one.
LEMMA BoundedLocks ==
  ASSUME BlockInv, Bounded, NEW t \in Threads, pc[t] \in {"load", "lock"} \cup Holding, Continue(t),
         list'.N = list.N, UNCHANGED shared, pc'[t] \in {"load", "lock"} \cup Holding,
         frame'[t].hi \in Leaves(list)
  PROVE  Bounded'
<1>1. WriteInv /\ InLeaves(list, frame[t], pc[t], shared[t])
  BY DEF BlockInv, SizeInv, Bounded
<1>2. InLeaves(list, frame'[t], pc'[t], shared'[t])
  BY <1>1 DEF InLeaves, Holding
<1>3. InLeaves(list', frame'[t], pc'[t], shared'[t])
  BY <1>2, LengthCounts
<1> QED
  BY <1>1, <1>3, BoundedMoves

\* Where a thread is on its way to its write.
LEMMA BoundedExtend ==
  ASSUME BlockInv, Bounded, NEW t \in Threads, pc[t] \in {"check", "plan"}, Continue(t), Extend(t),
         frame[t].hi + 1 \in Leaves(list)
  PROVE  Bounded'
<1>1. WriteInv /\ DOMAIN frame = Threads
  BY DEF BlockInv, SizeInv, WriteInv, LeafInv, FramesTyped
<1>2. PICK f, h : f = frame[t] /\ h = frame[t].hi + 1
  OBVIOUS
<1>3. f \in Frames
  BY <1>1, <1>2, LocalsFound
<1>4. PICK g : g = [f EXCEPT !.hi = h]
  OBVIOUS
<1>5. frame'[t] = g /\ UNCHANGED <<list, shared, pc>>
  BY <1>1, <1>2, <1>4 DEF Extend, SetFrame
<1>6. g.hi = h
  BY <1>3, <1>4 DEF Frames
<1> QED
  BY <1>2, <1>5, <1>6, BoundedLocks DEF Holding

\* What a thread knows of the leaves that it holds.
LEMMA HolderFound ==
  ASSUME BlockInv, Bounded, NEW t \in Threads, pc[t] \in {"load", "lock"} \cup Holding
  PROVE  LET f == frame[t]
         IN  /\ f \in Frames /\ f.index \in Slots(list) /\ f.lo \in Nat /\ f.hi \in Nat
             /\ f.hi \in Leaves(list) /\ f.lo <= LeafId(list, f.index)
<1>1. pc[t] # "idle"
  BY DEF Holding
<1>2. frame[t] \in Frames /\ Ready(list, frame[t], pc[t]) /\ Sure(list, frame[t], pc[t], Busy(t))
  BY <1>1, LocalsFound DEF BlockInv, SizeInv, Laid
<1> QED
  BY <1>2 DEF Frames, Ready, Sure, Bounded, InLeaves

\* The exclusive locks, the check, the writes and the release.
LEMMA BoundedHold ==
  ASSUME BlockInv, Bounded, NEW t \in Threads,
         \/ LoadVersion(t) \/ LockLeaf(t) \/ CheckInsert(t) \/ CheckRemove(t)
         \/ Write(t) \/ SpreadLeaf(t) \/ SettleDensity(t) \/ ReleaseLocks(t)
  PROVE  Bounded'
<1>1. /\ WriteInv /\ DOMAIN pc = Threads /\ DOMAIN frame = Threads /\ DOMAIN shared = Threads
      /\ IsList(list)
  BY DEF BlockInv, SizeInv, WriteInv, LeafInv, LockInv, Typed, FramesTyped
<1>2. Continue(t) /\ pc[t] # "idle" /\ pc[t] \in {"load", "lock"} \cup Holding
  BY DEF Continue, Holding, LoadVersion, LockLeaf, CheckInsert, CheckRemove, Write, SpreadLeaf, SettleDensity,
         ReleaseLocks
<1>3. PICK f : f = frame[t]
  OBVIOUS
<1>4. /\ f \in Frames /\ f.index \in Slots(list) /\ f.lo \in Nat /\ f.hi \in Nat
      /\ f.hi \in Leaves(list)
  BY <1>2, <1>3, HolderFound
<1>5. ASSUME list'.N = list.N, UNCHANGED <<shared, frame>>, pc'[t] \in {"load", "lock"} \cup Holding
      PROVE  Bounded'
  BY <1>2, <1>3, <1>4, <1>5, BoundedLocks
<1>6. CASE LoadVersion(t)
  BY <1>1, <1>5, <1>6 DEF LoadVersion, Goto
<1>7. CASE LockLeaf(t)
  <2>1. PICK x : x = f.next + 1
    OBVIOUS
  <2>2. PICK g : g = [f EXCEPT !.next = x]
    OBVIOUS
  <2>3. frame'[t] = g /\ pc'[t] \in {"check", "lock"} /\ UNCHANGED <<list, shared>>
    BY <1>1, <1>3, <1>7, <2>1, <2>2 DEF LockLeaf, SetFrame, Goto
  <2>4. g.hi = f.hi
    BY <1>4, <2>2 DEF Frames
  <2> QED
    BY <1>2, <1>4, <2>3, <2>4, BoundedLocks DEF Holding
<1>8. CASE CheckInsert(t) \/ CheckRemove(t)
  <2>1. pc[t] = "check"
    BY <1>8 DEF CheckInsert, CheckRemove
  <2>2. CASE Retry(t)
    BY <1>1, <1>2, <2>1, <2>2, BoundedOut DEF Retry
  <2>3. CASE Escalate(t, NoInfo)
    BY <1>1, <1>2, <2>1, <2>3, BoundedOut DEF Escalate
  <2>4. CASE Return(t) /\ UNCHANGED <<list, shared>>
    BY <1>1, <1>2, <2>1, <2>4, BoundedOut
  <2>5. CASE Goto(t, "plan") /\ UNCHANGED <<list, shared, frame>>
    BY <1>1, <1>5, <2>5 DEF Goto, Holding
  <2>6. CASE Extend(t) /\ CheckIndex(list, f.src, f.index, f.dest, f.hi) = Lock
    <3>1. f.index \in Nat
      BY <1>1, <1>4, SlotsFound
    <3>2. f.hi + 1 \in Leaves(list)
      BY <1>1, <1>4, <2>6, <3>1, CheckLocks
    <3> QED
      BY <1>2, <1>3, <2>1, <2>6, <3>2, BoundedExtend
  <2>7. Lock \in IndexChecks(t) => CheckIndex(list, f.src, f.index, f.dest, f.hi) = Lock
    <3>1. Correct(FALSE) # Lock
      <4>1. Correct(FALSE).do = "checked" /\ Lock.do = "lock"
        BY DEF Correct, Lock
      <4> QED
        BY <4>1
    <3> QED
      BY <1>3, <3>1 DEF IndexChecks
  <2>8. CASE CheckInsert(t)
    <3>1. \/ Retry(t) \/ Escalate(t, NoInfo) \/ (Goto(t, "plan") /\ UNCHANGED <<list, shared, frame>>)
          \/ (Extend(t) /\ Lock \in IndexChecks(t))
      BY <2>8, Zenon DEF CheckInsert
    <3> QED
      BY <2>2, <2>3, <2>5, <2>6, <2>7, <3>1
  <2>9. CASE CheckRemove(t)
    <3>1. \/ Retry(t) \/ (Return(t) /\ UNCHANGED <<list, shared>>)
          \/ (Goto(t, "plan") /\ UNCHANGED <<list, shared, frame>>) \/ (Extend(t) /\ Lock \in IndexChecks(t))
      BY <2>9, Zenon DEF CheckRemove
    <3> QED
      BY <2>2, <2>4, <2>5, <2>6, <2>7, <3>1
  <2> QED
    BY <1>8, <2>8, <2>9
<1>9. CASE Write(t) \/ SpreadLeaf(t) \/ SettleDensity(t)
  <2>1. list'.N = list.N
    BY <1>1, <1>9, WriteLocked DEF Confined, Reshaped
  <2>2. UNCHANGED <<shared, frame>> /\ pc'[t] \in Holding
    BY <1>1, <1>9 DEF Write, SpreadLeaf, SettleDensity, Goto, Holding
  <2> QED
    BY <1>5, <2>1, <2>2
<1>10. CASE ReleaseLocks(t)
  <2>1. frame'[t] = NoFrame /\ pc'[t] = "idle" /\ UNCHANGED shared /\ pc[t] = "release"
    BY <1>1, <1>10 DEF ReleaseLocks, Goto
  <2>2. shared'[t] = {}
    BY <1>1, <2>1, NoneShared
  <2>3. InLeaves(list', frame'[t], pc'[t], shared'[t])
    BY <2>1, <2>2 DEF InLeaves, Holding
  <2> QED
    BY <1>1, <1>2, <2>3, BoundedMoves
<1> QED
  BY <1>6, <1>7, <1>8, <1>9, <1>10

\* The decision, and the end of the exclusive section.
LEMMA BoundedPlan ==
  ASSUME BlockInv, Bounded, NEW t \in Threads, Plan(t) \/ Unlock(t)
  PROVE  Bounded'
<1>1. /\ WriteInv /\ DOMAIN pc = Threads /\ DOMAIN frame = Threads /\ IsList(list)
      /\ Continue(t) /\ pc[t] \in {"plan", "unlock"}
  BY DEF BlockInv, SizeInv, WriteInv, LeafInv, LockInv, Typed, FramesTyped, Continue, Plan, Unlock
<1>2. ASSUME NEW info, Escalate(t, info) PROVE Bounded'
  BY <1>1, <1>2, BoundedOut DEF Escalate
<1>3. CASE Unlock(t)
  BY <1>1, <1>3, BoundedOut DEF Unlock
<1>4. CASE Plan(t)
  <2>1. PICK d, f : d = Decision(t) /\ f = frame[t]
    OBVIOUS
  <2>2. /\ pc[t] = "plan"
        /\ \/ d.do = "lock" /\ Extend(t)
           \/ Restarted(t, d.from)
           \/ Escalate(t, d.info)
           \/ /\ SetFrame(t, [f EXCEPT !.info = d.info])
              /\ Goto(t, "write")
              /\ UNCHANGED <<list, global_lock, shared, exclusive>>
    BY <1>4, <2>1 DEF Plan
  <2>3. /\ f \in Frames /\ f.index \in Slots(list) /\ f.lo \in Nat /\ f.hi \in Nat
        /\ f.hi \in Leaves(list) /\ f.lo <= LeafId(list, f.index)
    BY <2>1, <2>2, HolderFound DEF Holding
  <2>4. CASE d.do = "lock" /\ Extend(t)
    <3>1. \/ PlanInsert(list, f.index, f.lo, f.hi).do = "lock"
          \/ PlanRemove(list, f.index, f.lo, f.hi).do = "lock"
      BY <2>1, <2>4 DEF Decision
    <3>2. f.hi + 1 \in Leaves(list)
      BY <1>1, <2>3, <3>1, InsertLocks, RemoveLocks
    <3> QED
      BY <1>1, <2>1, <2>2, <2>4, <3>2, BoundedExtend
  <2>5. ASSUME NEW tries, UNCHANGED <<list, shared>>, Goto(t, "lock"),
               SetFrame(t, [f EXCEPT !.tries = tries, !.lo = d.from, !.next = d.from,
                                     !.hi = LeafId(list, f.index)])
        PROVE  Bounded'
    <3>1. PICK h : h = LeafId(list, f.index)
      OBVIOUS
    <3>2. PICK g : g = [f EXCEPT !.tries = tries, !.lo = d.from, !.next = d.from, !.hi = h]
      OBVIOUS
    <3>3. frame'[t] = g /\ pc'[t] = "lock"
      BY <1>1, <2>5, <3>1, <3>2 DEF SetFrame, Goto
    <3>4. g.hi = h /\ h \in Leaves(list)
      BY <1>1, <2>3, <3>1, <3>2, LeafOfSlot DEF Frames
    <3> QED
      BY <1>1, <2>2, <2>5, <3>3, <3>4, BoundedLocks DEF Holding
  <2>6. CASE Restarted(t, d.from)
    BY <1>2, <2>1, <2>5, <2>6 DEF Restarted
  <2>7. CASE /\ SetFrame(t, [f EXCEPT !.info = d.info])
             /\ Goto(t, "write")
             /\ UNCHANGED <<list, global_lock, shared, exclusive>>
    <3>1. PICK g : g = [f EXCEPT !.info = d.info]
      OBVIOUS
    <3>2. frame'[t] = g /\ pc'[t] = "write"
      BY <1>1, <2>7, <3>1 DEF SetFrame, Goto
    <3>3. g.hi = f.hi
      BY <2>3, <3>1 DEF Frames
    <3> QED
      BY <1>1, <2>2, <2>3, <2>7, <3>2, <3>3, BoundedLocks DEF Holding
  <2> QED
    BY <1>2, <2>2, <2>4, <2>6, <2>7
<1> QED
  BY <1>3, <1>4

\* Every step.
LEMMA BoundedStep ==
  ASSUME BlockInv, Bounded, [Next]_vars
  PROVE  Bounded'
<1>1. /\ WriteInv /\ DOMAIN pc = Threads /\ DOMAIN frame = Threads
  BY DEF BlockInv, SizeInv, WriteInv, LeafInv, LockInv, Typed, FramesTyped
<1>2. CASE UNCHANGED vars
  BY <1>2 DEF vars, Bounded, InLeaves, Leaves, Slots, LogN, Bsr
<1>3. CASE AddVertex
  <2>1. \A u \in Threads : pc[u] = "idle" /\ pc'[u] = "idle" /\ frame'[u] = frame[u] /\ shared'[u] = shared[u]
    BY <1>3 DEF AddVertex
  <2>2. \A u \in Threads : shared[u] = {} /\ frame[u] = NoFrame
    BY <1>1, <2>1, NoneShared DEF Bounded, InLeaves
  <2> QED
    BY <2>1, <2>2 DEF Bounded, InLeaves, Holding
<1>4. ASSUME NEW t \in Threads, Begin(t) PROVE Bounded'
  <2>1. PICK g : SetFrame(t, g) /\ Goto(t, "call") /\ pc[t] = "idle" /\ UNCHANGED <<list, shared>>
    BY <1>4 DEF Begin, BeginAdd, BeginRemove
  <2>2. \A u \in Threads \ {t} : pc'[u] = pc[u] /\ frame'[u] = frame[u]
    BY <1>1, <2>1 DEF SetFrame, Goto
  <2>3. pc'[t] = "call" /\ shared[t] = {}
    BY <1>1, <2>1, NoneShared DEF Goto
  <2>4. \A u \in Threads : InLeaves(list, frame'[u], pc'[u], shared'[u])
    BY <2>1, <2>2, <2>3, NoLeaves DEF Bounded, Outside
  <2> QED
    BY <2>1, <2>4 DEF Bounded, InLeaves, Leaves, Slots, LogN, Bsr
<1>5. ASSUME NEW t \in Threads, Continue(t) PROVE Bounded'
  BY <1>5, BoundedEnter, BoundedSearch, BoundedHold, BoundedPlan DEF Continue
<1> QED
  BY <1>2, <1>3, <1>4, <1>5 DEF Next

\* An empty slot holds nothing but the null element.
Blank(L) == \A p \in Slots(L) : IsNull(L.items[p]) => L.items[p] = Null

\* What became of a list whose empty slots were blank.
LEMMA RedistributeBlank ==
  ASSUME NEW L, IsList(L), Blank(L), NEW index, NEW len
  PROVE  Blank(Redistribute(L, index, len))
<1> DEFINE items == Spread(L, index, len)
           occ == Occupied(L, index, len)
           to == [i \in occ |-> SpreadSlot(index, len, Cardinality(occ), Rank(occ, i))]
<1>1. PICK nodes : nodes = FixSentinels(L.nodes, SentinelsAt(items, Window(index, len)), L.N)
  OBVIOUS
<1>2. Redistribute(L, index, len) = [N |-> L.N, items |-> items, nodes |-> nodes]
  <2>1. Redistribute(L, index, len) = [L EXCEPT !.items = items, !.nodes = nodes]
    BY <1>1 DEF Redistribute, IsList
  <2> QED
    BY <2>1, Updated
<1>3. ASSUME NEW p \in Slots(L), IsNull(items[p]) PROVE items[p] = Null
  <2>1. items[p] = IF p \notin Window(index, len) THEN L.items[p]
                   ELSE IF \E i \in occ : to[i] = p
                        THEN L.items[CHOOSE i \in occ : to[i] = p] ELSE Null
    BY DEF Spread
  <2>2. CASE p \notin Window(index, len)
    BY <1>3, <2>1, <2>2 DEF Blank
  <2>3. CASE \E i \in occ : to[i] = p
    <3>1. PICK i : i = CHOOSE x \in occ : to[x] = p
      OBVIOUS
    <3>2. i \in occ
      BY <2>3, <3>1
    <3>3. ~IsNull(L.items[i])
      BY <3>2 DEF Occupied
    <3> HIDE DEF occ, to, items
    <3>4. p \in Window(index, len) => items[p] = L.items[i]
      BY <2>1, <2>3, <3>1, Zenon
    <3> QED
      BY <1>3, <2>1, <2>2, <3>3, <3>4
  <2>4. CASE p \in Window(index, len) /\ ~(\E i \in occ : to[i] = p)
    <3> HIDE DEF occ, to, items
    <3> QED
      BY <2>1, <2>4, Zenon
  <2> QED
    BY <2>2, <2>3, <2>4
<1> HIDE DEF items
<1> QED
  BY <1>2, <1>3 DEF Blank, Slots

\* double_list
LEMMA DoubleBlank ==
  ASSUME NEW L, IsList(L), Blank(L)
  PROVE  Blank(DoubleList(L))
<1> DEFINE items == [p \in 0 .. 2 * L.N - 1 |-> IF p < L.N THEN L.items[p] ELSE Null]
           M == [N |-> 2 * L.N, items |-> items, nodes |-> L.nodes]
<1>1. 2 * L.N \in PowersOfTwo /\ L.N \in Nat
  BY PowersPositive DEF IsList
<1>2. IsList(M) /\ M.N = 2 * L.N /\ M.items = items
  BY <1>1 DEF IsList, Slots
<1>3. \A p \in 0 .. 2 * L.N - 1 : p < L.N => p \in Slots(L)
  BY <1>1 DEF Slots
<1>4. Blank(M)
  BY <1>1, <1>2, <1>3 DEF Blank, Slots
<1>5. DoubleList(L) = Redistribute(M, 0, 2 * L.N)
  BY DEF DoubleList
<1> HIDE DEF M
<1> QED
  BY <1>2, <1>4, <1>5, RedistributeBlank

\* half_list
LEMMA HalfBlank ==
  ASSUME NEW L, IsList(L), Blank(L), Height(L.N) > 0
  PROVE  Blank(HalfList(L))
<1> DEFINE N == L.N \div 2
           occ == Occupied(L, 0, L.N)
           items == [p \in 0 .. N - 1 |->
                       IF p < Cardinality(occ)
                       THEN L.items[CHOOSE i \in occ : Rank(occ, i) = p]
                       ELSE Null]
           M == [N |-> N, items |-> items, nodes |-> L.nodes]
<1>1. N \in PowersOfTwo /\ L.N \in Nat
  BY HalfShape, PowersPositive DEF IsList
<1>2. IsList(M) /\ M.N = N /\ M.items = items
  BY <1>1 DEF IsList, Slots
<1>3. occ \subseteq Int /\ IsFiniteSet(occ)
  <2>1. occ \subseteq 0 .. L.N - 1
    BY <1>1 DEF Occupied, Window
  <2>2. IsFiniteSet(0 .. L.N - 1)
    BY <1>1, FS_Interval
  <2>3. 0 .. L.N - 1 \subseteq Int
    BY <1>1
  <2> HIDE DEF occ
  <2> QED
    BY <2>1, <2>2, <2>3, FS_Subset
<1>4. ASSUME NEW p \in 0 .. N - 1, IsNull(items[p]) PROVE items[p] = Null
  <2>1. CASE p < Cardinality(occ)
    <3>1. PICK i : i = CHOOSE x \in occ : Rank(occ, x) = p
      OBVIOUS
    <3>2. Cardinality(occ) \in Nat /\ p \in 0 .. Cardinality(occ) - 1
      <4>1. Cardinality(occ) \in Nat
        BY <1>3, FS_CardinalityType
      <4>2. N \in Nat
        BY <1>1, PowersPositive
      <4> HIDE DEF occ, N
      <4> QED
        BY <2>1, <4>1, <4>2
    <3>3. \E x \in occ : Rank(occ, x) = p
      BY <1>3, <3>2, RanksAll
    <3>4. i \in occ
      BY <3>1, <3>3
    <3>5. ~IsNull(L.items[i])
      BY <3>4 DEF Occupied
    <3>6. items[p] = L.items[i]
      BY <2>1, <3>1
    <3> QED
      BY <1>4, <3>5, <3>6
  <2>2. CASE ~(p < Cardinality(occ))
    BY <2>2
  <2> QED
    BY <2>1, <2>2
<1>5. Blank(M)
  BY <1>2, <1>4 DEF Blank, Slots
<1>6. HalfList(L) = Redistribute(M, 0, N)
  BY DEF HalfList
<1> HIDE DEF M
<1> QED
  BY <1>2, <1>5, <1>6, RedistributeBlank

\* The slides.
LEMMA ShiftRightBlank ==
  ASSUME NEW L, IsList(L), Blank(L), NEW i \in Nat, NEW e
  PROVE  Blank(ShiftRight(L, i, e))
<1> DEFINE items == [p \in Slots(L) |-> IF p = i THEN Null
                                   ELSE IF p \in i + 1 .. e
                                        THEN L.items[p - 1] ELSE L.items[p]]
<1>1. PICK nodes : nodes = FixSentinels(L.nodes, SentinelsAt(items, i + 1 .. e), L.N)
  OBVIOUS
<1>2. ShiftRight(L, i, e) = [N |-> L.N, items |-> items, nodes |-> nodes]
  <2>1. ShiftRight(L, i, e) = [L EXCEPT !.items = items, !.nodes = nodes]
    BY <1>1 DEF ShiftRight, IsList
  <2> HIDE DEF items
  <2> QED
    BY <2>1, Updated
<1>3. L.N \in Nat /\ Slots(L) = 0 .. L.N - 1
  BY PowersPositive DEF IsList, Slots
<1>4. ASSUME NEW p \in Slots(L), IsNull(items[p]) PROVE items[p] = Null
  <2>1. p \in i + 1 .. e => p - 1 \in Slots(L)
    BY <1>3
  <2> QED
    BY <1>4, <2>1 DEF Blank
<1> HIDE DEF items
<1> QED
  BY <1>2, <1>4 DEF Blank, Slots

\* The same to the left.
LEMMA ShiftLeftBlank ==
  ASSUME NEW L, IsList(L), Blank(L), NEW i \in Int, i < L.N, NEW e \in Nat
  PROVE  Blank(ShiftLeft(L, i, e))
<1> DEFINE items == [p \in Slots(L) |-> IF p = i THEN Null
                                   ELSE IF p \in e .. i - 1
                                        THEN L.items[p + 1] ELSE L.items[p]]
<1>1. PICK nodes : nodes = FixSentinels(L.nodes, SentinelsAt(items, e .. i - 1), L.N)
  OBVIOUS
<1>2. ShiftLeft(L, i, e) = [N |-> L.N, items |-> items, nodes |-> nodes]
  <2>1. ShiftLeft(L, i, e) = [L EXCEPT !.items = items, !.nodes = nodes]
    BY <1>1 DEF ShiftLeft, IsList
  <2> HIDE DEF items
  <2> QED
    BY <2>1, Updated
<1>3. L.N \in Nat /\ Slots(L) = 0 .. L.N - 1
  BY PowersPositive DEF IsList, Slots
<1>4. ASSUME NEW p \in Slots(L), IsNull(items[p]) PROVE items[p] = Null
  <2>1. p \in e .. i - 1 => p + 1 \in Slots(L)
    BY <1>3
  <2> QED
    BY <1>4, <2>1 DEF Blank
<1> HIDE DEF items
<1> QED
  BY <1>2, <1>4 DEF Blank, Slots

\* A write to a slot of what is no null, or the null itself.
LEMMA WriteBlank ==
  ASSUME NEW L, IsList(L), Blank(L), NEW i, NEW e, IsNull(e) => e = Null
  PROVE  Blank([L EXCEPT !.items[i] = e])
<1>1. PICK items : items = [L.items EXCEPT ![i] = e]
  OBVIOUS
<1>2. [L EXCEPT !.items[i] = e] = [L EXCEPT !.items = items]
  BY <1>1
<1>3. [L EXCEPT !.items = items] = [N |-> L.N, items |-> items, nodes |-> L.nodes]
  BY Updated
<1>4. \A p \in Slots(L) : items[p] = IF p = i THEN e ELSE L.items[p]
  BY <1>1 DEF IsList
<1>5. \A p \in Slots(L) : IsNull(items[p]) => items[p] = Null
  BY <1>4 DEF Blank
<1> QED
  BY <1>2, <1>3, <1>5 DEF Blank, Slots

\* slide_left, even where it doubles the list.
LEMMA SlideLeftBlank ==
  ASSUME NEW L, IsList(L), Blank(L), NEW i \in Int, i < L.N
  PROVE  Blank(SlideLeft(L, i))
<1>0. L.N \in Nat \ {0}
  BY PowersPositive DEF IsList
<1>1. CASE PrevNull(L, i) >= 0
  <2>1. PrevNull(L, i) \in Nat
    BY <1>1, PrevNullFound
  <2> QED
    BY <1>1, <2>1, ShiftLeftBlank DEF SlideLeft
<1>2. CASE ~(PrevNull(L, i) >= 0)
  <2>1. PICK emptied : emptied = [L EXCEPT !.items[0] = Null]
    OBVIOUS
  <2>2. Reshaped(L, emptied, L.N) /\ Blank(emptied)
    BY <2>1, WriteShape, WriteBlank
  <2>3. PICK shifted : shifted = ShiftLeft(emptied, i, 0)
    OBVIOUS
  <2>4. IsList(shifted) /\ Blank(shifted)
    BY <2>2, <2>3, ShiftLeftShape, ShiftLeftBlank DEF Reshaped
  <2>5. PICK doubled : doubled = DoubleList(shifted)
    OBVIOUS
  <2>6. IsList(doubled) /\ Blank(doubled)
    BY <2>4, <2>5, DoubleShape, DoubleBlank DEF Reshaped
  <2>7. PICK room : room = ShiftRight(doubled, 0, NextNull(doubled, 0))
    OBVIOUS
  <2>8. IsList(room) /\ Blank(room)
    BY <2>6, <2>7, ShiftRightShape, ShiftRightBlank DEF Reshaped
  <2>9. PICK first, items : first = L.items[0] /\ items = [room.items EXCEPT ![0] = first]
    OBVIOUS
  <2>10. PICK nodes : nodes = IF IsSentinel(first)
                              THEN FixSentinels(room.nodes, [v \in {VertexOf(first)} |-> 0], room.N)
                              ELSE room.nodes
    OBVIOUS
  <2>11. SlideLeft(L, i) = [room EXCEPT !.items[0] = first,
                                        !.nodes = IF IsSentinel(first)
                                                  THEN FixSentinels(@, [v \in {VertexOf(first)} |-> 0], room.N)
                                                  ELSE @]
    BY <1>2, <2>1, <2>3, <2>5, <2>7, <2>9 DEF SlideLeft, SlideLeftDoubling
  <2>12. SlideLeft(L, i) = [room EXCEPT !.items = items, !.nodes = nodes]
    BY <2>8, <2>9, <2>10, <2>11 DEF IsList
  <2>13. SlideLeft(L, i) = [N |-> room.N, items |-> items, nodes |-> nodes]
    BY <2>8, <2>12, Updated
  <2>14. IsNull(first) => first = Null
    BY <1>0, <2>9 DEF Blank, Slots
  <2>15. \A p \in Slots(room) : items[p] = IF p = 0 THEN first ELSE room.items[p]
    BY <2>8, <2>9 DEF IsList
  <2>16. \A p \in Slots(room) : IsNull(items[p]) => items[p] = Null
    BY <2>8, <2>14, <2>15 DEF Blank
  <2> QED
    BY <2>13, <2>16 DEF Blank, Slots
<1> QED
  BY <1>1, <1>2

\* The room that insert makes, and its write.
LEMMA PutBlank ==
  ASSUME NEW L, IsList(L), Blank(L), NEW index \in Slots(L), NEW e, ~IsNull(e)
  PROVE  Blank(Put(L, index, e)) /\ IsList(Put(L, index, e))
<1>1. L.N \in Nat \ {0} /\ index \in Nat /\ index < L.N
  <2>1. L.N \in Nat \ {0}
    BY PowersPositive DEF IsList
  <2> QED
    BY <2>1 DEF Slots
<1>2. PICK slid : slid = SlidOffTheEnd(L, index)
  OBVIOUS
<1>3. IsList(slid) /\ slid.N = L.N /\ Blank(slid)
  <2>1. Reshaped(L, slid, L.N) /\ slid.items = L.items
    BY <1>1, <1>2, OffTheEndShape
  <2> QED
    BY <2>1 DEF Reshaped, Blank, Slots
<1>4. Blank(SlideLeft(slid, index - 1))
  <2>1. index - 1 \in Int /\ index - 1 < slid.N
    BY <1>1, <1>3
  <2> QED
    BY <1>3, <2>1, SlideLeftBlank
<1>5. Blank(ShiftRight(L, index, NextNull(L, index)))
  BY <1>1, ShiftRightBlank
<1>6. PICK R, at : R = MakeRoom(L, index).list /\ at = MakeRoom(L, index).at
  OBVIOUS
<1>7. R \in {L, ShiftRight(L, index, NextNull(L, index)), SlideLeft(slid, index - 1)}
  BY <1>2, <1>6 DEF MakeRoom
<1>8. Blank(R)
  BY <1>4, <1>5, <1>7
<1>9. IsList(R)
  BY <1>1, <1>6, MakeRoomShape DEF Grown
<1>10. Put(L, index, e) = [R EXCEPT !.items[at] = e]
  BY <1>6 DEF Put
<1> QED
  BY <1>8, <1>9, <1>10, WriteBlank, WriteShape DEF Reshaped

\* insert after its write.
LEMMA SettleBlank ==
  ASSUME NEW L, IsList(L), Blank(L), NEW leaf, NEW info \in Infos
  PROVE  Blank(Settle(L, leaf, info))
<1>1. CASE info = DoubleInfo
  <2>1. Settle(L, leaf, info) = DoubleList(L)
    BY <1>1 DEF Settle, DoubleInfo
  <2> QED
    BY <2>1, DoubleBlank
<1>2. ASSUME NEW start \in Nat, NEW len \in Nat, info = RangeInfo(start, len)
      PROVE  Blank(Settle(L, leaf, info))
  <2>1. Settle(L, leaf, info) = IF len > LogN(L.N) THEN Redistribute(L, start, len) ELSE L
    BY <1>2 DEF Settle, RangeInfo
  <2> QED
    BY <2>1, RedistributeBlank
<1>3. CASE info = NoInfo
  <2>1. PICK j : j = InsertLevel(L, leaf)
    OBVIOUS
  <2>2. Settle(L, leaf, info) = Rebalance(L, leaf)
    BY <1>3 DEF Settle, NoInfo
  <2>3. Rebalance(L, leaf) \in {DoubleList(L), L, Redistribute(L, StartAt(L, leaf, j), LenAt(L, j))}
    BY <2>1 DEF Rebalance
  <2> QED
    BY <2>2, <2>3, DoubleBlank, RedistributeBlank
<1> QED
  BY <1>1, <1>2, <1>3 DEF Infos

\* insert where it deposits its element.
LEMMA DepositBlank ==
  ASSUME NEW L, IsList(L), Blank(L), NEW index \in Slots(L), NEW e, ~IsNull(e), NEW info \in Infos
  PROVE  Blank(Deposit(L, index, e, info))
<1>1. PICK written, len : written = Put(L, index, e) /\ len = LogN(L.N)
  OBVIOUS
<1>2. Blank(written) /\ IsList(written)
  BY <1>1, PutBlank
<1>3. PICK even, leaf : even = EvenOut(written, index, len) /\ leaf = SpreadWindow(written, index, len).start
  OBVIOUS
<1>4. Deposit(L, index, e, info) = Settle(even, leaf, info)
  BY <1>1, <1>3 DEF Deposit
<1>5. Blank(even)
  BY <1>2, <1>3, RedistributeBlank DEF EvenOut
<1>6. IsList(even)
  <2>1. len \in Nat \ {0}
    BY <1>1, LeafLength DEF IsList
  <2>2. index \in Nat
    BY SlotsFound
  <2> QED
    BY <1>2, <1>3, <2>1, <2>2, EvenOutShape DEF Reshaped
<1> QED
  BY <1>4, <1>5, <1>6, SettleBlank

\* An update of the value of an edge.
LEMMA UpdateBlank ==
  ASSUME NEW L, WellFormed(L), Blank(L), NEW i \in Slots(L), NEW d \in 0 .. MaxU32 - 1,
         NEW v \in Values, ~IsNull(L.items[i]), L.items[i].dest = d
  PROVE  Blank([L EXCEPT !.items[i].value = v])
<1>1. PICK M : M = [L EXCEPT !.items[i].value = v]
  OBVIOUS
<1>2. PICK items : items = [L.items EXCEPT ![i].value = v]
  OBVIOUS
<1>3. M = [N |-> L.N, items |-> items, nodes |-> L.nodes]
  <2>1. M = [L EXCEPT !.items = items]
    BY <1>1, <1>2
  <2> QED
    BY <2>1, Updated DEF WellFormed
<1>4. \A p \in Slots(L) : p # i => M.items[p] = L.items[p]
  BY <1>2, <1>3 DEF WellFormed, IsList
<1>5. \A p \in Slots(L) : IsNull(M.items[p]) <=> IsNull(L.items[p])
  BY <1>1, UpdateWell
<1>6. Slots(M) = Slots(L)
  BY <1>3 DEF Slots
<1>7. Blank(M)
  BY <1>4, <1>5, <1>6 DEF Blank
<1> QED
  BY <1>1, <1>7

\* The whole insert.
LEMMA InsertBlank ==
  ASSUME NEW L, WellFormed(L), Blank(L), NEW e \in EdgesFrom(Vertices(L)),
         NEW i, i = FindEdge(L, e.src, e.dest), NEW info \in Infos
  PROVE  Blank(Insert(L, i, e, e.src, info))
<1>1. /\ IsList(L) /\ e.src \in Vertices(L) /\ e.dest \in 0 .. MaxU32 - 1 /\ e.value \in Values
      /\ ~IsNull(e)
  BY Kinds DEF WellFormed, EdgesFrom
<1>2. i \in Slots(L)
  BY <1>1, FindFits
<1>3. CASE Present(L, i, e)
  <2>1. Insert(L, i, e, e.src, info) = [L EXCEPT !.items[i].value = e.value]
    BY <1>3 DEF Insert
  <2> QED
    BY <1>1, <1>2, <1>3, <2>1, UpdateBlank DEF Present
<1>4. CASE ~Present(L, i, e) /\ ~IsNull(L.items[i]) /\ i = L.N - 1
  <2>1. PICK D, k : D = DoubleList(L) /\ k = FindEdge(D, e.src, e.dest)
    OBVIOUS
  <2>2. Insert(L, i, e, e.src, info) = Deposit(D, k, e, NoInfo)
    BY <1>4, <2>1 DEF Insert
  <2>3. WellFormed(D) /\ Blank(D)
    BY <1>1, <2>1, DoubleWell, DoubleBlank
  <2>4. Vertices(D) = Vertices(L) /\ IsList(D)
    BY <1>1, <2>1, DoubleShape DEF Reshaped
  <2>5. k \in Slots(D)
    BY <1>1, <2>1, <2>3, <2>4, FindFits
  <2>6. NoInfo \in Infos
    BY DEF Infos
  <2> QED
    BY <1>1, <2>2, <2>3, <2>4, <2>5, <2>6, DepositBlank
<1>5. CASE ~Present(L, i, e) /\ ~(~IsNull(L.items[i]) /\ i = L.N - 1)
  <2>1. Insert(L, i, e, e.src, info) = Deposit(L, i, e, info)
    BY <1>5 DEF Insert
  <2> QED
    BY <1>1, <1>2, <2>1, DepositBlank
<1> QED
  BY <1>3, <1>4, <1>5

\* remove after its write.
LEMMA SettleRemovalBlank ==
  ASSUME NEW L, IsList(L), Blank(L), NEW leaf
  PROVE  Blank(SettleRemoval(L, leaf))
<1>1. PICK j : j = RemoveLevel(L, leaf)
  OBVIOUS
<1>2. CASE j > Height(L.N)
  <2>1. SettleRemoval(L, leaf) = HalfList(L)
    BY <1>1, <1>2 DEF SettleRemoval
  <2>2. Height(L.N) > 0
    <3>1. j \in 0 .. Height(L.N) + 1 /\ Height(L.N) \in Nat
      BY <1>1, RemoveLevelFound, LeafLength DEF IsList
    <3>2. SparseAt(L, leaf, 0, 0)
      BY <1>1, <1>2, <3>1, RemoveLevelFound
    <3> QED
      BY <3>2 DEF SparseAt, TooSparse
  <2> QED
    BY <2>1, <2>2, HalfBlank
<1>3. CASE ~(j > Height(L.N))
  BY <1>1, <1>3, RedistributeBlank DEF SettleRemoval
<1> QED
  BY <1>2, <1>3

\* The whole remove.
LEMMA RemoveBlank ==
  ASSUME NEW L, IsList(L), Blank(L), NEW i \in Slots(L), NEW dest
  PROVE  Blank(Remove(L, i, dest))
<1>1. PICK E, leaf : E = Erase(L, i) /\ leaf = FindLeaf(L, i)
  OBVIOUS
<1>2. IsList(E) /\ Blank(E)
  BY <1>1, WriteBlank, WriteShape DEF Erase, Reshaped
<1>3. PICK R : R = Redistribute(E, leaf, LogN(L.N))
  OBVIOUS
<1>4. IsList(R) /\ Blank(R)
  <2>1. LogN(L.N) \in Nat \ {0} /\ i \in Nat
    BY LeafLength, SlotsFound DEF IsList
  <2>2. leaf \in Nat
    BY <1>1, <2>1, NodeFound DEF FindLeaf
  <2> QED
    BY <1>2, <1>3, <2>2, RedistributeBlank, RedistributeShape DEF Reshaped
<1>5. Remove(L, i, dest) \in {L, SettleRemoval(R, leaf)}
  BY <1>1, <1>3 DEF Remove
<1> QED
  BY <1>4, <1>5, SettleRemovalBlank

\* add_node writes its sentinel to the last slot, which is empty.
LEMMA AddNodeBlank ==
  ASSUME NEW L, WellFormed(L), Blank(L), Vertices(L) # {},
         Numbered(0 .. Cardinality(Vertices(L))), IsNull(L.items[L.N - 1])
  PROVE  Blank(AddNode(L))
<1>1. IsList(L) /\ L.N \in Nat \ {0} /\ Slots(L) = 0 .. L.N - 1
  BY SlotsFound DEF WellFormed, Slots
<1>2. PICK n \in Nat : /\ Vertices(L) = 0 .. n - 1 /\ Cardinality(Vertices(L)) = n
                       /\ L.nodes \in [0 .. n - 1 -> Ranges]
  BY <1>1, VerticesFound
<1>3. n > 0
  BY <1>2
<1>4. PICK z : z = L.N - 1
  OBVIOUS
<1>5. z \in Slots(L) /\ z \in Nat /\ IsNull(L.items[z])
  BY <1>1, <1>4
<1>6. L.nodes[n - 1].end = z
  <2>1. n - 1 \in Vertices(L) /\ n - 1 = Cardinality(Vertices(L)) - 1
    BY <1>2, <1>3
  <2> QED
    BY <1>4, <2>1, RangeFound
<1>7. PICK nodes, M, e : /\ nodes = [v \in 0 .. n |-> IF v < n THEN L.nodes[v]
                                            ELSE [beginning |-> z, end |-> z + 1]]
                         /\ M = [L EXCEPT !.nodes = nodes]
                         /\ e = Sentinel(n)
  OBVIOUS
<1>8. M = [N |-> L.N, items |-> L.items, nodes |-> nodes]
  BY <1>1, <1>7, Updated
<1>9. IsList(M) /\ Slots(M) = Slots(L) /\ Blank(M) /\ M.items = L.items
  <2>1. 0 .. n = 0 .. (n + 1) - 1 /\ n + 1 \in Nat
    OBVIOUS
  <2>2. nodes \in [0 .. n -> Ranges]
    BY <1>2, <1>5, <1>7 DEF Ranges
  <2> QED
    BY <1>1, <1>8, <2>1, <2>2 DEF IsList, Slots, Blank
<1>10. AddNode(L) = Insert(M, z, e, n, NoInfo)
  <2>1. z = IF n > 0 THEN L.nodes[n - 1].end ELSE 0
    BY <1>3, <1>6
  <2> QED
    BY <1>2, <1>7, <2>1, Zenon DEF AddNode
<1>11. AddNode(L) = Deposit(M, z, e, NoInfo)
  BY <1>5, <1>9, <1>10 DEF Insert, Present
<1>12. ~IsNull(e)
  BY <1>2, <1>7, Kinds
<1>13. NoInfo \in Infos
  BY DEF Infos
<1> QED
  BY <1>5, <1>9, <1>11, <1>12, <1>13, DepositBlank

\* The constructor writes sentinels and nothing else.
LEMMA InitialBlank ==
  ASSUME NEW n \in Nat, NEW minimum \in Nat \ {0}, Numbered(0 .. n - 1)
  PROVE  Blank(InitialList(n, minimum))
<1>1. PICK N : N = InitialSize(IF 2 * n > minimum THEN 2 * n ELSE minimum)
  OBVIOUS
<1> DEFINE at == [v \in 0 .. n - 1 |-> (v * N) \div n]
           nodes == [v \in 0 .. n - 1 |->
                       [beginning |-> at[v],
                        end |-> IF v = n - 1 THEN N - 1 ELSE at[v + 1]]]
           items == [p \in 0 .. N - 1 |->
                       IF \E v \in 0 .. n - 1 : at[v] = p
                       THEN Sentinel(CHOOSE v \in 0 .. n - 1 : at[v] = p)
                       ELSE Null]
<1>2. InitialList(n, minimum) = [N |-> N, items |-> items, nodes |-> nodes]
  BY <1>1 DEF InitialList
<1>3. ASSUME NEW p \in 0 .. N - 1, IsNull(items[p]) PROVE items[p] = Null
  <2>1. CASE \E v \in 0 .. n - 1 : at[v] = p
    <3>1. PICK w : w = CHOOSE v \in 0 .. n - 1 : at[v] = p
      OBVIOUS
    <3> HIDE DEF at
    <3>2. w \in 0 .. n - 1
      BY <2>1, <3>1
    <3>3. items[p] = Sentinel(w)
      BY <2>1, <3>1
    <3>4. ~IsNull(Sentinel(w))
      BY <3>2, Kinds
    <3> QED
      BY <1>3, <3>3, <3>4
  <2>2. CASE ~(\E v \in 0 .. n - 1 : at[v] = p)
    <3> HIDE DEF at
    <3> QED
      BY <2>2
  <2> QED
    BY <2>1, <2>2
<1> HIDE DEF items, nodes
<1> QED
  BY <1>2, <1>3 DEF Blank, Slots

\* Every write.
LEMMA BlankStep ==
  ASSUME MaxVertices <= MaxU32, BlockInv, Blank(list), [Next]_vars, [AddsAtFreeEnd]_vars
  PROVE  Blank(list')
<1>1. WellFormed(list) /\ IsList(list)
  BY DEF BlockInv, Laid, WellFormed
<1>2. CASE UNCHANGED list
  BY <1>2
<1>3. CASE AddVertex
  <2>1. CASE UNCHANGED list
    BY <2>1
  <2>2. CASE list' # list
    <3>1. AddsAtFreeEnd
      BY <2>2 DEF vars
    <3>2. PICK n \in Nat : Vertices(list) = 0 .. n - 1 /\ Cardinality(Vertices(list)) = n
      BY <1>1, VerticesFound
    <3>3. n < MaxVertices /\ MaxVertices \in Nat /\ MaxU32 \in Nat /\ n >= 2
      BY <1>3, <3>2, InputsAssumption, MaxU32Assumption DEF AddVertex, BlockInv, SizeInv
    <3>4. Numbered(0 .. n)
      BY <3>3 DEF Numbered
    <3>5. 0 \in Vertices(list)
      BY <3>2, <3>3
    <3>6. IsNull(list.items[list.N - 1])
      BY <1>3, <3>1 DEF AddsAtFreeEnd
    <3>7. Blank(AddNode(list))
      BY <1>1, <3>2, <3>4, <3>5, <3>6, AddNodeBlank
    <3> QED
      BY <1>3, <3>7 DEF AddVertex
  <2> QED
    BY <2>1, <2>2
<1>4. ASSUME NEW t \in Threads, Write(t) \/ SpreadLeaf(t) \/ SettleDensity(t)
      PROVE  Blank(list')
  <2>1. pc[t] \in Writing /\ pc[t] # "idle"
    BY <1>4 DEF Writing, Write, SpreadLeaf, SettleDensity
  <2>2. PICK f : f = frame[t]
    OBVIOUS
  <2>3. f \in Frames /\ f.info \in Infos /\ f.index \in Slots(list)
    BY <2>1, <2>2, WriterFound DEF BlockInv, SizeInv
  <2>4. /\ f.src \in Vertices(list) /\ f.dest \in 0 .. MaxU32 - 1
        /\ f.kind \in {"add", "remove"} /\ (f.kind = "add" => f.value \in Values)
    BY <2>1, <2>2, AskedFound
  <2>5. CASE Write(t) /\ f.kind = "add"
    <3>1. PICK e : e = Element(f)
      OBVIOUS
    <3>2. e \in EdgesFrom(Vertices(list)) /\ e.dest = f.dest /\ e.value = f.value
      BY <2>3, <2>4, <2>5, <3>1, ElementFound
    <3>3. ~IsNull(e)
      BY <1>1, <3>2, Kinds DEF WellFormed
    <3>4. CASE Present(list, f.index, e) /\ list' = [list EXCEPT !.items[f.index].value = f.value]
      <4>1. ~IsNull(list.items[f.index]) /\ list.items[f.index].dest = f.dest
        BY <3>2, <3>4 DEF Present
      <4> QED
        BY <1>1, <2>3, <2>4, <2>5, <3>4, <4>1, UpdateBlank
    <3>5. CASE list' = Put(list, f.index, e)
      BY <1>1, <2>3, <3>3, <3>5, PutBlank
    <3> QED
      BY <2>2, <2>5, <3>1, <3>4, <3>5 DEF Write
  <2>6. CASE Write(t) /\ f.kind = "remove"
    <3>1. list' = Erase(list, f.index)
      BY <2>2, <2>6 DEF Write
    <3> QED
      BY <1>1, <3>1, WriteBlank DEF Erase
  <2>7. CASE SpreadLeaf(t)
    <3>1. list' \in {EvenOut(list, f.index, LogN(list.N)),
                     Redistribute(list, FindLeaf(list, f.index), LogN(list.N))}
      BY <2>2, <2>7 DEF SpreadLeaf
    <3> QED
      BY <1>1, <3>1, RedistributeBlank DEF EvenOut
  <2>8. CASE SettleDensity(t)
    <3>1. list' \in {Settle(list, FindLeaf(list, f.index), f.info),
                     SettleRemoval(list, FindLeaf(list, f.index))}
      BY <2>2, <2>8 DEF SettleDensity
    <3> QED
      BY <1>1, <2>3, <3>1, SettleBlank, SettleRemovalBlank
  <2> QED
    BY <1>4, <2>4, <2>5, <2>6, <2>7, <2>8
<1>5. ASSUME NEW t \in Threads, WriteAlone(t) PROVE Blank(list')
  <2>1. pc[t] = "force"
    BY <1>5 DEF WriteAlone
  <2>2. PICK f, i : f = frame[t] /\ i = FindEdge(list, f.src, f.dest)
    OBVIOUS
  <2>3. f \in Frames /\ f.info \in {NoInfo, DoubleInfo} /\ f.info \in Infos
    <3>1. f \in Frames /\ f.info \in {NoInfo, DoubleInfo}
      BY <2>1, <2>2, LocalsFound DEF BlockInv, SizeInv, Writing
    <3> QED
      BY <3>1 DEF Infos
  <2>4. /\ f.src \in Vertices(list) /\ f.dest \in 0 .. MaxU32 - 1
        /\ f.kind \in {"add", "remove"} /\ (f.kind = "add" => f.value \in Values)
    BY <2>1, <2>2, AskedFound
  <2>5. i \in Slots(list)
    BY <1>1, <2>2, <2>4, FindFits
  <2>6. CASE f.kind = "add"
    <3>1. PICK e : e = Element(f)
      OBVIOUS
    <3>2. e \in EdgesFrom(Vertices(list)) /\ e.src = f.src /\ e.dest = f.dest
      BY <2>3, <2>4, <2>6, <3>1, ElementFound
    <3>3. list' = Insert(list, i, e, e.src, f.info)
      BY <1>5, <2>2, <2>6, <3>1, <3>2 DEF WriteAlone, Apply
    <3>4. i = FindEdge(list, e.src, e.dest)
      BY <2>2, <3>2
    <3> QED
      BY <1>1, <2>3, <3>2, <3>3, <3>4, InsertBlank
  <2>7. CASE f.kind = "remove"
    <3>1. list' = Remove(list, i, f.dest)
      BY <1>5, <2>2, <2>7 DEF WriteAlone, Apply
    <3> QED
      BY <1>1, <2>5, <3>1, RemoveBlank
  <2> QED
    BY <2>4, <2>6, <2>7
<1> QED
  BY <1>2, <1>3, <1>4, <1>5, ListMoves

\* A table with an entry for every thread.
Tabled(f) == f = [t \in Threads |-> f[t]]

\* The sets of leaf locks are kept in tables.
LEMMA TabledStep ==
  ASSUME Tabled(shared), Tabled(exclusive), [Next]_vars
  PROVE  Tabled(shared') /\ Tabled(exclusive')
<1>1. ASSUME NEW f, Tabled(f), NEW t, NEW S PROVE Tabled([f EXCEPT ![t] = S])
  <2>1. DOMAIN f = Threads
    BY <1>1 DEF Tabled
  <2> QED
    BY <2>1 DEF Tabled
<1>2. ASSUME NEW t \in Threads, Begin(t) \/ Continue(t)
      PROVE  /\ UNCHANGED shared \/ \E S : shared' = [shared EXCEPT ![t] = S]
             /\ UNCHANGED exclusive \/ \E S : exclusive' = [exclusive EXCEPT ![t] = S]
  <2>1. CASE Begin(t)
    BY <2>1 DEF Begin, BeginAdd, BeginRemove
  <2>2. CASE CallForced(t) \/ Call(t) \/ Snap(t) \/ WriteAlone(t) \/ Upgrade(t)
    BY <2>2 DEF CallForced, Call, Snap, WriteAlone, Upgrade
  <2>3. CASE ShareLeaf(t)
    BY <2>3 DEF ShareLeaf, CallAgain
  <2>4. CASE Search(t)
    BY <2>4 DEF Search, CallAgain
  <2>5. CASE LoadVersion(t) \/ LockLeaf(t)
    BY <2>5 DEF LoadVersion, LockLeaf
  <2>6. CASE CheckInsert(t) \/ CheckRemove(t)
    BY <2>6 DEF CheckInsert, CheckRemove, Retry, Escalate, Extend, ReleaseLeaves, Return, CallAgain
  <2>7. CASE Plan(t)
    BY <2>7 DEF Plan, Escalate, Extend, ReleaseLeaves, Restarted
  <2>8. CASE Write(t) \/ SpreadLeaf(t) \/ SettleDensity(t)
    BY <2>8 DEF Write, SpreadLeaf, SettleDensity
  <2>9. CASE ReleaseLocks(t) \/ Unlock(t)
    BY <2>9 DEF ReleaseLocks, Unlock, ReleaseLeaves, Return
  <2> QED
    BY <1>2, <2>1, <2>2, <2>3, <2>4, <2>5, <2>6, <2>7, <2>8, <2>9 DEF Continue
<1>3. CASE UNCHANGED vars \/ AddVertex
  BY <1>3 DEF vars, AddVertex
<1> QED
  BY <1>1, <1>2, <1>3 DEF Next

\* What the types rest on.
TypeInv == /\ BlockInv /\ Bounded /\ Blank(list)
           /\ Tabled(shared) /\ Tabled(exclusive) /\ lock_bsearch \in BOOLEAN

\* Every field has its type.
LEMMA WellTyped ==
  ASSUME TypeInv
  PROVE  TypeOK
<1>0. BlockInv /\ Bounded /\ Blank(list) /\ Tabled(shared) /\ Tabled(exclusive) /\ lock_bsearch \in BOOLEAN
  BY DEF TypeInv
<1>1. WellFormed(list) /\ IsList(list) /\ Numbered(Vertices(list)) /\ list.N \in Nat
  BY <1>0, SlotsFound DEF BlockInv, Laid, WellFormed
<1>2. list.items \in [0 .. list.N - 1 -> [src : Int, dest : 0 .. MaxU32, value : 0 .. MaxU32]]
  <2>1. list.items = [p \in 0 .. list.N - 1 |-> list.items[p]]
    BY <1>1 DEF IsList, Slots
  <2>2. ASSUME NEW p \in 0 .. list.N - 1
        PROVE  list.items[p] \in [src : Int, dest : 0 .. MaxU32, value : 0 .. MaxU32]
    <3>1. Proper(list.items[p], Vertices(list))
      BY <1>1 DEF WellFormed, Placed, PlacedBut, Sole, Slots
    <3>2. MaxU32 \in Nat /\ MaxU32 > 0 /\ Values \subseteq 1 .. MaxU32 - 1
      BY InputsAssumption, MaxU32Assumption
    <3>3. Vertices(list) \subseteq 0 .. MaxU32 - 1
      BY <1>1 DEF Numbered
    <3>4. PICK e : e = list.items[p]
      OBVIOUS
    <3>5. CASE \E v \in Vertices(list) : e = Sentinel(v)
      BY <3>2, <3>3, <3>4, <3>5 DEF Sentinel
    <3>6. CASE e \in EdgesFrom(Vertices(list))
      <4>1. e \in [src : Vertices(list), dest : 0 .. MaxU32 - 1, value : Values]
        BY <3>6 DEF EdgesFrom
      <4>2. 0 .. MaxU32 - 1 \subseteq 0 .. MaxU32 /\ Vertices(list) \subseteq Int /\ Values \subseteq 0 .. MaxU32
        BY <3>2, <3>3
      <4> QED
        BY <3>4, <4>1, <4>2
    <3>7. CASE IsNull(e)
      <4>1. e = Null
        BY <1>0, <3>4, <3>7 DEF Blank, Slots
      <4> QED
        BY <3>2, <3>4, <4>1 DEF Null
    <3> QED
      BY <3>1, <3>4, <3>5, <3>6, <3>7 DEF Proper
  <2> QED
    BY <2>1, <2>2
<1>3. list.nodes \in [Vertices(list) -> [beginning : Nat, end : Nat]]
  BY <1>1 DEF IsList, Ranges, Vertices
<1>4. ASSUME NEW t \in Threads
      PROVE  /\ shared[t] \in SUBSET Leaves(list) /\ exclusive[t] \in SUBSET Leaves(list)
             /\ pc[t] = "idle" <=> frame[t] = NoFrame
  <2>1. /\ InLeaves(list, frame[t], pc[t], shared[t]) /\ LockInv /\ HeldBy(t)
        /\ pc[t] # "idle" => frame[t] \in Frames
    BY <1>0 DEF Bounded, BlockInv, SizeInv, WriteInv, LeafInv, FramesTyped
  <2>2. exclusive[t] \in SUBSET Leaves(list)
    <3>1. CASE pc[t] \in {"lock"} \cup Holding
      <4>1. PICK lo \in Nat, hi \in Nat, next \in Nat :
              lo = frame[t].lo /\ hi = frame[t].hi /\ next = frame[t].next
        BY <2>1, <3>1 DEF Frames, Holding
      <4>2. hi \in Leaves(list)
        BY <2>1, <3>1, <4>1 DEF InLeaves
      <4>3. \A i \in exclusive[t] : i \in Nat /\ i <= hi
        BY <2>1, <3>1, <4>1, SMTT(30) DEF HeldBy
      <4> QED
        BY <1>1, <4>2, <4>3, LeavesBelow
    <3>2. CASE pc[t] \notin {"lock"} \cup Holding
      BY <2>1, <3>2 DEF LockInv, LeavesFollowPc, Holding, Locking, Writing
    <3> QED
      BY <3>1, <3>2
  <2>3. pc[t] # "idle" => frame[t] # NoFrame
    <3>1. \A f \in Frames : f.kind # "none"
      BY DEF Frames
    <3>2. NoFrame.kind = "none"
      BY DEF NoFrame
    <3> QED
      BY <2>1, <3>1, <3>2
  <2> QED
    BY <2>1, <2>2, <2>3 DEF InLeaves
<1>5. shared \in [Threads -> SUBSET Leaves(list)] /\ exclusive \in [Threads -> SUBSET Leaves(list)]
  BY <1>0, <1>4 DEF Tabled
<1>6. global_lock \in [Threads -> GL!Modes] /\ pc \in [Threads -> PCs]
  BY <1>0 DEF BlockInv, SizeInv, WriteInv, LeafInv, LockInv, Typed
<1> QED
  BY <1>0, <1>1, <1>2, <1>3, <1>4, <1>5, <1>6 DEF TypeOK

\* At the start.
LEMMA TypeInit ==
  ASSUME MinCapacity >= 4, InitVertices >= 2, InitVertices <= MaxU32, Init, Exact
  PROVE  TypeInv
<1>1. BlockInv
  BY BlockInit
<1>2. lock_bsearch \in BOOLEAN
  BY SearchModesAssumption DEF Init
<1>3. Bounded /\ Tabled(shared) /\ Tabled(exclusive)
  BY DEF Init, Bounded, InLeaves, Holding, Tabled
<1>4. InitVertices \in Nat /\ MinCapacity \in Nat \ {0} /\ Numbered(0 .. InitVertices - 1)
  BY InputsAssumption, MaxU32Assumption DEF Numbered
<1>5. Blank(list)
  BY <1>4, InitialBlank DEF Init
<1> QED
  BY <1>1, <1>2, <1>3, <1>5 DEF TypeInv

\* And after every step.
LEMMA TypeStep ==
  ASSUME MinCapacity >= 4, InitVertices >= 2, InitVertices <= MaxU32, MaxVertices <= MaxU32,
         TypeInv, SlidesInside, [AddsAtFreeEnd]_vars, [Next]_vars
  PROVE  TypeInv'
<1>1. BlockInv /\ Bounded /\ Blank(list) /\ Tabled(shared) /\ Tabled(exclusive) /\ lock_bsearch \in BOOLEAN
  BY DEF TypeInv
<1>2. BlockInv'
  BY <1>1, BlockStep
<1>3. Bounded'
  BY <1>1, BoundedStep
<1>4. Blank(list')
  BY <1>1, BlankStep
<1>5. Tabled(shared') /\ Tabled(exclusive')
  BY <1>1, TabledStep
<1>6. lock_bsearch' = lock_bsearch
  BY DEF Next, vars
<1> QED
  BY <1>1, <1>2, <1>3, <1>4, <1>5, <1>6 DEF TypeInv, Blank, Tabled, Slots

\* Threads lock leaves that the list has, although others double and halve it, return
\* with no locals left, and an item is always an edge, a sentinel or the one null element.
THEOREM TypeOKCorrect ==
  ASSUME MinCapacity >= 4, InitVertices >= 2, InitVertices <= MaxU32, MaxVertices <= MaxU32
  PROVE  Spec /\ Exact /\ []SlidesInside /\ VertexAtFreeEnd => []TypeOK
<1>1. Init /\ Exact => TypeInv
  BY TypeInit
<1>2. TypeInv /\ SlidesInside /\ [AddsAtFreeEnd]_vars /\ [Next]_vars => TypeInv'
  BY TypeStep
<1>3. TypeInv => TypeOK
  BY WellTyped
<1> QED
  BY <1>1, <1>2, <1>3, PTL DEF Spec, VertexAtFreeEnd

=============================================================================
