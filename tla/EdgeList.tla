----------------------------- MODULE EdgeList -----------------------------
(***************************************************************************)
(* The packed memory array of pcsr/PCSR.cpp as operators on a value.       *)
(*                                                                         *)
(* A list L is a record [N, items, nodes]: N slots, items[0 .. N-1] and    *)
(* nodes[v] = [beginning, end] of every vertex v.  Vertex v's edges lie    *)
(* after its sentinel, at slots nodes[v].beginning+1 .. nodes[v].end-1.    *)
(* Each operator stands for one function of the code run to its end;       *)
(* which of them overlap in time is the business of PCSR.tla.              *)
(* node_t's num_neighbors is not here: no function of the array reads it.  *)
(***************************************************************************)
EXTENDS Integers, FiniteSets

CONSTANTS
  MaxU32,       \* UINT32_MAX, the mark of a sentinel (scaled down)
  RoundsLow     \* the <<index, len, j, k>> at which redistribute's double
                \* arithmetic puts the k-th of j elements one slot too low

ASSUME MaxU32Assumption == MaxU32 \in Nat /\ MaxU32 > 0
\* j * (len / j) is exact where len / j is a power of two; elsewhere only a sum
\* that should be a whole number can fall below one (by far less than 1 / j).
ASSUME RoundsLowAssumption ==
  /\ RoundsLow \subseteq Nat \X Nat \X Nat \X Nat
  /\ \A r \in RoundsLow : /\ 0 < r[4] /\ r[4] < r[3] /\ r[3] < r[2]
                          /\ (r[4] * r[2]) % r[3] = 0

Least(S) == CHOOSE x \in S : \A y \in S : x <= y

Greatest(S) == CHOOSE x \in S : \A y \in S : x >= y

----------------------------------------------------------------------------
(* Items.                                                                  *)

Null == [src |-> -1, dest |-> 0, value |-> 0]

IsNull(e) == e.value = 0

IsSentinel(e) == e.dest = MaxU32 \/ e.value = MaxU32

\* The sentinel of vertex 0 holds MaxU32 where the others hold their vertex,
\* because value 0 would make it a null.
Sentinel(v) == [src |-> v, dest |-> MaxU32,
                value |-> IF v = 0 THEN MaxU32 ELSE v]

\* fix_sentinel: the vertex a sentinel points back to
VertexOf(e) == IF e.value = MaxU32 THEN 0 ELSE e.value

----------------------------------------------------------------------------
(* Geometry: resizeEdgeArray, find_leaf, find_node, get_node_id.           *)

\* bsr_word: the index of the highest 1 bit of n > 0
Bsr(n) == CHOOSE k \in 0 .. n : 2^k <= n /\ n < 2^(k + 1)

LogN(n) == 2^Bsr(2 * Bsr(n) + 1)

Height(n) == Bsr(n \div LogN(n))

Slots(L) == 0 .. L.N - 1

Vertices(L) == DOMAIN L.nodes

LastVertex(L) == Cardinality(Vertices(L)) - 1

FindNode(index, len) == (index \div len) * len

FindLeaf(L, index) == FindNode(index, LogN(L.N))

LeafId(L, index) == index \div LogN(L.N)

Leaves(L) == 0 .. (L.N \div LogN(L.N)) - 1

Window(index, len) == index .. index + len - 1

----------------------------------------------------------------------------
(* Densities.  The code compares doubles; len is a power of two, so the    *)
(* comparisons below are the same over the integers.  With a single leaf   *)
(* H is 0, density_bound divides 0 by 0 and every comparison is false.     *)

Occupied(L, index, len) ==
  {i \in Window(index, len) : ~IsNull(L.items[i])}

Full(L, index, len) == Cardinality(Occupied(L, index, len))

\* Wrong variant: every window may fill up.
TooDenseNever(L, full, len, level) == full > len

\* get_density >= density_bound.y = 3/4 + level / 4H
TooDense(L, full, len, level) ==
  LET H == Height(L.N) IN H > 0 /\ 4 * H * full >= len * (3 * H + level)

\* Wrong variant: the bound itself is too sparse.
TooSparseAt(L, full, len, level) ==
  LET H == Height(L.N) IN H > 0 /\ 8 * H * full <= len * (2 * H - level)

\* get_density < density_bound.x = 1/4 - level / 8H
TooSparse(L, full, len, level) ==
  LET H == Height(L.N) IN H > 0 /\ 8 * H * full < len * (2 * H - level)

\* Level j of the implicit tree counted from the leaves: the window of that
\* level that holds index, and its length.
LenAt(L, j) == LogN(L.N) * 2^j

StartAt(L, index, j) == FindNode(index, LenAt(L, j))

DenseAt(L, index, j, more) ==
  TooDense(L, Full(L, StartAt(L, index, j), LenAt(L, j)) + more,
           LenAt(L, j), Height(L.N) - j)

SparseAt(L, index, j, fewer) ==
  TooSparse(L, Full(L, StartAt(L, index, j), LenAt(L, j)) - fewer,
            LenAt(L, j), Height(L.N) - j)

\* The loops "while density too high (low), go up": the first level whose
\* density is within its bound, or H+1 when even the root is out of bounds.
InsertLevel(L, index) ==
  Least({j \in 0 .. Height(L.N) + 1 :
           j = Height(L.N) + 1 \/ ~DenseAt(L, index, j, 0)})

RemoveLevel(L, index) ==
  Least({j \in 0 .. Height(L.N) + 1 :
           j = Height(L.N) + 1 \/ ~SparseAt(L, index, j, 0)})

----------------------------------------------------------------------------
(* fix_sentinel for all the sentinels that one operation moves: a sentinel *)
(* begins its own vertex and ends the one before; the last vertex ends at  *)
(* the last slot.  at[v] is where v's sentinel went.                       *)

FixSentinels(nodes, at, N) ==
  LET last == Cardinality(DOMAIN nodes) - 1
      begins(v) == IF v \in DOMAIN at THEN at[v] ELSE nodes[v].beginning
      ends(v) == IF v = last
                 THEN IF v \in DOMAIN at THEN N - 1 ELSE nodes[v].end
                 ELSE IF v + 1 \in DOMAIN at THEN at[v + 1] ELSE nodes[v].end
  IN  [v \in DOMAIN nodes |-> [beginning |-> begins(v), end |-> ends(v)]]

\* Where the sentinels among the slots S of items are.
SentinelsAt(items, S) ==
  LET here == {i \in S : ~IsNull(items[i]) /\ IsSentinel(items[i])}
  IN  [v \in {VertexOf(items[i]) : i \in here} |->
         CHOOSE i \in here : VertexOf(items[i]) = v]

----------------------------------------------------------------------------
(* redistribute: spread the elements of [index, index + len) evenly, in    *)
(* order, and follow the sentinels among them.                             *)

Rank(S, i) == Cardinality({o \in S : o < i})

\* Wrong variant: each element at the right end of its share.
SpreadSlotRight(index, len, j, k) == index + ((k + 1) * len) \div j - 1

\* static_cast<size_t>(index_d) for the k-th (from 0) of j elements
SpreadSlot(index, len, j, k) ==
  index + (k * len) \div j - (IF <<index, len, j, k>> \in RoundsLow
                              THEN 1 ELSE 0)

\* The items after the elements of the window have been spread.
Spread(L, index, len) ==
  LET occ == Occupied(L, index, len)
      j == Cardinality(occ)
      to == [i \in occ |-> SpreadSlot(index, len, j, Rank(occ, i))]
  IN  [p \in Slots(L) |->
         IF p \notin Window(index, len) THEN L.items[p]
         ELSE IF \E i \in occ : to[i] = p
              THEN L.items[CHOOSE i \in occ : to[i] = p] ELSE Null]

\* Wrong variant: the vertices are not told where their sentinels went.
RedistributeNoFix(L, index, len) == [L EXCEPT !.items = Spread(L, index, len)]

Redistribute(L, index, len) ==
  LET items == Spread(L, index, len)
  IN  [L EXCEPT !.items = items,
                !.nodes = FixSentinels(@, SentinelsAt(items,
                                             Window(index, len)), L.N)]

\* double_list: twice the slots, the upper half null
DoubleList(L) ==
  Redistribute([N |-> 2 * L.N,
                items |-> [p \in 0 .. 2 * L.N - 1 |->
                             IF p < L.N THEN L.items[p] ELSE Null],
                nodes |-> L.nodes],
               0, 2 * L.N)

\* half_list: the elements compacted into the lower half
HalfList(L) ==
  LET occ == Occupied(L, 0, L.N)
      N == L.N \div 2
  IN  Redistribute([N |-> N,
                    items |-> [p \in 0 .. N - 1 |->
                                 IF p < Cardinality(occ)
                                 THEN L.items[CHOOSE i \in occ : Rank(occ, i) = p]
                                 ELSE Null],
                    nodes |-> L.nodes],
                   0, N)

----------------------------------------------------------------------------
(* slide_right and slide_left: make room at slot i.                        *)

\* The first null right of i, or N; the first null left of i, or -1.
NextNull(L, i) ==
  LET S == {p \in i + 1 .. L.N - 1 : IsNull(L.items[p])}
  IN  IF S = {} THEN L.N ELSE Least(S)

PrevNull(L, i) ==
  LET S == {p \in 0 .. i - 1 : IsNull(L.items[p])}
  IN  IF S = {} THEN -1 ELSE Greatest(S)

\* Shift the elements i .. e-1 right by one into the null at e.
ShiftRight(L, i, e) ==
  LET items == [p \in Slots(L) |-> IF p = i THEN Null
                                   ELSE IF p \in i + 1 .. e
                                        THEN L.items[p - 1] ELSE L.items[p]]
  IN  [L EXCEPT !.items = items,
                !.nodes = FixSentinels(@, SentinelsAt(items, i + 1 .. e), L.N)]

\* Shift the elements e+1 .. i left by one into the null at e.
ShiftLeft(L, i, e) ==
  LET items == [p \in Slots(L) |-> IF p = i THEN Null
                                   ELSE IF p \in e .. i - 1
                                        THEN L.items[p + 1] ELSE L.items[p]]
  IN  [L EXCEPT !.items = items,
                !.nodes = FixSentinels(@, SentinelsAt(items, e .. i - 1), L.N)]

\* slide_right ran off the end: slide_left moved everything back, except that
\* a sentinel in the last slot was noted at slot N.
SlidOffTheEnd(L, i) ==
  LET here == SentinelsAt(L.items, i .. L.N - 2)
      last == L.items[L.N - 1]
      nodes == FixSentinels(L.nodes, here, L.N)
  IN  [L EXCEPT !.nodes =
         IF IsSentinel(last)
         THEN FixSentinels(L.nodes,
                [v \in DOMAIN here \cup {VertexOf(last)} |->
                   IF v = VertexOf(last) THEN L.N ELSE here[v]], L.N)
         ELSE nodes]

\* slide_left with no null on the left: what falls off the left end comes
\* back as the first element of the doubled list.
SlideLeftDoubling(L, i) ==
  LET shifted == ShiftLeft([L EXCEPT !.items[0] = Null], i, 0)
      doubled == DoubleList(shifted)
      room == ShiftRight(doubled, 0, NextNull(doubled, 0))
      first == L.items[0]
  IN  [room EXCEPT !.items[0] = first,
                   !.nodes = IF IsSentinel(first)
                             THEN FixSentinels(@, [v \in {VertexOf(first)} |-> 0],
                                               room.N)
                             ELSE @]

SlideLeft(L, i) ==
  IF PrevNull(L, i) >= 0 THEN ShiftLeft(L, i, PrevNull(L, i))
  ELSE SlideLeftDoubling(L, i)

\* Wrong variant: insert forgets that a slide to the left frees index - 1.
MakeRoomAtIndex(L, index) ==
  IF IsNull(L.items[index]) THEN [list |-> L, at |-> index]
  ELSE IF NextNull(L, index) < L.N
       THEN [list |-> ShiftRight(L, index, NextNull(L, index)), at |-> index]
       ELSE [list |-> SlideLeft(SlidOffTheEnd(L, index), index - 1), at |-> index]

\* The list and the slot that insert writes to after making room at index.
MakeRoom(L, index) ==
  IF IsNull(L.items[index]) THEN [list |-> L, at |-> index]
  ELSE IF NextNull(L, index) < L.N
       THEN [list |-> ShiftRight(L, index, NextNull(L, index)), at |-> index]
       ELSE [list |-> SlideLeft(SlidOffTheEnd(L, index), index - 1),
             at |-> index - 1]

----------------------------------------------------------------------------
(* binary_search: the slot at which dest is or should go, within           *)
(* [start, end); end if every element of the range is smaller.             *)

\* The element of [s, e) that the scan around mid meets first: nearest, and
\* the right one of two equally near.
ScanFrom(L, s, e, mid) ==
  LET full == {p \in s .. e - 1 : ~IsNull(L.items[p])}
      Distance(p) == IF p >= mid THEN 2 * (p - mid) ELSE 2 * (mid - p) + 1
  IN  IF full = {} THEN -1
      ELSE CHOOSE p \in full : \A q \in full : Distance(p) <= Distance(q)

BinarySearch(L, dest, start, end) ==
  LET search[r \in Nat \X Nat] ==
        LET s == r[1]
            e == r[2]
            mid == (s + e) \div 2
            check == ScanFrom(L, s, e, mid)
        IN  IF s + 1 >= e
            THEN LET z == IF e < s THEN e ELSE s
                 IN  IF ~IsNull(L.items[z]) /\ dest <= L.items[z].dest
                     THEN z ELSE e
            ELSE IF check = -1 THEN mid
            ELSE IF check = s
                 THEN IF dest <= L.items[check].dest THEN check ELSE mid
            ELSE IF dest = L.items[check].dest THEN check
            ELSE IF dest < L.items[check].dest THEN search[<<s, check>>]
            ELSE search[<<check, e>>]
  IN  search[<<start, end>>]

\* Wrong variant: the first slot after the sentinel is skipped.
FindEdgeSkipsFirst(L, src, dest) ==
  BinarySearch(L, dest, L.nodes[src].beginning + 2, L.nodes[src].end)

\* The search of every operation on an edge of src.
FindEdge(L, src, dest) ==
  BinarySearch(L, dest, L.nodes[src].beginning + 1, L.nodes[src].end)

EdgeExists(L, src, dest) ==
  LET e == L.items[FindEdge(L, src, dest)]
  IN  ~IsNull(e) /\ ~IsSentinel(e) /\ e.dest = dest

GetNeighbourhood(L, src) ==
  {L.items[p].dest : p \in {q \in L.nodes[src].beginning + 1 .. L.nodes[src].end - 1 :
                              ~IsNull(L.items[q])}}

----------------------------------------------------------------------------
(* insert and remove.  info is what acquire_insert_locks learned: that the *)
(* list is to be doubled, or which window to redistribute, or nothing.     *)

NoInfo == [kind |-> "none"]
DoubleInfo == [kind |-> "double"]
RangeInfo(start, len) == [kind |-> "range", start |-> start, len |-> len]

\* "while density too high, go up the implicit tree", then redistribute.
Rebalance(L, leaf) ==
  LET j == InsertLevel(L, leaf)
  IN  IF j > Height(L.N) THEN DoubleList(L)
      ELSE IF j = 0 THEN L
      ELSE Redistribute(L, StartAt(L, leaf, j), LenAt(L, j))

\* The redistribution that insert was told to do, or finds it must do.
Settle(L, leaf, info) ==
  CASE info.kind = "double" -> DoubleList(L)
    [] info.kind = "range"  -> IF info.len > LogN(L.N)
                               THEN Redistribute(L, info.start, info.len) ELSE L
    [] info.kind = "none"   -> Rebalance(L, leaf)

\* insert when the slot is not the occupied last one: write the element ...
Put(L, index, elem) ==
  LET room == MakeRoom(L, index)
  IN  [room.list EXCEPT !.items[room.at] = elem]

\* ... even out its leaf, or both leaves of the parent if that filled it up ...
\* (len is the length of a leaf at the start of insert)
SpreadWindow(L, index, len) ==
  LET leaf == FindNode(index, len)
  IN  IF Full(L, leaf, len) = len
      THEN [start |-> FindNode(leaf, 2 * len), len |-> 2 * len]
      ELSE [start |-> leaf, len |-> len]

EvenOut(L, index, len) ==
  LET w == SpreadWindow(L, index, len) IN Redistribute(L, w.start, w.len)

\* ... and settle.
Deposit(L, index, elem, info) ==
  LET len == LogN(L.N)
      written == Put(L, index, elem)
  IN  Settle(EvenOut(written, index, len), SpreadWindow(written, index, len).start,
             info)

\* Wrong variant: an edge that is there already is added again.
InsertAgain(L, index, elem, src, info) ==
  IF ~IsNull(L.items[index]) /\ index = L.N - 1
  THEN LET D == DoubleList(L)
       IN  Deposit(D, FindEdge(D, src, elem.dest), elem, NoInfo)
  ELSE Deposit(L, index, elem, info)

\* The edge is there already: its value is updated.
Present(L, index, elem) ==
  ~IsNull(L.items[index]) /\ ~IsSentinel(elem) /\ L.items[index].dest = elem.dest

Insert(L, index, elem, src, info) ==
  LET old == L.items[index]
  IN  IF Present(L, index, elem)
      THEN [L EXCEPT !.items[index].value = elem.value]
      ELSE IF ~IsNull(old) /\ index = L.N - 1
      THEN LET D == DoubleList(L)
           IN  Deposit(D, FindEdge(D, src, elem.dest), elem, NoInfo)
      ELSE Deposit(L, index, elem, info)

\* remove: null the slot, even out its leaf, and then the first window that is
\* not too sparse, or halve the list.
Erase(L, index) == [L EXCEPT !.items[index] = Null]

SettleRemoval(L, leaf) ==
  LET j == RemoveLevel(L, leaf)
  IN  IF j > Height(L.N) THEN HalfList(L)
      ELSE Redistribute(L, StartAt(L, leaf, j), LenAt(L, j))

Remove(L, index, dest) ==
  LET leaf == FindLeaf(L, index)
  IN  IF IsNull(L.items[index]) \/ L.items[index].dest # dest THEN L
      ELSE SettleRemoval(Redistribute(Erase(L, index), leaf, LogN(L.N)), leaf)

----------------------------------------------------------------------------
(* Construction.                                                           *)

\* resizeEdgeArray(2 << bsr_word(n))
InitialSize(n) == 2 * 2^Bsr(n)

\* PCSR(init_n, src_n, ...): n sentinels spread over the empty array
InitialList(n, minimum) ==
  LET N == InitialSize(IF 2 * n > minimum THEN 2 * n ELSE minimum)
      at == [v \in 0 .. n - 1 |-> (v * N) \div n]
  IN  [N |-> N,
       items |-> [p \in 0 .. N - 1 |->
                    IF \E v \in 0 .. n - 1 : at[v] = p
                    THEN Sentinel(CHOOSE v \in 0 .. n - 1 : at[v] = p)
                    ELSE Null],
       nodes |-> [v \in 0 .. n - 1 |->
                    [beginning |-> at[v],
                     end |-> IF v = n - 1 THEN N - 1 ELSE at[v + 1]]]]

\* add_node: a vertex that begins where the last one ends
AddNode(L) ==
  LET n == Cardinality(Vertices(L))
      at == IF n > 0 THEN L.nodes[n - 1].end ELSE 0
      nodes == [v \in 0 .. n |-> IF v < n THEN L.nodes[v]
                                 ELSE [beginning |-> at, end |-> at + 1]]
  IN  Insert([L EXCEPT !.nodes = nodes], at, Sentinel(n), n, NoInfo)

----------------------------------------------------------------------------
(* What a well-formed list is, and the graph it stores.                    *)

Elements(L) == Occupied(L, 0, L.N)

IsEdge(e) == ~IsNull(e) /\ ~IsSentinel(e)

\* The edges stored anywhere in the array, by the source written on them.
EdgesOf(L) ==
  {<<L.items[p].src, L.items[p].dest, L.items[p].value>> :
     p \in {q \in Slots(L) : IsEdge(L.items[q])}}

\* Each vertex has its sentinel, and nodes points at it and at the next one.
Pointed(L) ==
  LET at == SentinelsAt(L.items, Slots(L))
  IN  /\ DOMAIN at = Vertices(L)
      /\ \A v \in Vertices(L) :
           /\ L.nodes[v].beginning = at[v]
           /\ L.nodes[v].end = IF v = LastVertex(L) THEN L.N - 1 ELSE at[v + 1]

\* The sentinels ascend and every edge lies in the block of its source: after
\* its sentinel and before the next one.
InBlocks(L) ==
  \A p, q \in Elements(L) : p < q =>
    LET Owner(e) == IF IsSentinel(e) THEN VertexOf(e) ELSE e.src
    IN  \/ Owner(L.items[p]) < Owner(L.items[q])
        \/ Owner(L.items[p]) = Owner(L.items[q]) /\ IsEdge(L.items[q])

\* The edges of one source ascend; none is there twice.
Ascending(L) ==
  \A p, q \in Elements(L) :
    p < q /\ IsEdge(L.items[p]) /\ IsEdge(L.items[q])
          /\ L.items[p].src = L.items[q].src
      => L.items[p].dest < L.items[q].dest
============================================================================
