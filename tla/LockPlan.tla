----------------------------- MODULE LockPlan -----------------------------
(***************************************************************************)
(* The decisions of acquire_insert_locks, acquire_remove_locks and         *)
(* got_correct_insertion_index: what a thread that holds the exclusive     *)
(* locks of the leaves lo .. hi does next.  A decision reads only slots of *)
(* those leaves (except got_correct_insertion_index's scan to the left),   *)
(* so the thread may take it again after every lock: the answers about the *)
(* leaves it already held have not changed.                                *)
(***************************************************************************)
EXTENDS EdgeList

\* What to do next.
Lock == [do |-> "lock"]                     \* lock leaf hi + 1
Restart(b) == [do |-> "restart", from |-> b] \* let go, begin again at leaf b
Global(info) == [do |-> "global", info |-> info]   \* NEED_GLOBAL_WRITE
Go(info) == [do |-> "go", info |-> info]    \* the locks suffice
Correct(b) == [do |-> "checked", ok |-> b]

\* The slots of the leaves lo .. hi.
Locked(L, lo, hi) == {p \in Slots(L) : LeafId(L, p) \in lo .. hi}

----------------------------------------------------------------------------
(* got_correct_insertion_index                                             *)

\* The first element right of index (N if there is none), the first left of it.
NextElement(L, index) ==
  LET S == {p \in index + 1 .. L.N - 1 : ~IsNull(L.items[p])}
  IN  IF S = {} THEN L.N ELSE Least(S)

PrevElement(L, index) ==
  Greatest({p \in 0 .. index - 1 : ~IsNull(L.items[p])})

\* The element found at index lets (src, dest) be here.
FitsHere(L, src, index, dest) ==
  LET e == L.items[index]
  IN  /\ IsSentinel(e) => IF src # LastVertex(L) THEN e.src = src + 1
                                                 ELSE e.value = MaxU32
      /\ IsEdge(e) => e.src = src /\ e.dest >= dest

\* Wrong variant: the last vertex takes its own end for another's.
FitsRightOfLast(L, src, index, dest) ==
  LET r == NextElement(L, index)
      e == L.items[r]
  IN  /\ r < L.N /\ IsEdge(e) /\ e.src = src => e.dest >= dest
      /\ IF r < L.N THEN IsSentinel(e) => e.value = src + 1
                    ELSE src # LastVertex(L)

\* The element right of an empty slot lets (src, dest) be there.
FitsRight(L, src, index, dest) ==
  LET r == NextElement(L, index)
      e == L.items[r]
  IN  r < L.N =>
        /\ IsEdge(e) /\ e.src = src => e.dest >= dest
        /\ IsSentinel(e) => IF src # LastVertex(L) THEN e.value = src + 1
                                                   ELSE e.value # MaxU32

\* The element left of the slot lets (src, dest) be there.
FitsLeft(L, src, index, dest) ==
  LET e == L.items[PrevElement(L, index)]
  IN  /\ IsEdge(e) /\ e.src = src => e.dest < dest
      /\ IsSentinel(e) => e.value = Sentinel(src).value

\* The scan to the right of an empty slot locks every leaf it enters.
CheckIndex(L, src, index, dest, hi) ==
  LET empty == IsNull(L.items[index])
      next == NextElement(L, index)
      reach == LeafId(L, IF next < L.N THEN next ELSE L.N - 1)
  IN  IF ~empty
      THEN Correct(FitsHere(L, src, index, dest) /\ FitsLeft(L, src, index, dest))
      ELSE IF reach > hi THEN Lock
      ELSE Correct(FitsRight(L, src, index, dest) /\ FitsLeft(L, src, index, dest))

----------------------------------------------------------------------------
(* acquire_insert_locks                                                    *)

\* The locks for slide_right and slide_left once the window is locked.
PlanSlide(L, index, lo, hi, info) ==
  LET held == Locked(L, lo, hi)
      right == NextNull(L, index)
      left == PrevNull(L, index)
      \* the first slot of each scan that is null or not locked yet
      stopR == {p \in index + 1 .. L.N - 1 : p \notin held \/ IsNull(L.items[p])}
      stopL == {p \in 0 .. index - 1 : p \notin held \/ IsNull(L.items[p])}
  IN  IF IsNull(L.items[index]) THEN Go(info)
      ELSE IF stopR # {} /\ Least(stopR) \notin held THEN Lock
      ELSE IF right < L.N THEN Go(info)
      ELSE IF stopL # {} /\ Greatest(stopL) \notin held
           THEN Restart(LeafId(L, Greatest(stopL)))
      ELSE IF left >= 0 THEN Go(info)
      ELSE Global(NoInfo)

\* Wrong variant: the window that is too dense is not locked before the climb.
PlanInsertUnlocked(L, index, lo, hi) ==
  LET base == FindNode(index, LogN(L.N))
      top == Least({j \in 0 .. Height(L.N) + 1 :
                     j = Height(L.N) + 1 \/ ~DenseAt(L, base, j, 1)})
  IN  IF top = Height(L.N) + 1 THEN Global(DoubleInfo)
      ELSE PlanSlide(L, index, lo, hi, RangeInfo(StartAt(L, base, top), LenAt(L, top)))

\* Which window will be redistributed: climb while the window, with the new
\* element, is too dense, as far as the windows are locked.
PlanInsert(L, index, lo, hi) ==
  LET held == Locked(L, lo, hi)
      len == LogN(L.N)
      leaf == FindNode(index, len)
      \* one element more fills the leaf: begin at the leftmost leaf of the parent
      base == IF Full(L, leaf, len) + 1 = len THEN FindNode(leaf, 2 * len) ELSE leaf
      H == Height(L.N)
      Known(j) == Window(StartAt(L, base, j), LenAt(L, j)) \subseteq held
      top == Least({j \in 0 .. H + 1 : \/ j = H + 1
                                       \/ ~Known(j)
                                       \/ ~DenseAt(L, base, j, 1)})
  IN  IF top = H + 1 THEN Global(DoubleInfo)
      ELSE IF Known(top)
      THEN PlanSlide(L, index, lo, hi,
                     RangeInfo(StartAt(L, base, top), LenAt(L, top)))
      ELSE IF LeafId(L, StartAt(L, base, top)) < lo
      THEN Restart(LeafId(L, StartAt(L, base, top)))
      ELSE Lock

----------------------------------------------------------------------------
(* acquire_remove_locks, once the edge is known to be at index             *)

PlanRemove(L, index, lo, hi) ==
  LET held == Locked(L, lo, hi)
      H == Height(L.N)
      Known(j) == Window(StartAt(L, index, j), LenAt(L, j)) \subseteq held
      top == Least({j \in 0 .. H + 1 : \/ j = H + 1
                                       \/ ~Known(j)
                                       \/ ~SparseAt(L, index, j, 1)})
  IN  IF top = H + 1 THEN Global(NoInfo)
      ELSE IF Known(top) THEN Go(NoInfo)
      ELSE IF LeafId(L, StartAt(L, index, top)) < lo
      THEN Restart(LeafId(L, StartAt(L, index, top)))
      ELSE Lock
============================================================================
