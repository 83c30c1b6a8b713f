------------------------------- MODULE PCSR -------------------------------
(***************************************************************************)
(* add_edge and remove_edge of pcsr/PCSR.cpp run by several threads.       *)
(*                                                                         *)
(* Every leaf of the edge list has a shared/exclusive lock and a version   *)
(* counter (utility/hybridLock.h); the whole list has the global lock,     *)
(* taken here as the abstract RWLock that FastLock implements.  An update  *)
(* runs inside a shared section of the global lock: it searches its slot   *)
(* under shared leaf locks, lets go of them, takes the exclusive locks of  *)
(* the leaves that its redistribution will touch, one leaf at a time and   *)
(* in ascending order, makes sure that its leaf is still at the version of *)
(* the search, writes, and releases.  When the whole list must be resized, *)
(* or too many attempts have failed, it changes to the exclusive section.  *)
(*                                                                         *)
(* A step is what a thread does up to its next lock or its next read of an *)
(* unprotected variable.  Only nodes is read while others write it, so an  *)
(* update is as many steps as it has values to show there: the element is  *)
(* put or erased, its leaf is evened out, a larger window is evened out.   *)
(* A version counter is compared only for equality with the value read at  *)
(* the search, so it is kept as one bit per searching thread.              *)
(***************************************************************************)
EXTENDS LockPlan

CONSTANTS
  Threads,
  SearchModes,      \* the values of lock_bsearch that are considered
  TornSearch,       \* may a search without leaf locks meet a half-done write?
  InitVertices,     \* init_n = src_n of the constructor
  MaxVertices,      \* bound: add_node is not called beyond this many
  MinCapacity,      \* 1024 in the constructor (scaled down)
  Adds, Removes,    \* the <<source, destination>> that each thread adds
                    \* and removes
  Values            \* the values given to edges

ASSUME InputsAssumption ==
  /\ {Adds, Removes} \subseteq [Threads -> SUBSET (Nat \X (0 .. MaxU32 - 1))]
  /\ Values \subseteq 1 .. MaxU32 - 1
  /\ InitVertices \in Nat /\ MaxVertices \in Nat /\ MinCapacity \in Nat \ {0}
ASSUME SearchModesAssumption == SearchModes \subseteq BOOLEAN /\ TornSearch \in BOOLEAN

VARIABLES
  lock_bsearch,     \* shared leaf locks during binary_search? (never changes)
  list,             \* edges and nodes: an edge list of EdgeList.tla
  global_lock,      \* how each thread holds edges.global_lock
  shared,           \* shared[t]: the leaves t has locked shared
  exclusive,        \* exclusive[t]: the leaves t has locked exclusively
  pc,               \* where each thread is
  frame             \* the local variables of each thread's call

vars == <<lock_bsearch, list, global_lock, shared, exclusive, pc, frame>>

GL == INSTANCE RWLock WITH mode <- global_lock

----------------------------------------------------------------------------
(* Local variables.                                                        *)

NoFrame == [kind |-> "none"]

Keys == UNION {Adds[t] \cup Removes[t] : t \in Threads}

\* A fresh call of add_edge_parallel or remove_edge.
Frame(kind, s, d, v, retries) ==
  [kind |-> kind, src |-> s, dest |-> d, value |-> v, retries |-> retries,
   beginning |-> 0, end |-> 0,      \* nodes[src] as read at the start
   next |-> 0,                      \* the next leaf to lock
   index |-> 0,                     \* loc_to_add, loc_to_rem
   fresh |-> TRUE,                  \* its leaf is at the version ins_node_v
   lo |-> 0, hi |-> 0,              \* min_node, max_node
   tries |-> 0, info |-> NoInfo]

Element(f) == [src |-> f.src, dest |-> f.dest, value |-> f.value]

PCs == {"idle", "call", "snap", "share", "search", "load", "lock", "check",
        "plan", "write", "spread", "settle", "release", "upgrade", "force", "unlock"}

\* Where a thread is changing the leaves that it has locked.
Writing == {"write", "spread", "settle"}

\* A thread may lock leaf i when nobody holds it (shared: exclusively).
Free(i) == \A u \in Threads : i \notin shared[u] \cup exclusive[u]
FreeShared(i) == \A u \in Threads : i \notin exclusive[u]

Init ==
  /\ lock_bsearch \in SearchModes
  /\ list = InitialList(InitVertices, MinCapacity)
  /\ GL!RWInit
  /\ shared = [t \in Threads |-> {}]
  /\ exclusive = [t \in Threads |-> {}]
  /\ pc = [t \in Threads |-> "idle"]
  /\ frame = [t \in Threads |-> NoFrame]

----------------------------------------------------------------------------
(* Control flow shared by both operations.                                 *)

Goto(t, to) == pc' = [pc EXCEPT ![t] = to]

SetFrame(t, f) == frame' = [frame EXCEPT ![t] = f]

ReleaseLeaves(t) == exclusive' = [exclusive EXCEPT ![t] = {}]

\* The call is made again with one retry more; remove_edge does not count.
CallAgain(t) ==
  LET f == frame[t]
      n == IF f.kind = "add" THEN f.retries + 1 ELSE 0
  IN  /\ GL!Release(t)
      /\ SetFrame(t, Frame(f.kind, f.src, f.dest, f.value, n))
      /\ Goto(t, "call")

\* All leaf locks go, and the shared section: NEED_RETRY.
Retry(t) ==
  /\ ReleaseLeaves(t)
  /\ CallAgain(t)
  /\ UNCHANGED <<list, shared>>

\* Wrong variant: the leaf locks are kept.
EscalateHolding(t, info) ==
  /\ GL!Release(t)
  /\ SetFrame(t, [frame[t] EXCEPT !.info = info])
  /\ Goto(t, "upgrade")
  /\ UNCHANGED <<list, shared, exclusive>>

\* All leaf locks go, and the shared section: NEED_GLOBAL_WRITE.
Escalate(t, info) ==
  /\ ReleaseLeaves(t)
  /\ GL!Release(t)
  /\ SetFrame(t, [frame[t] EXCEPT !.info = info])
  /\ Goto(t, "upgrade")
  /\ UNCHANGED <<list, shared>>

Return(t) ==
  /\ ReleaseLeaves(t)
  /\ GL!Release(t)
  /\ SetFrame(t, NoFrame)
  /\ Goto(t, "idle")

\* Lock leaf hi + 1, to the right of those held.
Extend(t) ==
  /\ Free(frame[t].hi + 1)
  /\ exclusive' = [exclusive EXCEPT ![t] = @ \cup {frame[t].hi + 1}]
  /\ SetFrame(t, [frame[t] EXCEPT !.hi = @ + 1])
  /\ UNCHANGED <<list, global_lock, shared, pc>>

----------------------------------------------------------------------------
(* The operations.                                                         *)

\* add_edge(s, d, v): add_edge_parallel ignores unknown sources and value 0.
BeginAdd(t, s, d, v) ==
  /\ pc[t] = "idle"
  /\ SetFrame(t, Frame("add", s, d, v, 0))
  /\ Goto(t, "call")
  /\ UNCHANGED <<list, global_lock, shared, exclusive>>

BeginRemove(t, s, d) ==
  /\ pc[t] = "idle"
  /\ SetFrame(t, Frame("remove", s, d, 1, 0))
  /\ Goto(t, "call")
  /\ UNCHANGED <<list, global_lock, shared, exclusive>>

\* After more than three retries add_edge_parallel takes the global lock.
CallForced(t) ==
  /\ pc[t] = "call"
  /\ frame[t].retries > 3
  /\ GL!AcquireExclusive(t)
  /\ Goto(t, "force")
  /\ UNCHANGED <<list, shared, exclusive, frame>>

\* lock_shared, then "auto beginning = nodes[src].beginning".
Call(t) ==
  /\ pc[t] = "call"
  /\ frame[t].retries <= 3
  /\ GL!AcquireShared(t)
  /\ SetFrame(t, [frame[t] EXCEPT !.beginning =
                                     list.nodes[frame[t].src].beginning])
  /\ Goto(t, "snap")
  /\ UNCHANGED <<list, shared, exclusive>>

FirstNode(f) == LeafId(list, f.beginning + 1)

\* Wrong variant: one leaf too many.
LastNodeBeyond(f) == LeafId(list, f.end) + 1

LastNode(f) == LeafId(list, f.end)

\* "auto end = nodes[src].end"; writers may have moved src in between.
Snap(t) ==
  LET f == [frame[t] EXCEPT !.end = list.nodes[frame[t].src].end]
  IN  /\ pc[t] = "snap"
      /\ SetFrame(t, [f EXCEPT !.next = FirstNode(f)])
      /\ Goto(t, IF lock_bsearch /\ FirstNode(f) <= LastNode(f)
                 THEN "share" ELSE "search")
      /\ UNCHANGED <<list, global_lock, shared, exclusive>>

\* lock_shared on the leaves of src's range, in ascending order
ShareLeaf(t) ==
  LET f == frame[t]
  IN  /\ pc[t] = "share"
      /\ FreeShared(f.next)
      /\ shared' = [shared EXCEPT ![t] = @ \cup {f.next}]
      /\ SetFrame(t, [f EXCEPT !.next = @ + 1])
      /\ Goto(t, IF f.next = LastNode(f) THEN "search" ELSE "share")
      /\ UNCHANGED <<list, global_lock, exclusive>>

\* Wrong variant: the range is not looked at again.
MovedUnnoticed(f) == FALSE

\* Has src's range moved since it was read?
Moved(f) == \/ list.nodes[f.src].beginning # f.beginning
            \/ list.nodes[f.src].end # f.end

\* Does another thread change a leaf among those from first to last?
Disturbed(t, first, last) ==
  \E u \in Threads \ {t} : pc[u] \in Writing /\ exclusive[u] \cap first .. last # {}

\* What binary_search may return to t.  Where it reads without leaf locks and
\* meets a leaf that another thread is writing, any slot of its range (with
\* TornSearch = FALSE it never does: fewer behaviours, all of them real).
Found(t) ==
  LET f == frame[t]
      exact == BinarySearch(list, f.dest, f.beginning + 1, f.end)
  IN  IF TornSearch /\ ~lock_bsearch /\ Disturbed(t, FirstNode(f), LastNode(f))
      THEN {exact} \cup f.beginning + 1 .. f.end ELSE {exact}

\* Without shared leaf locks a slot left of the range is not accepted, an
\* insertion begins to lock one leaf further left, and the version of the leaf
\* is loaded after the slots have been read.
Search(t) ==
  LET f == frame[t]
  IN  /\ pc[t] = "search"
      /\ shared' = [shared EXCEPT ![t] = {}]
      /\ \E i \in Found(t) :
           LET node == LeafId(list, i)
               lo == IF f.kind = "add" /\ ~lock_bsearch /\ node > 0
                     THEN node - 1 ELSE node
           IN  IF \/ lock_bsearch /\ Moved(f)
                  \/ ~lock_bsearch /\ f.kind = "add" /\ node < FirstNode(f)
               THEN /\ CallAgain(t)
                    /\ UNCHANGED <<list, exclusive>>
               ELSE /\ SetFrame(t, [f EXCEPT !.index = i, !.lo = lo, !.hi = node,
                                             !.next = lo])
                    /\ Goto(t, IF lock_bsearch THEN "lock" ELSE "load")
                    /\ UNCHANGED <<list, global_lock, exclusive>>

\* "load()" of the version, without a lock
LoadVersion(t) ==
  /\ pc[t] = "load"
  /\ Goto(t, "lock")
  /\ UNCHANGED <<list, global_lock, shared, exclusive, frame>>

\* The exclusive locks from lo to the leaf of index, in ascending order.
LockLeaf(t) ==
  LET f == frame[t]
  IN  /\ pc[t] = "lock"
      /\ Free(f.next)
      /\ exclusive' = [exclusive EXCEPT ![t] = @ \cup {f.next}]
      /\ SetFrame(t, [f EXCEPT !.next = @ + 1])
      /\ Goto(t, IF f.next = f.hi THEN "check" ELSE "lock")
      /\ UNCHANGED <<list, global_lock, shared>>

\* got_correct_insertion_index as t finds it.  Its scan to the left leaves the
\* locked leaves; where it meets a leaf that another thread is writing, what
\* it finds is arbitrary.
IndexChecks(t) ==
  LET f == frame[t]
      exact == CheckIndex(list, f.src, f.index, f.dest, f.hi)
  IN  IF Disturbed(t, LeafId(list, PrevElement(list, f.index)),
                   LeafId(list, f.index))
      THEN {exact, Correct(FALSE)} ELSE {exact}

\* Wrong variant: the version of the leaf is not compared.
CheckInsertUnversioned(t) ==
  /\ pc[t] = "check"
  /\ frame[t].kind = "add"
  /\ IF frame[t].index = list.N - 1 /\ ~IsNull(list.items[frame[t].index])
     THEN Escalate(t, NoInfo)
     ELSE /\ Goto(t, "plan")
          /\ UNCHANGED <<list, global_lock, shared, exclusive, frame>>

\* acquire_insert_locks up to the density checks
CheckInsert(t) ==
  LET f == frame[t]
  IN  /\ pc[t] = "check"
      /\ f.kind = "add"
      /\ IF ~f.fresh THEN Retry(t)
         ELSE IF f.index = list.N - 1 /\ ~IsNull(list.items[f.index])
         THEN Escalate(t, NoInfo)
         ELSE IF lock_bsearch
         THEN Goto(t, "plan")
              /\ UNCHANGED <<list, global_lock, shared, exclusive, frame>>
         ELSE \E c \in IndexChecks(t) :
                \/ c = Lock /\ Extend(t)
                \/ c = Correct(FALSE) /\ Retry(t)
                \/ /\ c = Correct(TRUE)
                   /\ Goto(t, "plan")
                   /\ UNCHANGED <<list, global_lock, shared, exclusive, frame>>

\* acquire_remove_locks up to the density checks
CheckRemove(t) ==
  LET f == frame[t]
      e == list.items[f.index]
  IN  /\ pc[t] = "check"
      /\ f.kind = "remove"
      /\ \E c \in IndexChecks(t) :
           \/ c = Lock /\ Extend(t)
           \/ (c = Correct(FALSE) \/ (c = Correct(TRUE) /\ ~f.fresh)) /\ Retry(t)
           \/ /\ c = Correct(TRUE) /\ f.fresh
              /\ IF IsNull(e) \/ e.dest # f.dest
                 THEN Return(t) /\ UNCHANGED <<list, shared>>  \* EDGE_NOT_FOUND
                 ELSE /\ Goto(t, "plan")
                      /\ UNCHANGED <<list, global_lock, shared, exclusive, frame>>

Decision(t) ==
  LET f == frame[t]
  IN  IF f.kind = "add" THEN PlanInsert(list, f.index, f.lo, f.hi)
                        ELSE PlanRemove(list, f.index, f.lo, f.hi)

\* Wrong variant: the locks are kept.
RestartedHolding(t, b) ==
  LET f == frame[t]
      tries == IF f.kind = "add" THEN f.tries + 1 ELSE 0
  IN  IF tries > 3 THEN Escalate(t, NoInfo)
      ELSE /\ SetFrame(t, [f EXCEPT !.tries = tries, !.lo = b, !.next = b,
                                    !.hi = LeafId(list, f.index)])
           /\ Goto(t, "lock")
           /\ UNCHANGED <<list, global_lock, shared, exclusive>>

\* The locks are let go and taken again from a leaf further left; an insertion
\* that has done so more than three times takes the global lock.
Restarted(t, b) ==
  LET f == frame[t]
      tries == IF f.kind = "add" THEN f.tries + 1 ELSE 0
  IN  IF tries > 3 THEN Escalate(t, NoInfo)
      ELSE /\ ReleaseLeaves(t)
           /\ SetFrame(t, [f EXCEPT !.tries = tries, !.lo = b, !.next = b,
                                    !.hi = LeafId(list, f.index)])
           /\ Goto(t, "lock")
           /\ UNCHANGED <<list, global_lock, shared>>

Plan(t) ==
  LET d == Decision(t)
  IN  /\ pc[t] = "plan"
      /\ \/ d.do = "lock" /\ Extend(t)
         \/ d.do = "restart" /\ Restarted(t, d.from)
         \/ d.do = "global" /\ Escalate(t, d.info)
         \/ /\ d.do = "go"
            /\ SetFrame(t, [frame[t] EXCEPT !.info = d.info])
            /\ Goto(t, "write")
            /\ UNCHANGED <<list, global_lock, shared, exclusive>>

\* insert and remove inside the leaf locks: the slot first (the last slot is not
\* occupied and the edge to remove is there: CheckInsert and CheckRemove) ...
Write(t) ==
  LET f == frame[t]
      update == f.kind = "add" /\ Present(list, f.index, Element(f))
  IN  /\ pc[t] = "write"
      /\ list' = CASE update -> [list EXCEPT !.items[f.index].value = f.value]
                   [] f.kind = "add" /\ ~update -> Put(list, f.index, Element(f))
                   [] f.kind = "remove" -> Erase(list, f.index)
      /\ Goto(t, IF update THEN "release" ELSE "spread")
      /\ UNCHANGED <<global_lock, shared, exclusive, frame>>

\* ... then its leaf (an insertion that fills it up: its parent) ...
SpreadLeaf(t) ==
  LET f == frame[t]
  IN  /\ pc[t] = "spread"
      /\ list' = IF f.kind = "add" THEN EvenOut(list, f.index, LogN(list.N))
                 ELSE Redistribute(list, FindLeaf(list, f.index), LogN(list.N))
      /\ Goto(t, "settle")
      /\ UNCHANGED <<global_lock, shared, exclusive, frame>>

\* ... then the window that the density asks for.
SettleDensity(t) ==
  LET f == frame[t]
      leaf == FindLeaf(list, f.index)
  IN  /\ pc[t] = "settle"
      /\ list' = IF f.kind = "add" THEN Settle(list, leaf, f.info)
                                   ELSE SettleRemoval(list, leaf)
      /\ Goto(t, "release")
      /\ UNCHANGED <<global_lock, shared, exclusive, frame>>

\* release_locks: every leaf that was locked gets a new version, so a search
\* that ended in one of them is stale; then the shared section ends.
ReleaseLocks(t) ==
  LET Searching(u) == u # t /\ pc[u] \in {"lock", "check", "plan"}
      Hit(u) == Searching(u) /\ LeafId(list, frame[u].index) \in exclusive[t]
  IN  /\ pc[t] = "release"
      /\ frame' = [u \in Threads |-> IF u = t THEN NoFrame
                                     ELSE IF Hit(u)
                                     THEN [frame[u] EXCEPT !.fresh = FALSE]
                                     ELSE frame[u]]
      /\ ReleaseLeaves(t)
      /\ GL!Release(t)
      /\ Goto(t, "idle")
      /\ UNCHANGED <<list, shared>>

\* std::lock_guard on the global lock after NEED_GLOBAL_WRITE
Upgrade(t) ==
  /\ pc[t] = "upgrade"
  /\ GL!AcquireExclusive(t)
  /\ Goto(t, "force")
  /\ UNCHANGED <<list, shared, exclusive, frame>>

\* insert or remove at a slot, alone
Apply(f, index) ==
  IF f.kind = "add" THEN Insert(list, index, Element(f), f.src, f.info)
                    ELSE Remove(list, index, f.dest)

\* Wrong variant: the slot found before the shared section was left.
WriteAloneStale(t) ==
  /\ pc[t] = "force"
  /\ list' = Apply(frame[t], frame[t].index)
  /\ Goto(t, "unlock")
  /\ UNCHANGED <<global_lock, shared, exclusive, frame>>

\* The slot is searched again, in the list as it is now.
WriteAlone(t) ==
  /\ pc[t] = "force"
  /\ list' = Apply(frame[t], FindEdge(list, frame[t].src, frame[t].dest))
  /\ Goto(t, "unlock")
  /\ UNCHANGED <<global_lock, shared, exclusive, frame>>

Unlock(t) ==
  /\ pc[t] = "unlock"
  /\ Return(t)
  /\ UNCHANGED <<list, shared>>

\* add_node takes no lock: it is called while no thread updates the list.
AddVertex ==
  /\ \A t \in Threads : pc[t] = "idle"
  /\ Cardinality(Vertices(list)) < MaxVertices
  /\ list' = AddNode(list)
  /\ UNCHANGED <<global_lock, shared, exclusive, pc, frame>>

Begin(t) ==
  \/ \E e \in Adds[t], v \in Values :
       e[1] \in Vertices(list) /\ BeginAdd(t, e[1], e[2], v)
  \/ \E e \in Removes[t] :
       e[1] \in Vertices(list) /\ BeginRemove(t, e[1], e[2])

Continue(t) == \/ CallForced(t) \/ Call(t) \/ Snap(t) \/ ShareLeaf(t)
               \/ Search(t) \/ LoadVersion(t) \/ LockLeaf(t) \/ CheckInsert(t) \/ CheckRemove(t)
               \/ Plan(t) \/ Write(t) \/ SpreadLeaf(t) \/ SettleDensity(t)
               \/ ReleaseLocks(t)
               \/ Upgrade(t) \/ WriteAlone(t) \/ Unlock(t)

Next == /\ UNCHANGED lock_bsearch
        /\ AddVertex \/ \E t \in Threads : Begin(t) \/ Continue(t)

Spec == Init /\ [][Next]_vars

\* A thread that is inside a call keeps running.  This is WF_vars(Continue(t))
\* where there is one thread, which no lock can stop.
FairSpec ==
  /\ Spec
  /\ \A t \in Threads : []<>(pc[t] = "idle") \/ []<><<Continue(t)>>_vars

----------------------------------------------------------------------------
TypeOK ==
  /\ lock_bsearch \in BOOLEAN
  /\ list.N \in Nat
  /\ list.items \in [0 .. list.N - 1 ->
       [src : Int, dest : 0 .. MaxU32, value : 0 .. MaxU32]]
  /\ list.nodes \in [Vertices(list) -> [beginning : Nat, end : Nat]]
  /\ global_lock \in [Threads -> GL!Modes]
  /\ shared \in [Threads -> SUBSET Leaves(list)]
  /\ exclusive \in [Threads -> SUBSET Leaves(list)]
  /\ pc \in [Threads -> PCs]
  /\ \A t \in Threads : pc[t] = "idle" <=> frame[t] = NoFrame

\* redistribute, slide_right, slide_left, double_list and half_list move
\* sentinels about; after every write nodes (the range that the next search
\* reads) agrees with where they are, and no edge has left its source's block.
\* Nothing is claimed of several threads that search without leaf locks.
BlocksIntact ==
  lock_bsearch \/ Cardinality(Threads) = 1 => Pointed(list) /\ InBlocks(list)

\* "if the edge already exists in the graph, update its value, do not make
\* another edge", and binary_search needs the edges of a source ascending.
Sorted == Ascending(list)

\* The same: no edge is there twice.
NoEdgeTwice ==
  \A p, q \in Elements(list) :
    /\ IsEdge(list.items[p]) /\ IsEdge(list.items[q])
    /\ list.items[p].src = list.items[q].src
    /\ list.items[p].dest = list.items[q].dest
    => p = q

\* "since it can't be full this doesn't need to worry about going off the
\* other end": slide_left always has a null to slide into.
NeverFull == Full(list, 0, list.N) < list.N

\* insert can make room at slot i where nodes stays right: there is a null on its
\* right, or one on its left and no sentinel in the last slot.
Roomy(L, i) ==
  \/ IsNull(L.items[i])
  \/ NextNull(L, i) < L.N
  \/ ~IsSentinel(L.items[L.N - 1]) /\ PrevNull(L, i - 1) >= 0

\* "slide off the end on the right, should be rare": slide_right takes no sentinel
\* off the end, where fix_sentinel would tell its vertex slot N, and slide_left, in
\* the exclusive section, does not go "off the other end".
SlidesInside ==
  \A t \in Threads :
    LET f == frame[t]
        i == FindEdge(list, f.src, f.dest)
    IN  /\ pc[t] = "write" /\ f.kind = "add" =>
             \/ Present(list, f.index, Element(f))
             \/ IsNull(list.items[f.index])
             \/ NextNull(list, f.index) < list.N
             \/ ~IsSentinel(list.items[list.N - 1])
        /\ pc[t] = "force" /\ f.kind = "add" =>
             Present(list, i, Element(f)) \/ i = list.N - 1 \/ Roomy(list, i)

\* add_node finds the last slot free: otherwise insert would double the array and
\* search the place of the new sentinel in a range that is not that of its vertex.
AddsAtFreeEnd == AddVertex => IsNull(list.items[list.N - 1])
VertexAtFreeEnd == [][AddsAtFreeEnd]_vars

\* The leftmost slot always holds the sentinel of vertex 0: the scan to the
\* left of got_correct_insertion_index stops there, and redistribute, which
\* counts down from index + j - 1 in an unsigned, meets no empty window at 0.
FirstSlotTaken ==
  Vertices(list) # {} => /\ IsSentinel(list.items[0])
                         /\ VertexOf(list.items[0]) = 0

\* The array never shrinks to a single leaf, where density_bound would divide
\* by a height of 0 and insert would redistribute two leaves.
KeepsHeight == Height(list.N) > 0

\* No update has written a part of what it writes.
Settled == \A t \in Threads : pc[t] \notin {"spread", "settle"}

\* edge_exists finds exactly the stored edges.  It takes no lock, so nothing is
\* claimed while an update has put or erased its element and not yet evened out.
EdgeExistsExact ==
  Settled => \A e \in Keys : e[1] \in Vertices(list) =>
    (EdgeExists(list, e[1], e[2]) <=>
       \E v \in Values : <<e[1], e[2], v>> \in EdgesOf(list))

\* get_neighbourhood returns exactly the stored edges of its vertex.
NeighbourhoodExact ==
  Settled => \A s \in Vertices(list) :
    GetNeighbourhood(list, s) = {e[2] : e \in {x \in EdgesOf(list) : x[1] = s}}

\* A leaf lock is held only inside a shared section, so never while somebody
\* resizes the array of locks, and none survives the call that took it.
LeafLocksInside ==
  \A t \in Threads :
    /\ shared[t] \cup exclusive[t] # {} => global_lock[t] = "shared"
    /\ pc[t] \in {"idle", "call", "upgrade"} => global_lock[t] = "none"

\* A thread locks leaves from left to right, in every place that locks some: it
\* holds none to the right of the one it waits for.  So no two threads can wait
\* for each other, though insert and remove come back for more locks and may
\* have to begin again further left.
LeavesAscend ==
  \A t \in Threads :
    /\ pc[t] \in {"share", "lock"} =>
         \A i \in shared[t] \cup exclusive[t] : i < frame[t].next
    /\ pc[t] \in {"check", "plan"} => \A i \in exclusive[t] : i <= frame[t].hi

\* A write changes only slots of the leaves its thread holds exclusively.
WritesAreLocked ==
  [][\A t \in Threads : pc[t] \in Writing /\ pc'[t] # pc[t] =>
       /\ list'.N = list.N
       /\ \A p \in Slots(list) :
            list'.items[p] # list.items[p] => LeafId(list, p) \in exclusive[t]]_vars

\* An update is pending from its call to the step that writes the list, or
\* that finds that there is no edge to remove.
Pending(t) ==
  LET f == frame[t]
  IN  IF pc[t] \in {"idle", "spread", "settle", "release", "unlock"}
      THEN [kind |-> "none"]
      ELSE [kind |-> f.kind, key |-> <<f.src, f.dest>>, value |-> f.value]

\* "we need to re-start because when we acquired the locks things had changed":
\* an update whose leaf is still at the version of its search goes on.
RetryOnlyAfterChange ==
  [][\A t \in Threads : pc[t] = "check" /\ pc'[t] = "call" => ~frame[t].fresh]_vars

\* Every call returns.
CallsReturn == \A t \in Threads : pc[t] # "idle" ~> pc[t] = "idle"

G == INSTANCE Graph WITH n <- Cardinality(Vertices(list)),
                         edges <- EdgesOf(list),
                         pending <- [t \in Threads |-> Pending(t)]

ImplementsGraph == G!GraphSpec
============================================================================
