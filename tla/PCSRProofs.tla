----------------------------- MODULE PCSRProofs -----------------------------
(***************************************************************************)
(* Proofs about the locks of PCSR.tla, for any threads, any number of      *)
(* vertices, any edges and any size of the list.  First the global lock:   *)
(* the contents of the list play no part, an update locks leaves inside a  *)
(* shared section and lets go of them before it leaves the section.  Then  *)
(* the leaves: which of them a thread holds, and in which order it takes   *)
(* them.  The last part says that the leaves which an update has locked    *)
(* are enough for the slots that it writes.                                *)
(***************************************************************************)
EXTENDS PCSR, EdgeListProofs, TLAPS

\* Where a thread is inside a shared section.
Inside == {"snap", "share", "search", "load", "lock", "check", "plan",
           "write", "spread", "settle", "release"}

\* Where it may hold exclusive locks of leaves.
Locking == {"lock", "check", "plan"} \cup Writing \cup {"release"}

\* Where a thread is inside an exclusive section.
Alone == {"force", "unlock"}

\* Where a thread is outside of any section.
Outside == {"idle", "call", "upgrade"}

\* The domains of what a step updates.
Typed ==
  /\ global_lock \in [Threads -> GL!Modes]
  /\ pc \in [Threads -> PCs]
  /\ DOMAIN shared = Threads
  /\ DOMAIN exclusive = Threads

\* The mode in which a thread holds the global lock follows from where it is.
ModeFollowsPc ==
  \A t \in Threads :
    /\ pc[t] \in Inside => global_lock[t] = "shared"
    /\ pc[t] \in Alone => global_lock[t] = "exclusive"
    /\ pc[t] \in Outside => global_lock[t] = "none"

\* Leaf locks are held only where the protocol has taken some.
LeavesFollowPc ==
  \A t \in Threads :
    /\ shared[t] # {} => pc[t] \in {"share", "search"}
    /\ exclusive[t] # {} => pc[t] \in Locking

\* An exclusive holder of the global lock is the only holder.
GlobalExclusion ==
  \A t, u \in Threads :
    t # u /\ global_lock[t] = "exclusive" => global_lock[u] = "none"

LockInv == Typed /\ ModeFollowsPc /\ LeavesFollowPc /\ GlobalExclusion

\* While a thread may resize the list, and with it the array of leaf locks, no
\* thread holds a leaf lock, itself included.
ResizeAlone ==
  \A t, u \in Threads :
    global_lock[t] = "exclusive" => shared[u] = {} /\ exclusive[u] = {}

----------------------------------------------------------------------------
USE DEF Locking, Writing

\* Every thread starts outside of any section and holds nothing.
LEMMA LockInit == Init => LockInv
<1> SUFFICES ASSUME Init PROVE LockInv
  OBVIOUS
<1> USE DEF Init, GL!RWInit
<1>1. Typed
  BY DEF Typed, GL!Modes, PCs
<1>2. ModeFollowsPc
  BY DEF ModeFollowsPc, Inside, Alone, Outside
<1>3. LeavesFollowPc
  BY DEF LeavesFollowPc
<1>4. GlobalExclusion
  BY DEF GlobalExclusion
<1> QED
  BY <1>1, <1>2, <1>3, <1>4 DEF LockInv

\* The three ways out of a shared section (NEED_RETRY, NEED_GLOBAL_WRITE and
\* the return of the call), which all let go of everything, keep the invariant
\* when the thread holds no shared leaf lock.
LEMMA LeaveSection ==
  ASSUME LockInv, NEW t \in Threads, shared' = shared,
         pc[t] \in Inside \cup Alone,
         NEW to \in Outside, Goto(t, to),
         ReleaseLeaves(t), GL!Release(t),
         shared[t] = {}
  PROVE  LockInv'
<1> USE DEF LockInv, Goto, ReleaseLeaves, GL!Release
<1>1. Typed'
  BY DEF Typed, GL!Modes, PCs, Outside
<1>2. ModeFollowsPc'
  BY DEF Typed, ModeFollowsPc, Inside, Alone, Outside
<1>3. LeavesFollowPc'
  BY DEF Typed, LeavesFollowPc
<1>4. GlobalExclusion'
  BY DEF Typed, GlobalExclusion
<1> QED
  BY <1>1, <1>2, <1>3, <1>4

\* The same for a search whose range has moved: its shared leaf locks go too.
LEMMA LeaveSearch ==
  ASSUME LockInv, NEW t \in Threads, pc[t] = "search",
         shared' = [shared EXCEPT ![t] = {}], UNCHANGED exclusive,
         CallAgain(t)
  PROVE  LockInv'
<1> USE DEF LockInv, CallAgain, Goto, GL!Release
<1>1. Typed'
  BY DEF Typed, GL!Modes, PCs
<1>2. ModeFollowsPc'
  BY DEF Typed, ModeFollowsPc, Inside, Alone, Outside
<1>3. LeavesFollowPc'
  BY DEF Typed, LeavesFollowPc
<1>4. GlobalExclusion'
  BY DEF Typed, GlobalExclusion
<1> QED
  BY <1>1, <1>2, <1>3, <1>4

\* A step of t inside its section, which keeps the global lock, and after which
\* t is at a place that allows the leaf locks it holds, keeps the invariant.
LEMMA StayInSection ==
  ASSUME LockInv, NEW t \in Threads, UNCHANGED global_lock,
         pc' \in [Threads -> PCs],
         DOMAIN shared' = Threads, DOMAIN exclusive' = Threads,
         \A u \in Threads \ {t} : /\ pc'[u] = pc[u]
                                   /\ shared'[u] = shared[u]
                                   /\ exclusive'[u] = exclusive[u],
         \/ pc[t] \in Inside /\ pc'[t] \in Inside
         \/ pc[t] \in Alone /\ pc'[t] \in Alone
         \/ pc[t] \in Outside /\ pc'[t] \in Outside,
         shared'[t] # {} => pc'[t] \in {"share", "search"},
         exclusive'[t] # {} =>
           pc'[t] \in Locking
  PROVE  LockInv'
<1> USE DEF LockInv
<1>1. Typed'
  BY DEF Typed
<1>2. ModeFollowsPc'
  BY DEF Typed, ModeFollowsPc, Inside, Alone, Outside
<1>3. LeavesFollowPc'
  BY DEF Typed, LeavesFollowPc
<1>4. GlobalExclusion'
  BY DEF GlobalExclusion
<1> QED
  BY <1>1, <1>2, <1>3, <1>4

\* A thread without leaf locks that enters a section of either kind, as the
\* global lock allows, keeps the invariant.
LEMMA EnterSection ==
  ASSUME LockInv, NEW t \in Threads, UNCHANGED <<shared, exclusive>>,
         pc[t] \in Outside,
         \/ GL!AcquireShared(t) /\ pc' = [pc EXCEPT ![t] = "snap"]
         \/ GL!AcquireExclusive(t) /\ pc' = [pc EXCEPT ![t] = "force"]
  PROVE  LockInv'
<1> USE DEF LockInv, GL!AcquireShared, GL!AcquireExclusive
<1>1. Typed'
  BY DEF Typed, GL!Modes, PCs
<1>2. ModeFollowsPc'
  BY DEF Typed, ModeFollowsPc, Inside, Alone, Outside
<1>3. LeavesFollowPc'
  BY DEF Typed, LeavesFollowPc, Outside
<1>4. GlobalExclusion'
  BY DEF Typed, GlobalExclusion
<1> QED
  BY <1>1, <1>2, <1>3, <1>4

\* Every step keeps the invariant.
LEMMA LockStep == LockInv /\ [Next]_vars => LockInv'
<1> SUFFICES ASSUME LockInv, [Next]_vars PROVE LockInv'
  OBVIOUS
<1>t. Typed
  BY DEF LockInv
<1>1. CASE UNCHANGED vars
  BY <1>1 DEF vars, LockInv, Typed, ModeFollowsPc, LeavesFollowPc, GlobalExclusion
<1>2. CASE AddVertex
  BY <1>2 DEF AddVertex, LockInv, Typed, ModeFollowsPc, LeavesFollowPc,
              GlobalExclusion
<1>3. ASSUME NEW t \in Threads, Begin(t) PROVE LockInv'
  <2>1. /\ pc[t] = "idle" /\ pc' = [pc EXCEPT ![t] = "call"]
        /\ UNCHANGED <<global_lock, shared, exclusive>>
    BY <1>3 DEF Begin, BeginAdd, BeginRemove, Goto
  <2> QED
    BY <1>t, <2>1, StayInSection DEF LockInv, Typed, PCs, Outside, LeavesFollowPc
<1>4. ASSUME NEW t \in Threads, Continue(t) PROVE LockInv'
  <2>g. /\ shared[t] # {} => pc[t] \in {"share", "search"}
        /\ exclusive[t] # {} =>
             pc[t] \in Locking
    BY DEF LockInv, LeavesFollowPc
  <2>e. ASSUME Extend(t), pc[t] \in {"check", "plan"} PROVE LockInv'
    <3>1. /\ UNCHANGED <<global_lock, shared, pc>>
          /\ DOMAIN exclusive' = Threads
          /\ \A u \in Threads \ {t} : exclusive'[u] = exclusive[u]
      BY <1>t, <2>e DEF Extend, Typed
    <3> QED
      BY <1>t, <2>e, <2>g, <3>1, StayInSection DEF Typed, Inside
  <2>r. ASSUME Retry(t), pc[t] \in {"check", "plan"} PROVE LockInv'
    BY <2>r, <2>g, LeaveSection DEF Retry, CallAgain, Inside, Outside
  <2>s. ASSUME NEW info, Escalate(t, info), pc[t] \in {"check", "plan"}
        PROVE  LockInv'
    BY <2>s, <2>g, LeaveSection DEF Escalate, Inside, Outside
  <2>n. ASSUME UNCHANGED <<global_lock, shared, exclusive>>,
               NEW to \in Inside \cup Alone, Goto(t, to),
               \/ pc[t] = "load" /\ to = "lock"
               \/ pc[t] = "check" /\ to = "plan"
               \/ pc[t] = "plan" /\ to = "write"
               \/ pc[t] \in Writing /\ to \in {"spread", "settle", "release"}
               \/ pc[t] = "force" /\ to = "unlock"
        PROVE  LockInv'
    BY <1>t, <2>n, <2>g, StayInSection
       DEF Goto, Typed, PCs, Inside, Alone
  <2>1. CASE CallForced(t)
    BY <2>1, EnterSection DEF CallForced, Goto, Outside
  <2>2. CASE Call(t)
    BY <2>2, EnterSection DEF Call, Goto, Outside
  <2>3. CASE Snap(t)
    <3>1. /\ UNCHANGED <<global_lock, shared, exclusive>>
          /\ pc[t] = "snap"
          /\ \E to \in {"share", "search"} : pc' = [pc EXCEPT ![t] = to]
      BY <2>3 DEF Snap, Goto
    <3> QED
      BY <1>t, <2>g, <3>1, StayInSection DEF Typed, PCs, Inside
  <2>4. CASE ShareLeaf(t)
    <3>1. /\ UNCHANGED <<global_lock, exclusive>>
          /\ pc[t] = "share"
          /\ DOMAIN shared' = Threads
          /\ \A u \in Threads \ {t} : shared'[u] = shared[u]
          /\ \E to \in {"share", "search"} : pc' = [pc EXCEPT ![t] = to]
      BY <1>t, <2>4 DEF ShareLeaf, Goto, Typed
    <3> QED
      BY <1>t, <2>g, <3>1, StayInSection DEF Typed, PCs, Inside
  <2>5. CASE Search(t)
    <3>1. pc[t] = "search" /\ shared' = [shared EXCEPT ![t] = {}]
          /\ UNCHANGED exclusive /\ exclusive[t] = {}
      BY <2>5, <2>g DEF Search
    <3>2. CASE CallAgain(t)
      BY <1>t, <3>1, <3>2, LeaveSearch
    <3>3. ASSUME NEW to \in {"lock", "load"}, Goto(t, to), UNCHANGED global_lock
          PROVE  LockInv'
      BY <1>t, <2>g, <3>1, <3>3, StayInSection DEF Goto, Typed, PCs, Inside
    <3> QED
      BY <2>5, <3>2, <3>3 DEF Search
  <2>6. CASE LockLeaf(t)
    <3>1. /\ UNCHANGED <<global_lock, shared>>
          /\ pc[t] = "lock"
          /\ DOMAIN exclusive' = Threads
          /\ \A u \in Threads \ {t} : exclusive'[u] = exclusive[u]
          /\ \E to \in {"check", "lock"} : pc' = [pc EXCEPT ![t] = to]
      BY <1>t, <2>6 DEF LockLeaf, Goto, Typed
    <3> QED
      BY <1>t, <2>g, <3>1, StayInSection DEF Typed, PCs, Inside
  <2>7. CASE CheckInsert(t)
    BY <2>7, <2>e, <2>r, <2>s, <2>n DEF CheckInsert, Inside
  <2>8. CASE CheckRemove(t)
    <3>1. ASSUME Return(t), UNCHANGED shared, pc[t] = "check" PROVE LockInv'
      BY <3>1, <2>g, LeaveSection DEF Return, Inside, Outside
    <3> QED
      BY <2>8, <3>1, <2>e, <2>r, <2>n DEF CheckRemove, Inside
  <2>9. CASE Plan(t)
    <3>1. ASSUME NEW b, Restarted(t, b), pc[t] = "plan", ~Escalate(t, NoInfo)
          PROVE  LockInv'
      <4>1. /\ UNCHANGED <<global_lock, shared>>
            /\ exclusive' = [exclusive EXCEPT ![t] = {}]
            /\ pc' = [pc EXCEPT ![t] = "lock"]
        BY <3>1 DEF Restarted, ReleaseLeaves, Goto
      <4> QED
        BY <1>t, <2>g, <3>1, <4>1, StayInSection DEF Typed, PCs, Inside
    <3> QED
      BY <2>9, <3>1, <2>e, <2>s, <2>n DEF Plan, Inside
  <2>10. CASE Write(t) \/ SpreadLeaf(t) \/ SettleDensity(t)
    BY <2>10, <2>n DEF Write, SpreadLeaf, SettleDensity, Writing, Inside
  <2>11. CASE ReleaseLocks(t)
    BY <2>11, <2>g, LeaveSection DEF ReleaseLocks, Inside, Outside
  <2>12. CASE Upgrade(t)
    BY <2>12, EnterSection DEF Upgrade, Goto, Outside
  <2>13. CASE WriteAlone(t)
    BY <2>13, <2>n DEF WriteAlone, Alone
  <2>14. CASE Unlock(t)
    BY <2>14, <2>g, LeaveSection DEF Unlock, Return, Alone, Outside
  <2>15. CASE LoadVersion(t)
    BY <2>15, <2>n DEF LoadVersion, Inside
  <2> QED
    BY <1>4, <2>1, <2>2, <2>3, <2>4, <2>5, <2>6, <2>7, <2>8, <2>9, <2>10,
       <2>11, <2>12, <2>13, <2>14, <2>15 DEF Continue
<1> QED
  BY <1>1, <1>2, <1>3, <1>4 DEF Next

----------------------------------------------------------------------------
\* The invariant holds in every behaviour.
THEOREM LockInvCorrect == Spec => []LockInv
  BY LockInit, LockStep, PTL DEF Spec

\* A leaf lock is held only inside a shared section of the global lock
\* (release_locks precedes unlock_shared on every path of add_edge_parallel and
\* remove_edge), and a call that has returned, or waits to begin, has left it.
THEOREM LeafLocksInsideCorrect == Spec => []LeafLocksInside
<1>1. LockInv => LeafLocksInside
  BY DEF LockInv, ModeFollowsPc, LeavesFollowPc, LeafLocksInside, Inside, Outside
<1> QED
  BY <1>1, LockInvCorrect, PTL

\* double_list and half_list reallocate the array of leaf locks; when a thread
\* is in the exclusive section nobody holds one of them.
THEOREM ResizeAloneCorrect == Spec => []ResizeAlone
<1>1. LockInv => ResizeAlone
  <2> SUFFICES ASSUME LockInv, NEW t \in Threads, NEW u \in Threads,
                      global_lock[t] = "exclusive"
               PROVE  shared[u] = {} /\ exclusive[u] = {}
    BY DEF ResizeAlone
  <2>1. global_lock[u] # "shared"
    BY DEF LockInv, GlobalExclusion
  <2> QED
    BY <2>1 DEF LockInv, ModeFollowsPc, LeavesFollowPc, Inside
<1> QED
  BY <1>1, LockInvCorrect, PTL

----------------------------------------------------------------------------
(* What acquire_insert_locks and acquire_remove_locks decide.              *)

\* find_leaf: slots further right are in leaves further right.
LEMMA LeafFound ==
  ASSUME NEW L, IsList(L), NEW p \in Nat
  PROVE  /\ LeafId(L, p) \in Nat
         /\ \A q \in Nat : p <= q => LeafId(L, p) <= LeafId(L, q)
         /\ LeafId(L, p) * LogN(L.N) <= p /\ p < LeafId(L, p) * LogN(L.N) + LogN(L.N)
<1>1. LogN(L.N) \in Nat \ {0}
  BY LeafLength DEF IsList
<1> QED
  BY <1>1, Division, DivisionAscends DEF LeafId

\* The decisions: where to begin again is never right of the leaf of index.
Decisions(L, index) ==
  {Lock} \cup {Restart(b) : b \in 0 .. LeafId(L, index)}
         \cup {Global(info) : info \in Infos} \cup {Go(info) : info \in Infos}

\* What is locked for slide_right and slide_left: its restarts go to the left.
LEMMA PlanSlideFound ==
  ASSUME NEW L, IsList(L), NEW index \in Nat, NEW lo, NEW hi, NEW info \in Infos
  PROVE  PlanSlide(L, index, lo, hi, info) \in Decisions(L, index)
<1> DEFINE held == Locked(L, lo, hi)
           stopR == {p \in index + 1 .. L.N - 1 : p \notin held \/ IsNull(L.items[p])}
           stopL == {p \in 0 .. index - 1 : p \notin held \/ IsNull(L.items[p])}
<1>1. ASSUME stopL # {} PROVE LeafId(L, Greatest(stopL)) \in 0 .. LeafId(L, index)
  <2>1. Greatest(stopL) \in stopL
    <3>1. stopL \subseteq 0 .. index
      OBVIOUS
    <3> HIDE DEF stopL
    <3> QED
      BY <1>1, <3>1, GreatestFound
  <2>2. Greatest(stopL) \in Nat /\ Greatest(stopL) <= index
    BY <2>1
  <2> HIDE DEF stopL
  <2> QED
    BY <2>2, LeafFound
<1>2. NoInfo \in Infos
  BY DEF Infos
<1>3. \/ PlanSlide(L, index, lo, hi, info) \in {Lock, Go(info), Global(NoInfo)}
      \/ /\ stopL # {}
         /\ PlanSlide(L, index, lo, hi, info) = Restart(LeafId(L, Greatest(stopL)))
  BY DEF PlanSlide
<1> HIDE DEF stopL
<1> QED
  BY <1>1, <1>2, <1>3 DEF Decisions

\* acquire_insert_locks takes one of these decisions.
LEMMA PlanInsertFound ==
  ASSUME NEW L, IsList(L), NEW index \in Nat, NEW lo, NEW hi
  PROVE  PlanInsert(L, index, lo, hi) \in Decisions(L, index)
<1> DEFINE held == Locked(L, lo, hi)
           len == LogN(L.N)
           leaf == FindNode(index, len)
           base == IF Full(L, leaf, len) + 1 = len THEN FindNode(leaf, 2 * len) ELSE leaf
           H == Height(L.N)
           Known(j) == Window(StartAt(L, base, j), LenAt(L, j)) \subseteq held
           T == {j \in 0 .. H + 1 : j = H + 1 \/ ~Known(j) \/ ~DenseAt(L, base, j, 1)}
           top == Least(T)
<1>1. H \in Nat /\ len \in Nat \ {0}
  BY LeafLength DEF IsList
<1>2. base \in Nat /\ base <= index
  <2>1. leaf \in Nat /\ leaf <= index
    BY <1>1, NodeFound
  <2>2. FindNode(leaf, 2 * len) \in Nat /\ FindNode(leaf, 2 * len) <= leaf
    <3>1. 2 * len \in Nat \ {0}
      BY <1>1
    <3> HIDE DEF leaf
    <3> QED
      BY <2>1, <3>1, NodeFound
  <2> HIDE DEF leaf, len
  <2> QED
    BY <2>1, <2>2
<1>3. top \in 0 .. H + 1
  <2>1. T \subseteq Nat /\ H + 1 \in T
    BY <1>1
  <2>2. top \in T
    <3> HIDE DEF T
    <3> QED
      BY <2>1, LeastFound
  <2> QED
    BY <2>2
<1>4. /\ StartAt(L, base, top) \in Nat /\ LenAt(L, top) \in Nat
      /\ StartAt(L, base, top) <= base
  <2>1. top \in Nat
    BY <1>1, <1>3
  <2> HIDE DEF base, top
  <2> QED
    BY <1>2, <2>1, LevelFound
<1>5. LeafId(L, StartAt(L, base, top)) \in 0 .. LeafId(L, index)
  <2> HIDE DEF base, top
  <2> QED
    BY <1>2, <1>4, LeafFound
<1>6. RangeInfo(StartAt(L, base, top), LenAt(L, top)) \in Infos /\ DoubleInfo \in Infos
  <2> HIDE DEF base, top
  <2> QED
    BY <1>4 DEF Infos
<1>7. PlanInsert(L, index, lo, hi)
        \in {Global(DoubleInfo), Lock, Restart(LeafId(L, StartAt(L, base, top))),
             PlanSlide(L, index, lo, hi, RangeInfo(StartAt(L, base, top), LenAt(L, top)))}
  BY DEF PlanInsert
<1> HIDE DEF base, top
<1> QED
  BY <1>5, <1>6, <1>7, PlanSlideFound DEF Decisions

\* acquire_remove_locks takes one of these decisions.
LEMMA PlanRemoveFound ==
  ASSUME NEW L, IsList(L), NEW index \in Nat, NEW lo, NEW hi
  PROVE  PlanRemove(L, index, lo, hi) \in Decisions(L, index)
<1> DEFINE held == Locked(L, lo, hi)
           H == Height(L.N)
           Known(j) == Window(StartAt(L, index, j), LenAt(L, j)) \subseteq held
           T == {j \in 0 .. H + 1 : j = H + 1 \/ ~Known(j) \/ ~SparseAt(L, index, j, 1)}
           top == Least(T)
<1>1. H \in Nat
  BY LeafLength DEF IsList
<1>2. top \in 0 .. H + 1
  <2>1. T \subseteq Nat /\ H + 1 \in T
    BY <1>1
  <2>2. top \in T
    <3> HIDE DEF T
    <3> QED
      BY <2>1, LeastFound
  <2> QED
    BY <2>2
<1>3. StartAt(L, index, top) \in Nat /\ StartAt(L, index, top) <= index
  <2>1. top \in Nat
    BY <1>1, <1>2
  <2> HIDE DEF top
  <2> QED
    BY <2>1, LevelFound
<1>4. LeafId(L, StartAt(L, index, top)) \in 0 .. LeafId(L, index)
  <2> HIDE DEF top
  <2> QED
    BY <1>3, LeafFound
<1>5. NoInfo \in Infos
  BY DEF Infos
<1>6. PlanRemove(L, index, lo, hi)
        \in {Global(NoInfo), Lock, Go(NoInfo), Restart(LeafId(L, StartAt(L, index, top)))}
  BY DEF PlanRemove
<1> HIDE DEF top
<1> QED
  BY <1>4, <1>5, <1>6 DEF Decisions

----------------------------------------------------------------------------
(* The invariant.                                                          *)

\* The local variables of a call.
Frames ==
  [kind : {"add", "remove"}, src : Vertices(list), dest : 0 .. MaxU32 - 1,
   value : Nat \ {0}, retries : Nat, beginning : Nat, end : Nat, next : Nat,
   index : Nat, fresh : BOOLEAN, lo : Nat, hi : Nat, tries : Nat, info : Infos]

FramesTyped ==
  /\ DOMAIN frame = Threads
  /\ \A t \in Threads : pc[t] # "idle" => frame[t] \in Frames

\* Where a thread holds all the leaves from lo to hi.
Holding == {"check", "plan", "write", "spread", "settle", "release"}

\* Which leaves a thread has locked follows from where it is.
HeldBy(t) ==
  LET f == frame[t]
  IN  /\ pc[t] = "share" => \A i \in shared[t] : i \in Nat /\ i < f.next
      /\ pc[t] = "load" => f.lo <= f.hi /\ f.next = f.lo
      /\ pc[t] = "lock" => f.lo <= f.next /\ f.next <= f.hi /\ exclusive[t] = f.lo .. f.next - 1
      /\ pc[t] \in Holding => f.lo <= f.hi /\ exclusive[t] = f.lo .. f.hi

\* A leaf that one thread has locked exclusively, no other has locked.
LeafExclusion ==
  \A t, u \in Threads : t # u => exclusive[t] \cap (shared[u] \cup exclusive[u]) = {}

LeafInv ==
  /\ LockInv
  /\ IsList(list)
  /\ FramesTyped
  /\ \A t \in Threads : HeldBy(t)
  /\ LeafExclusion

\* A fresh call.
LEMMA FrameTyped ==
  ASSUME NEW kind \in {"add", "remove"}, NEW s \in Vertices(list),
         NEW d \in 0 .. MaxU32 - 1, NEW v \in Nat \ {0}, NEW retries \in Nat
  PROVE  Frame(kind, s, d, v, retries) \in Frames
BY DEF Frames, Frame, Infos

\* A step of t leaves the other threads where they are, except that release_locks
\* may tell them that the version of their leaf has changed.  It is enough to look
\* at t: what it locks must have been free.
LEMMA StepOfOne ==
  ASSUME LeafInv, LockInv', IsList(list'), Vertices(list) \subseteq Vertices(list'),
         NEW t \in Threads, DOMAIN frame' = Threads,
         \A u \in Threads \ {t} :
           /\ pc'[u] = pc[u] /\ shared'[u] = shared[u] /\ exclusive'[u] = exclusive[u]
           /\ \/ frame'[u] = frame[u]
              \/ pc[u] # "idle" /\ frame'[u] = [frame[u] EXCEPT !.fresh = FALSE],
         pc'[t] # "idle" => frame'[t] \in Frames',
         HeldBy(t)',
         \A i \in exclusive'[t] \ exclusive[t] : Free(i),
         \A i \in shared'[t] \ shared[t] : FreeShared(i)
  PROVE  LeafInv'
<1>1. ASSUME NEW u \in Threads \ {t}, pc[u] # "idle"
      PROVE  frame'[u] \in Frames' /\ \A x \in {"lo", "hi", "next"} : frame'[u][x] = frame[u][x]
  <2>1. frame[u] \in Frames
    BY <1>1 DEF LeafInv, FramesTyped
  <2>2. frame[u] \in Frames'
    BY <2>1 DEF Frames
  <2>3. [frame[u] EXCEPT !.fresh = FALSE] \in Frames'
    BY <2>2 DEF Frames
  <2>4. \A x \in {"lo", "hi", "next"} : [frame[u] EXCEPT !.fresh = FALSE][x] = frame[u][x]
    BY <2>1 DEF Frames
  <2> QED
    BY <2>2, <2>3, <2>4
<1>2. FramesTyped'
  <2> SUFFICES ASSUME NEW u \in Threads, pc'[u] # "idle" PROVE frame'[u] \in Frames'
    BY DEF FramesTyped
  <2> QED
    BY <1>1
<1>3. ASSUME NEW u \in Threads PROVE HeldBy(u)'
  <2>1. CASE u = t
    BY <2>1
  <2>2. CASE u # t
    <3>1. HeldBy(u) /\ (pc[u] = "idle" => HeldBy(u)')
      BY <2>2 DEF LeafInv, HeldBy, Holding
    <3>2. pc[u] # "idle" => /\ frame'[u].lo = frame[u].lo
                            /\ frame'[u].hi = frame[u].hi
                            /\ frame'[u].next = frame[u].next
      BY <1>1, <2>2
    <3> QED
      BY <2>2, <3>1, <3>2 DEF HeldBy
  <2> QED
    BY <2>1, <2>2
<1>4. LeafExclusion'
  <2> SUFFICES ASSUME NEW v \in Threads, NEW u \in Threads, v # u,
                      NEW i \in exclusive'[v], i \in shared'[u] \cup exclusive'[u]
               PROVE  FALSE
    BY DEF LeafExclusion
  <2>1. CASE v # t /\ u # t
    BY <2>1 DEF LeafInv, LeafExclusion
  <2>2. CASE v = t
    BY <2>2 DEF LeafInv, LeafExclusion, Free
  <2>3. CASE u = t
    BY <2>3 DEF LeafInv, LeafExclusion, Free, FreeShared
  <2> QED
    BY <2>1, <2>2, <2>3
<1> QED
  BY <1>2, <1>3, <1>4 DEF LeafInv

\* What a list says of a vertex, and where a search in it ends.
LEMMA NodesFound ==
  ASSUME NEW L, IsList(L), NEW v \in Vertices(L)
  PROVE  L.nodes[v].beginning \in Nat /\ L.nodes[v].end \in Nat
BY DEF IsList, Vertices, Ranges

\* The search of an edge ends at a slot number.
LEMMA EdgeFound ==
  ASSUME NEW L, IsList(L), NEW v \in Vertices(L), NEW dest
  PROVE  FindEdge(L, v, dest) \in Nat
<1>1. L.nodes[v].beginning + 1 \in Nat /\ L.nodes[v].end \in Nat
  BY NodesFound
<1> QED
  BY <1>1, SearchFound DEF FindEdge

\* The initial states satisfy the invariant.
LEMMA LeafInit == Init => LeafInv
<1> SUFFICES ASSUME Init PROVE LeafInv
  OBVIOUS
<1>1. LockInv
  BY LockInit
<1>2. IsList(list)
  BY InitialShape, InputsAssumption DEF Init
<1>3. /\ \A t \in Threads : pc[t] = "idle" /\ exclusive[t] = {} /\ shared[t] = {}
      /\ DOMAIN frame = Threads
  BY DEF Init
<1> QED
  BY <1>1, <1>2, <1>3 DEF LeafInv, FramesTyped, HeldBy, Holding, LeafExclusion

----------------------------------------------------------------------------
(* The steps of an update.                                                 *)

\* Nothing happens to the other threads.
Others(t) == \A u \in Threads \ {t} : /\ pc'[u] = pc[u] /\ frame'[u] = frame[u]
                                      /\ shared'[u] = shared[u] /\ exclusive'[u] = exclusive[u]

\* The lemma on one thread for the steps that leave the list alone.
LEMMA StepOnSameList ==
  ASSUME LeafInv, LockInv', UNCHANGED list, NEW t \in Threads,
         DOMAIN frame' = Threads, Others(t),
         pc'[t] # "idle" => frame'[t] \in Frames,
         HeldBy(t)',
         \A i \in exclusive'[t] \ exclusive[t] : Free(i),
         \A i \in shared'[t] \ shared[t] : FreeShared(i)
  PROVE  LeafInv'
<1>1. IsList(list') /\ Vertices(list) \subseteq Vertices(list')
  BY DEF LeafInv
<1>2. pc'[t] # "idle" => frame'[t] \in Frames'
  BY DEF Frames
<1> QED
  BY <1>1, <1>2, StepOfOne DEF Others

\* A step of t that changes its own place, its locals and its exclusive locks.
Moves(t, to, g, S) ==
  /\ pc'[t] = to /\ frame'[t] = g /\ exclusive'[t] = S
  /\ DOMAIN frame' = Threads
  /\ \A u \in Threads \ {t} :
       pc'[u] = pc[u] /\ frame'[u] = frame[u] /\ exclusive'[u] = exclusive[u]

\* The three forms in which the steps of PCSR.tla say so.
LEMMA MovesFound ==
  ASSUME LeafInv, NEW t \in Threads, NEW to, NEW g, NEW S, Goto(t, to)
  PROVE  /\ SetFrame(t, g) /\ exclusive' = [exclusive EXCEPT ![t] = S] => Moves(t, to, g, S)
         /\ UNCHANGED frame /\ UNCHANGED exclusive => Moves(t, to, frame[t], exclusive[t])
         /\ SetFrame(t, g) /\ UNCHANGED exclusive => Moves(t, to, g, exclusive[t])
<1>1. /\ DOMAIN pc = Threads /\ DOMAIN frame = Threads /\ DOMAIN exclusive = Threads
  BY DEF LeafInv, LockInv, Typed, FramesTyped
<1> QED
  BY <1>1 DEF Moves, Goto, SetFrame

\* A step of t that changes no more than that, lets go of its shared leaf locks
\* or keeps them, and ends where the leaves that it then holds are the right ones.
LEMMA LeafStay ==
  ASSUME LeafInv, LockInv', UNCHANGED list, NEW t \in Threads,
         NEW to \in PCs \ {"idle"}, NEW g \in Frames, NEW S, Moves(t, to, g, S),
         \A i \in S \ exclusive[t] : Free(i),
         UNCHANGED shared \/ shared' = [shared EXCEPT ![t] = {}],
         to = "share" => shared[t] = {},
         to = "load" => g.lo <= g.hi /\ g.next = g.lo,
         to = "lock" => g.lo <= g.next /\ g.next <= g.hi /\ S = g.lo .. g.next - 1,
         to \in Holding => g.lo <= g.hi /\ S = g.lo .. g.hi
  PROVE  LeafInv'
<1>1. DOMAIN shared = Threads
  BY DEF LeafInv, LockInv, Typed
<1>2. /\ pc'[t] = to /\ frame'[t] = g /\ exclusive'[t] = S
      /\ shared'[t] \in {shared[t], {}}
      /\ DOMAIN frame' = Threads /\ Others(t)
  BY <1>1 DEF Moves, Others
<1>3. HeldBy(t)'
  BY <1>2 DEF HeldBy, Holding
<1>4. \A i \in exclusive'[t] \ exclusive[t] : Free(i)
  BY <1>2
<1>5. \A i \in shared'[t] \ shared[t] : FreeShared(i)
  BY <1>2
<1> QED
  BY <1>2, <1>3, <1>4, <1>5, StepOnSameList

\* The same for a step that leaves no update behind.
LEMMA LeafReturn ==
  ASSUME LeafInv, LockInv', UNCHANGED <<list, shared>>, NEW t \in Threads, Return(t)
  PROVE  LeafInv'
<1>1. /\ DOMAIN pc = Threads /\ DOMAIN frame = Threads
      /\ DOMAIN shared = Threads /\ DOMAIN exclusive = Threads
  BY DEF LeafInv, LockInv, Typed, FramesTyped
<1>2. /\ pc'[t] = "idle" /\ exclusive'[t] = {} /\ shared'[t] = shared[t]
      /\ DOMAIN frame' = Threads /\ Others(t)
  BY <1>1 DEF Return, ReleaseLeaves, Goto, SetFrame, Others
<1>3. HeldBy(t)'
  BY <1>2 DEF HeldBy, Holding
<1> QED
  BY <1>2, <1>3, StepOnSameList

\* A call that waits or begins again holds no leaf and is where it may stay.
LEMMA LeafOut ==
  ASSUME LeafInv, LockInv', UNCHANGED list, NEW t \in Threads,
         NEW to \in {"call", "upgrade"}, Goto(t, to),
         NEW g \in Frames, SetFrame(t, g),
         exclusive' = [exclusive EXCEPT ![t] = {}],
         UNCHANGED shared \/ shared' = [shared EXCEPT ![t] = {}]
  PROVE  LeafInv'
<1>1. to \in PCs \ {"idle"} /\ to \notin Holding \cup {"share", "load", "lock"}
  BY DEF PCs, Holding
<1>2. \A i \in {} \ exclusive[t] : Free(i)
  OBVIOUS
<1>3. Moves(t, to, g, {})
  BY MovesFound
<1> QED
  BY <1>1, <1>2, <1>3, LeafStay

\* What the frame of a thread inside a call is, and what may become of it.
LEMMA AgainTyped ==
  ASSUME NEW f \in Frames
  PROVE  LET n == IF f.kind = "add" THEN f.retries + 1 ELSE 0
         IN  Frame(f.kind, f.src, f.dest, f.value, n) \in Frames
<1>1. /\ f.kind \in {"add", "remove"} /\ f.src \in Vertices(list)
      /\ f.dest \in 0 .. MaxU32 - 1 /\ f.value \in Nat \ {0} /\ f.retries \in Nat
  BY DEF Frames
<1>2. (IF f.kind = "add" THEN f.retries + 1 ELSE 0) \in Nat
  BY <1>1
<1> QED
  BY <1>1, <1>2, FrameTyped

\* NEED_RETRY and NEED_GLOBAL_WRITE.
LEMMA LeafRetry ==
  ASSUME LeafInv, LockInv', NEW t \in Threads, pc[t] # "idle",
         Retry(t) \/ \E info \in Infos : Escalate(t, info)
  PROVE  LeafInv'
<1>1. frame[t] \in Frames
  BY DEF LeafInv, FramesTyped
<1>2. CASE Retry(t)
  <2> DEFINE f == frame[t]
             n == IF f.kind = "add" THEN f.retries + 1 ELSE 0
             g == Frame(f.kind, f.src, f.dest, f.value, n)
  <2>1. g \in Frames
    BY <1>1, AgainTyped
  <2>2. /\ Goto(t, "call") /\ SetFrame(t, g) /\ UNCHANGED <<list, shared>>
        /\ exclusive' = [exclusive EXCEPT ![t] = {}]
    BY <1>2 DEF Retry, CallAgain, ReleaseLeaves
  <2> HIDE DEF g
  <2> QED
    BY <2>1, <2>2, LeafOut
<1>3. ASSUME NEW info \in Infos, Escalate(t, info) PROVE LeafInv'
  <2> DEFINE g == [frame[t] EXCEPT !.info = info]
  <2>1. g \in Frames
    BY <1>1 DEF Frames
  <2>2. /\ Goto(t, "upgrade") /\ SetFrame(t, g) /\ UNCHANGED <<list, shared>>
        /\ exclusive' = [exclusive EXCEPT ![t] = {}]
    BY <1>3 DEF Escalate, ReleaseLeaves
  <2> HIDE DEF g
  <2> QED
    BY <2>1, <2>2, LeafOut
<1> QED
  BY <1>2, <1>3

\* One leaf more.
LEMMA LeafExtend ==
  ASSUME LeafInv, LockInv', NEW t \in Threads, pc[t] \in {"check", "plan"}, Extend(t)
  PROVE  LeafInv'
<1> DEFINE f == frame[t]
           g == [f EXCEPT !.hi = @ + 1]
           S == f.lo .. f.hi + 1
<1>1. /\ f \in Frames /\ f.lo <= f.hi /\ exclusive[t] = f.lo .. f.hi
      /\ pc \in [Threads -> PCs] /\ shared[t] = {}
      /\ DOMAIN exclusive = Threads
  BY DEF LeafInv, FramesTyped, HeldBy, Holding, LockInv, Typed, LeavesFollowPc
<1>2. f.lo \in Nat /\ f.hi \in Nat
  BY <1>1 DEF Frames
<1>3. g \in Frames /\ g.lo = f.lo /\ g.hi = f.hi + 1
  <2>1. ASSUME NEW e \in Frames, NEW h \in Nat
        PROVE  /\ [e EXCEPT !.hi = h] \in Frames
               /\ [e EXCEPT !.hi = h].lo = e.lo /\ [e EXCEPT !.hi = h].hi = h
    BY DEF Frames
  <2>2. g = [f EXCEPT !.hi = f.hi + 1]
    BY <1>1 DEF Frames
  <2> QED
    BY <1>1, <1>2, <2>1, <2>2
<1>4. f.lo .. f.hi \cup {f.hi + 1} = S
  BY <1>1, <1>2
<1>5. exclusive' = [exclusive EXCEPT ![t] = S] /\ Free(f.hi + 1)
  BY <1>1, <1>4 DEF Extend
<1>6. \A i \in S \ exclusive[t] : Free(i)
  BY <1>1, <1>2, <1>4, <1>5
<1>7. /\ SetFrame(t, g) /\ UNCHANGED <<list, shared>>
      /\ Goto(t, pc[t])
  BY <1>1 DEF Extend, Goto
<1>10. Moves(t, pc[t], g, S)
  BY <1>5, <1>7, MovesFound
<1>8. pc[t] \in PCs \ {"idle"} /\ pc[t] \notin {"share", "load", "lock"}
  BY <1>1
<1>9. g.lo <= g.hi /\ S = g.lo .. g.hi
  BY <1>1, <1>2, <1>3
<1> HIDE DEF f, g, S
<1> QED
  BY <1>3, <1>6, <1>7, <1>8, <1>9, <1>10, LeafStay

\* A step inside the section that changes neither the leaf locks nor the list.
LEMMA LeafWait ==
  ASSUME LeafInv, LockInv', UNCHANGED <<list, shared, exclusive>>, NEW t \in Threads,
         NEW to \in PCs \ {"idle"}, NEW g \in Frames, Moves(t, to, g, exclusive[t]),
         to = "share" => shared[t] = {},
         to = "load" => g.lo <= g.hi /\ g.next = g.lo,
         to = "lock" => g.lo <= g.next /\ g.next <= g.hi /\ exclusive[t] = g.lo .. g.next - 1,
         to \in Holding => g.lo <= g.hi /\ exclusive[t] = g.lo .. g.hi
  PROVE  LeafInv'
<1>1. \A i \in exclusive[t] \ exclusive[t] : Free(i)
  OBVIOUS
<1> QED
  BY <1>1, LeafStay

\* A new call.
LEMMA LeafBegin ==
  ASSUME LeafInv, LockInv', NEW t \in Threads, Begin(t)
  PROVE  LeafInv'
<1>1. ASSUME NEW e \in Nat \X (0 .. MaxU32 - 1), NEW kind \in {"add", "remove"},
             NEW v \in Nat \ {0}, e[1] \in Vertices(list),
             SetFrame(t, Frame(kind, e[1], e[2], v, 0)), Goto(t, "call"),
             UNCHANGED <<list, global_lock, shared, exclusive>>
      PROVE  LeafInv'
  <2>1. Frame(kind, e[1], e[2], v, 0) \in Frames
    BY <1>1, FrameTyped
  <2>2. "call" \in PCs \ {"idle"} /\ "call" \notin Holding \cup {"share", "load", "lock"}
    BY DEF PCs, Holding
  <2>3. Moves(t, "call", Frame(kind, e[1], e[2], v, 0), exclusive[t])
    BY <1>1, MovesFound
  <2> QED
    BY <1>1, <2>1, <2>2, <2>3, LeafWait
<1>2. /\ Adds[t] \subseteq Nat \X (0 .. MaxU32 - 1) /\ Removes[t] \subseteq Nat \X (0 .. MaxU32 - 1)
      /\ \A v \in Values : v \in Nat \ {0}
  BY InputsAssumption, MaxU32Assumption
<1>3. ASSUME NEW e \in Adds[t], NEW v \in Values, e[1] \in Vertices(list),
             BeginAdd(t, e[1], e[2], v)
      PROVE  LeafInv'
  <2>1. /\ SetFrame(t, Frame("add", e[1], e[2], v, 0)) /\ Goto(t, "call")
        /\ UNCHANGED <<list, global_lock, shared, exclusive>>
    BY <1>3 DEF BeginAdd
  <2> QED
    BY <1>1, <1>2, <1>3, <2>1
<1>4. ASSUME NEW e \in Removes[t], e[1] \in Vertices(list), BeginRemove(t, e[1], e[2])
      PROVE  LeafInv'
  <2>1. /\ SetFrame(t, Frame("remove", e[1], e[2], 1, 0)) /\ Goto(t, "call")
        /\ UNCHANGED <<list, global_lock, shared, exclusive>>
    BY <1>4 DEF BeginRemove
  <2>2. 1 \in Nat \ {0}
    OBVIOUS
  <2> QED
    BY <1>1, <1>2, <1>4, <2>1, <2>2
<1> QED
  BY <1>3, <1>4 DEF Begin

\* The way from the call to the search.
LEMMA LeafEnter ==
  ASSUME LeafInv, LockInv', NEW t \in Threads,
         CallForced(t) \/ Call(t) \/ Snap(t) \/ Upgrade(t)
  PROVE  LeafInv'
<1> DEFINE f == frame[t]
<1>1. f \in Frames
  BY DEF LeafInv, FramesTyped, CallForced, Call, Snap, Upgrade
<1>2. /\ f.src \in Vertices(list) /\ IsList(list)
      /\ list.nodes[f.src].beginning \in Nat /\ list.nodes[f.src].end \in Nat
  BY <1>1, NodesFound DEF LeafInv, Frames
<1>3. /\ "force" \in PCs \ {"idle"} /\ "force" \notin Holding \cup {"share", "load", "lock"}
      /\ "snap" \in PCs \ {"idle"} /\ "snap" \notin Holding \cup {"share", "load", "lock"}
      /\ "search" \in PCs \ {"idle"} /\ "search" \notin Holding \cup {"share", "load", "lock"}
      /\ "share" \in PCs \ {"idle"} /\ "share" \notin Holding \cup {"load", "lock"}
  BY DEF PCs, Holding
<1>4. CASE CallForced(t) \/ Upgrade(t)
  <2>1. UNCHANGED <<list, shared, exclusive, frame>> /\ Goto(t, "force")
    BY <1>4 DEF CallForced, Upgrade
  <2>2. Moves(t, "force", f, exclusive[t])
    BY <2>1, MovesFound
  <2> HIDE DEF f
  <2> QED
    BY <1>1, <1>3, <2>1, <2>2, LeafWait
<1>5. CASE Call(t)
  <2> DEFINE g == [f EXCEPT !.beginning = list.nodes[f.src].beginning]
  <2>1. g \in Frames
    BY <1>1, <1>2 DEF Frames
  <2>2. UNCHANGED <<list, shared, exclusive>> /\ Goto(t, "snap") /\ SetFrame(t, g)
    BY <1>5 DEF Call
  <2> HIDE DEF g
  <2>3. Moves(t, "snap", g, exclusive[t])
    BY <2>2, MovesFound
  <2> QED
    BY <1>3, <2>1, <2>2, <2>3, LeafWait
<1>6. CASE Snap(t)
  <2> DEFINE h == [f EXCEPT !.end = list.nodes[f.src].end]
             g == [h EXCEPT !.next = FirstNode(h)]
  <2>1. h \in Frames
    BY <1>1, <1>2 DEF Frames
  <2>2. FirstNode(h) \in Nat
    <3>1. h.beginning + 1 \in Nat
      BY <2>1 DEF Frames
    <3> HIDE DEF h
    <3> QED
      BY <1>2, <3>1, LeafFound DEF FirstNode
  <2>3. g \in Frames
    <3> HIDE DEF h
    <3> QED
      BY <2>1, <2>2 DEF Frames
  <2>4. shared[t] = {}
    BY <1>6 DEF LeafInv, LockInv, LeavesFollowPc, Snap
  <2>5. /\ UNCHANGED <<list, shared, exclusive>> /\ SetFrame(t, g)
        /\ Goto(t, "share") \/ Goto(t, "search")
    BY <1>6 DEF Snap
  <2> HIDE DEF g
  <2>6. Moves(t, "share", g, exclusive[t]) \/ Moves(t, "search", g, exclusive[t])
    BY <2>5, MovesFound
  <2> QED
    BY <1>3, <2>3, <2>4, <2>5, <2>6, LeafWait
<1> QED
  BY <1>4, <1>5, <1>6

\* A shared leaf lock of the search.
LEMMA LeafShare ==
  ASSUME LeafInv, LockInv', NEW t \in Threads, ShareLeaf(t)
  PROVE  LeafInv'
<1> DEFINE f == frame[t]
           g == [f EXCEPT !.next = @ + 1]
<1>1. /\ f \in Frames /\ pc[t] = "share" /\ HeldBy(t)
      /\ DOMAIN pc = Threads /\ DOMAIN frame = Threads
      /\ DOMAIN shared = Threads /\ DOMAIN exclusive = Threads
  BY DEF LeafInv, FramesTyped, LockInv, Typed, ShareLeaf
<1>2. f.next \in Nat /\ \A i \in shared[t] : i \in Nat /\ i < f.next
  BY <1>1 DEF Frames, HeldBy
<1>3. g \in Frames /\ g.next = f.next + 1
  <2>1. ASSUME NEW e \in Frames, NEW h \in Nat
        PROVE  [e EXCEPT !.next = h] \in Frames /\ [e EXCEPT !.next = h].next = h
    BY DEF Frames
  <2>2. g = [f EXCEPT !.next = f.next + 1]
    BY <1>1 DEF Frames
  <2> QED
    BY <1>1, <1>2, <2>1, <2>2
<1>4. /\ UNCHANGED <<list, exclusive>> /\ SetFrame(t, g)
      /\ FreeShared(f.next) /\ shared' = [shared EXCEPT ![t] = @ \cup {f.next}]
      /\ Goto(t, "search") \/ Goto(t, "share")
  BY DEF ShareLeaf
<1> HIDE DEF g
<1>5. /\ pc'[t] \in {"search", "share"} /\ frame'[t] = g
      /\ shared'[t] = shared[t] \cup {f.next} /\ exclusive'[t] = exclusive[t]
      /\ DOMAIN frame' = Threads /\ Others(t)
  BY <1>1, <1>4 DEF Goto, SetFrame, Others
<1>6. HeldBy(t)'
  <2>1. \A i \in shared[t] \cup {f.next} : i \in Nat /\ i < f.next + 1
    <3> SUFFICES ASSUME NEW i \in shared[t] PROVE i \in Nat /\ i < f.next + 1
      BY <1>2
    <3> QED
      BY <1>2
  <2> QED
    BY <1>3, <1>5, <2>1 DEF HeldBy, Holding
<1> QED
  BY <1>3, <1>4, <1>5, <1>6, StepOnSameList

\* The search gives the leaves that are to be locked.
LEMMA LeafSearch ==
  ASSUME LeafInv, LockInv', NEW t \in Threads, Search(t)
  PROVE  LeafInv'
<1> DEFINE f == frame[t]
<1>0. pc[t] = "search"
  BY DEF Search
<1>1. f \in Frames /\ IsList(list) /\ exclusive[t] = {}
  BY <1>0 DEF LeafInv, FramesTyped, LockInv, LeavesFollowPc, Locking, Writing
<1>2. \A i \in Found(t) : i \in Nat
  <2>1. f.beginning + 1 \in Nat /\ f.end \in Nat
    BY <1>1 DEF Frames
  <2>2. BinarySearch(list, f.dest, f.beginning + 1, f.end) \in Nat
    BY <2>1, SearchFound
  <2>3. Found(t) \subseteq {BinarySearch(list, f.dest, f.beginning + 1, f.end)}
                            \cup f.beginning + 1 .. f.end
    BY DEF Found
  <2> QED
    BY <2>1, <2>2, <2>3
<1>3. /\ "lock" \in PCs \ {"idle"} /\ "load" \in PCs \ {"idle"}
      /\ "lock" \notin Holding /\ "load" \notin Holding
  BY DEF PCs, Holding
<1>4. ASSUME CallAgain(t), UNCHANGED <<list, exclusive>>, shared' = [shared EXCEPT ![t] = {}]
      PROVE  LeafInv'
  <2> DEFINE n == IF f.kind = "add" THEN f.retries + 1 ELSE 0
             g == Frame(f.kind, f.src, f.dest, f.value, n)
  <2>1. g \in Frames
    BY <1>1, AgainTyped
  <2>2. Goto(t, "call") /\ SetFrame(t, g)
    BY <1>4 DEF CallAgain
  <2> HIDE DEF g
  <2>3. Moves(t, "call", g, {})
    BY <1>1, <1>4, <2>2, MovesFound
  <2>4. "call" \in PCs \ {"idle"} /\ "call" \notin Holding \cup {"share", "load", "lock"}
    BY DEF PCs, Holding
  <2>5. \A i \in {} \ exclusive[t] : Free(i)
    OBVIOUS
  <2> QED
    BY <1>4, <2>1, <2>3, <2>4, <2>5, LeafStay
<1>5. ASSUME NEW i \in Nat, NEW lo \in Nat, NEW node \in Nat, lo <= node,
             SetFrame(t, [f EXCEPT !.index = i, !.lo = lo, !.hi = node, !.next = lo]),
             Goto(t, "lock") \/ Goto(t, "load"),
             UNCHANGED <<list, exclusive>>, shared' = [shared EXCEPT ![t] = {}]
      PROVE  LeafInv'
  <2> DEFINE g == [f EXCEPT !.index = i, !.lo = lo, !.hi = node, !.next = lo]
  <2>1. g \in Frames /\ g.lo = lo /\ g.hi = node /\ g.next = lo
    BY <1>1 DEF Frames
  <2> HIDE DEF g
  <2>2. Moves(t, "lock", g, {}) \/ Moves(t, "load", g, {})
    BY <1>1, <1>5, MovesFound DEF g
  <2>3. g.lo .. g.next - 1 = {}
    BY <2>1
  <2>4. \A k \in {} \ exclusive[t] : Free(k)
    OBVIOUS
  <2>5. UNCHANGED list /\ shared' = [shared EXCEPT ![t] = {}]
    BY <1>5
  <2>8. g.lo <= g.next /\ g.next <= g.hi /\ {} = g.lo .. g.next - 1
        /\ g.lo <= g.hi /\ g.next = g.lo
    BY <1>5, <2>1, <2>3
  <2>6. CASE Moves(t, "lock", g, {})
    BY <1>3, <2>1, <2>4, <2>5, <2>6, <2>8, LeafStay
  <2>7. CASE Moves(t, "load", g, {})
    BY <1>3, <2>1, <2>4, <2>5, <2>7, <2>8, LeafStay
  <2> QED
    BY <2>2, <2>6, <2>7
<1>6. ASSUME NEW i \in Nat
      PROVE  LET node == LeafId(list, i)
                 lo == IF f.kind = "add" /\ ~lock_bsearch /\ node > 0
                       THEN node - 1 ELSE node
             IN  node \in Nat /\ lo \in Nat /\ lo <= node
  <2>1. LeafId(list, i) \in Nat
    BY <1>1, LeafFound
  <2> QED
    BY <2>1
<1>7. shared' = [shared EXCEPT ![t] = {}]
  BY DEF Search
<1>8. ASSUME NEW i \in Nat, NEW node, NEW lo, node = LeafId(list, i),
             lo = IF f.kind = "add" /\ ~lock_bsearch /\ node > 0 THEN node - 1 ELSE node,
             SetFrame(t, [f EXCEPT !.index = i, !.lo = lo, !.hi = node, !.next = lo]),
             Goto(t, "lock") \/ Goto(t, "load"), UNCHANGED <<list, exclusive>>
      PROVE  LeafInv'
  <2>1. node \in Nat /\ lo \in Nat /\ lo <= node
    BY <1>6, <1>8
  <2>2. /\ SetFrame(t, [f EXCEPT !.index = i, !.lo = lo, !.hi = node, !.next = lo])
        /\ Goto(t, "lock") \/ Goto(t, "load")
        /\ UNCHANGED <<list, exclusive>>
    BY <1>8
  <2> HIDE DEF f
  <2> QED
    BY <1>5, <1>7, <2>1, <2>2
<1>9. PICK i \in Found(t) :
        LET node == LeafId(list, i)
            lo == IF f.kind = "add" /\ ~lock_bsearch /\ node > 0
                  THEN node - 1 ELSE node
        IN  \/ CallAgain(t) /\ UNCHANGED <<list, exclusive>>
            \/ /\ SetFrame(t, [f EXCEPT !.index = i, !.lo = lo, !.hi = node, !.next = lo])
               /\ Goto(t, "lock") \/ Goto(t, "load")
               /\ UNCHANGED <<list, exclusive>>
  BY DEF Search
<1>10. i \in Nat
  BY <1>2
<1>11. CASE CallAgain(t) /\ UNCHANGED <<list, exclusive>>
  BY <1>4, <1>7, <1>11
<1> HIDE DEF f
<1> QED
  BY <1>8, <1>9, <1>10, <1>11

\* An exclusive leaf lock of the first ones.
LEMMA LeafLock ==
  ASSUME LeafInv, LockInv', NEW t \in Threads, LoadVersion(t) \/ LockLeaf(t)
  PROVE  LeafInv'
<1> DEFINE f == frame[t]
<1>0. pc[t] \in {"load", "lock"}
  BY DEF LoadVersion, LockLeaf
<1>1. /\ f \in Frames /\ HeldBy(t) /\ DOMAIN exclusive = Threads
      /\ pc[t] = "load" => exclusive[t] = {}
  BY <1>0 DEF LeafInv, FramesTyped, LockInv, Typed, LeavesFollowPc, Locking, Writing
<1>2. f.lo \in Nat /\ f.hi \in Nat /\ f.next \in Nat
  BY <1>1 DEF Frames
<1>3. /\ "lock" \in PCs \ {"idle"} /\ "lock" \notin Holding
      /\ "check" \in PCs \ {"idle", "share", "load", "lock"}
  BY DEF PCs, Holding
<1>4. CASE LoadVersion(t)
  <2>1. f.lo <= f.hi /\ f.next = f.lo /\ exclusive[t] = {}
    BY <1>1, <1>4 DEF HeldBy, LoadVersion
  <2>2. exclusive[t] = f.lo .. f.next - 1 /\ f.lo <= f.next /\ f.next <= f.hi
    BY <1>2, <2>1
  <2>3. UNCHANGED <<list, shared, exclusive, frame>> /\ Goto(t, "lock")
    BY <1>4 DEF LoadVersion
  <2>4. Moves(t, "lock", f, exclusive[t])
    BY <2>3, MovesFound
  <2> HIDE DEF f
  <2> QED
    BY <1>1, <1>3, <2>2, <2>3, <2>4, LeafWait
<1>5. CASE LockLeaf(t)
  <2> DEFINE g == [f EXCEPT !.next = @ + 1]
             S == f.lo .. f.next
  <2>1. f.lo <= f.next /\ f.next <= f.hi /\ exclusive[t] = f.lo .. f.next - 1
    BY <1>1, <1>5 DEF HeldBy, LockLeaf
  <2>2. g \in Frames /\ g.next = f.next + 1 /\ g.lo = f.lo /\ g.hi = f.hi
    <3>1. ASSUME NEW e \in Frames, NEW h \in Nat
          PROVE  /\ [e EXCEPT !.next = h] \in Frames
                 /\ [e EXCEPT !.next = h].next = h
                 /\ [e EXCEPT !.next = h].lo = e.lo /\ [e EXCEPT !.next = h].hi = e.hi
      BY DEF Frames
    <3>2. g = [f EXCEPT !.next = f.next + 1] /\ f.next + 1 \in Nat
      BY <1>1, <1>2 DEF Frames
    <3> QED
      BY <1>1, <3>1, <3>2
  <2>3. (f.lo .. f.next - 1) \cup {f.next} = S
    BY <1>2, <2>1
  <2>4. /\ UNCHANGED <<list, shared>> /\ SetFrame(t, g)
        /\ exclusive' = [exclusive EXCEPT ![t] = S] /\ Free(f.next)
    BY <1>5, <2>1, <2>3 DEF LockLeaf
  <2>5. \A i \in S \ exclusive[t] : Free(i)
    BY <1>2, <2>1, <2>3, <2>4
  <2>6. \/ Goto(t, "check") /\ f.next = f.hi
        \/ Goto(t, "lock") /\ f.next # f.hi
    BY <1>5 DEF LockLeaf
  <2> HIDE DEF f, g
  <2>7. CASE Goto(t, "check") /\ f.next = f.hi
    <3>1. Moves(t, "check", g, S)
      BY <2>4, <2>7, MovesFound
    <3>2. g.lo <= g.hi /\ S = g.lo .. g.hi
      BY <2>1, <2>2, <2>7
    <3> QED
      BY <1>3, <2>2, <2>4, <2>5, <3>1, <3>2, LeafStay
  <2>8. CASE Goto(t, "lock") /\ f.next # f.hi
    <3>1. Moves(t, "lock", g, S)
      BY <2>4, <2>8, MovesFound
    <3>2. g.lo <= g.next /\ g.next <= g.hi /\ S = g.lo .. g.next - 1
      BY <1>2, <2>1, <2>2, <2>8
    <3> QED
      BY <1>3, <2>2, <2>4, <2>5, <3>1, <3>2, LeafStay
  <2> QED
    BY <2>6, <2>7, <2>8
<1> QED
  BY <1>4, <1>5

\* The checks pass, or the locks go, or there is one more.
LEMMA LeafCheck ==
  ASSUME LeafInv, LockInv', NEW t \in Threads, CheckInsert(t) \/ CheckRemove(t)
  PROVE  LeafInv'
<1>1. /\ pc[t] = "check" /\ frame[t] \in Frames
      /\ frame[t].lo <= frame[t].hi /\ exclusive[t] = frame[t].lo .. frame[t].hi
  BY DEF LeafInv, FramesTyped, HeldBy, Holding, CheckInsert, CheckRemove
<1>2. ASSUME Goto(t, "plan"), UNCHANGED <<list, global_lock, shared, exclusive, frame>>
      PROVE  LeafInv'
  <2>1. Moves(t, "plan", frame[t], exclusive[t])
    BY <1>2, MovesFound
  <2>2. "plan" \in PCs \ {"idle", "share", "load", "lock"}
    BY DEF PCs
  <2> QED
    BY <1>1, <1>2, <2>1, <2>2, LeafWait
<1>3. CASE Extend(t)
  BY <1>1, <1>3, LeafExtend
<1>4. CASE Retry(t) \/ Escalate(t, NoInfo)
  <2>1. NoInfo \in Infos
    BY DEF Infos
  <2> QED
    BY <1>1, <1>4, <2>1, LeafRetry
<1>5. CASE Return(t) /\ UNCHANGED <<list, shared>>
  BY <1>5, LeafReturn
<1>6. CASE CheckInsert(t)
  BY <1>2, <1>3, <1>4, <1>6 DEF CheckInsert
<1>7. CASE CheckRemove(t)
  BY <1>2, <1>3, <1>4, <1>5, <1>7 DEF CheckRemove
<1> QED
  BY <1>6, <1>7

\* The decision of acquire_insert_locks and acquire_remove_locks is carried out.
LEMMA LeafPlan ==
  ASSUME LeafInv, LockInv', NEW t \in Threads, Plan(t)
  PROVE  LeafInv'
<1> DEFINE f == frame[t]
           d == Decision(t)
<1>1. /\ pc[t] = "plan" /\ f \in Frames /\ IsList(list)
      /\ f.lo <= f.hi /\ exclusive[t] = f.lo .. f.hi
  BY DEF LeafInv, FramesTyped, HeldBy, Holding, Plan
<1>2. f.index \in Nat
  BY <1>1 DEF Frames
<1>3. d \in Decisions(list, f.index)
  BY <1>1, <1>2, PlanInsertFound, PlanRemoveFound DEF Decision
<1>4. CASE Extend(t)
  BY <1>1, <1>4, LeafExtend
<1>5. ASSUME NEW info \in Infos, Escalate(t, info)
      PROVE  LeafInv'
  BY <1>1, <1>5, LeafRetry
<1>6. NoInfo \in Infos
  BY DEF Infos
<1>7. ASSUME NEW b \in 0 .. LeafId(list, f.index), Restarted(t, b)
      PROVE  LeafInv'
  <2> DEFINE tries == IF f.kind = "add" THEN f.tries + 1 ELSE 0
             g == [f EXCEPT !.tries = tries, !.lo = b, !.next = b,
                            !.hi = LeafId(list, f.index)]
  <2>1. CASE Escalate(t, NoInfo)
    BY <1>5, <1>6, <2>1
  <2>2. CASE ReleaseLeaves(t) /\ SetFrame(t, g) /\ Goto(t, "lock")
             /\ UNCHANGED <<list, global_lock, shared>>
    <3>1. tries \in Nat
      BY <1>1 DEF Frames
    <3>2. LeafId(list, f.index) \in Nat
      BY <1>1, <1>2, LeafFound
    <3>3. g \in Frames /\ g.lo = b /\ g.next = b /\ g.hi = LeafId(list, f.index)
      <4>2. b \in Nat
        BY <1>7, <3>2
      <4>3. PICK k \in Nat : k = tries
        BY <3>1
      <4>4. PICK h \in Nat : h = LeafId(list, f.index)
        BY <3>2
      <4>5. g = [f EXCEPT !.tries = k, !.lo = b, !.next = b, !.hi = h]
        BY <4>3, <4>4
      <4> HIDE DEF f, tries, g
      <4>6. g \in Frames /\ g.lo = b /\ g.next = b /\ g.hi = h
        BY <1>1, <4>2, <4>5 DEF Frames
      <4> QED
        BY <4>4, <4>6
    <3> HIDE DEF g
    <3>4. Moves(t, "lock", g, {})
      BY <2>2, MovesFound DEF ReleaseLeaves
    <3>5. g.lo <= g.next /\ g.next <= g.hi /\ {} = g.lo .. g.next - 1
      BY <1>7, <3>2, <3>3
    <3>6. "lock" \in PCs \ {"idle"} /\ "lock" \notin Holding
      BY DEF PCs, Holding
    <3>7. \A k \in {} \ exclusive[t] : Free(k)
      OBVIOUS
    <3>8. UNCHANGED list /\ UNCHANGED shared
      BY <2>2
    <3> QED
      BY <3>3, <3>4, <3>5, <3>6, <3>7, <3>8, LeafStay
  <2> QED
    BY <1>7, <2>1, <2>2 DEF Restarted
<1>8. ASSUME NEW info \in Infos, SetFrame(t, [f EXCEPT !.info = info]), Goto(t, "write"),
             UNCHANGED <<list, global_lock, shared, exclusive>>
      PROVE  LeafInv'
  <2> DEFINE g == [f EXCEPT !.info = info]
  <2>1. g \in Frames /\ g.lo = f.lo /\ g.hi = f.hi
    BY <1>1 DEF Frames
  <2> HIDE DEF g
  <2>2. Moves(t, "write", g, exclusive[t])
    BY <1>8, MovesFound DEF g
  <2>3. "write" \in PCs \ {"idle", "share", "load", "lock"}
    BY DEF PCs
  <2>4. g.lo <= g.hi /\ exclusive[t] = g.lo .. g.hi
    BY <1>1, <2>1
  <2>5. UNCHANGED <<list, shared, exclusive>>
    BY <1>8
  <2> QED
    BY <2>1, <2>2, <2>3, <2>4, <2>5, LeafWait
<1>9. \/ d = Lock
      \/ \E b \in 0 .. LeafId(list, f.index) : d = Restart(b)
      \/ \E info \in Infos : d = Global(info)
      \/ \E info \in Infos : d = Go(info)
  BY <1>3 DEF Decisions
<1>10. \/ d.do = "lock" /\ Extend(t)
       \/ d.do = "restart" /\ Restarted(t, d.from)
       \/ d.do = "global" /\ Escalate(t, d.info)
       \/ /\ d.do = "go"
          /\ SetFrame(t, [f EXCEPT !.info = d.info])
          /\ Goto(t, "write")
          /\ UNCHANGED <<list, global_lock, shared, exclusive>>
  BY DEF Plan
<1> HIDE DEF d, f
<1>11. CASE d = Lock
  <2>1. d.do = "lock"
    BY <1>11 DEF Lock
  <2> QED
    BY <1>4, <1>10, <2>1
<1>12. ASSUME NEW b \in 0 .. LeafId(list, f.index), d = Restart(b) PROVE LeafInv'
  <2>1. d.do = "restart" /\ d.from = b
    BY <1>12 DEF Restart
  <2> QED
    BY <1>7, <1>10, <2>1
<1>13. ASSUME NEW info \in Infos, d = Global(info) PROVE LeafInv'
  <2>1. d.do = "global" /\ d.info = info
    BY <1>13 DEF Global
  <2> QED
    BY <1>5, <1>10, <2>1
<1>14. ASSUME NEW info \in Infos, d = Go(info) PROVE LeafInv'
  <2>1. d.do = "go" /\ d.info = info
    BY <1>14 DEF Go
  <2> QED
    BY <1>8, <1>10, <2>1
<1> QED
  BY <1>9, <1>11, <1>12, <1>13, <1>14

\* A step that changes the list, inside the leaf locks or alone, and the place of
\* its thread.
LEMMA LeafChange ==
  ASSUME LeafInv, LockInv', NEW t \in Threads, pc[t] # "idle",
         IsList(list'), Vertices(list) \subseteq Vertices(list'),
         NEW to \in {"spread", "settle", "release", "unlock"}, Goto(t, to),
         to \in Holding => pc[t] \in Holding,
         UNCHANGED <<shared, exclusive, frame>>
  PROVE  LeafInv'
<1>1. /\ DOMAIN pc = Threads /\ DOMAIN frame = Threads
      /\ frame[t] \in Frames /\ HeldBy(t)
  BY DEF LeafInv, LockInv, Typed, FramesTyped
<1>2. pc'[t] = to /\ \A u \in Threads \ {t} : pc'[u] = pc[u]
  BY <1>1 DEF Goto
<1>3. frame'[t] \in Frames'
  <2>1. frame[t].src \in Vertices(list')
    BY <1>1 DEF Frames
  <2> QED
    BY <1>1, <2>1 DEF Frames
<1>4. HeldBy(t)'
  BY <1>1, <1>2 DEF HeldBy, Holding
<1>5. /\ DOMAIN frame' = Threads
      /\ \A u \in Threads \ {t} :
           /\ pc'[u] = pc[u] /\ shared'[u] = shared[u] /\ exclusive'[u] = exclusive[u]
           /\ \/ frame'[u] = frame[u]
              \/ pc[u] # "idle" /\ frame'[u] = [frame[u] EXCEPT !.fresh = FALSE]
  BY <1>1, <1>2
<1>6. /\ \A i \in exclusive'[t] \ exclusive[t] : Free(i)
      /\ \A i \in shared'[t] \ shared[t] : FreeShared(i)
  OBVIOUS
<1> QED
  BY <1>3, <1>4, <1>5, <1>6, StepOfOne

\* The three writes of an update inside the leaf locks.
LEMMA LeafWrite ==
  ASSUME LeafInv, LockInv', NEW t \in Threads,
         Write(t) \/ SpreadLeaf(t) \/ SettleDensity(t)
  PROVE  LeafInv'
<1> DEFINE f == frame[t]
<1>1. /\ pc[t] \in Writing /\ f \in Frames /\ IsList(list)
      /\ f.index \in Nat /\ f.info \in Infos /\ f.kind \in {"add", "remove"}
  <2>1. pc[t] \in Writing
    BY DEF Writing, Write, SpreadLeaf, SettleDensity
  <2>2. f \in Frames /\ IsList(list)
    BY <2>1 DEF LeafInv, FramesTyped, Writing
  <2> QED
    BY <2>1, <2>2 DEF Frames
<1>2. pc[t] # "idle" /\ pc[t] \in Holding
  BY <1>1 DEF Writing, Holding
<1>3. LogN(list.N) \in Nat \ {0} /\ FindLeaf(list, f.index) \in Nat
  <2>1. LogN(list.N) \in Nat \ {0}
    BY <1>1, LeafLength DEF IsList
  <2> QED
    BY <1>1, <2>1, NodeFound DEF FindLeaf
<1>4. IsList(list') /\ Vertices(list) \subseteq Vertices(list')
  <2>1. ASSUME NEW M, Grown(list, M) PROVE IsList(M) /\ Vertices(M) = Vertices(list)
    BY <2>1 DEF Grown
  <2>2. ASSUME NEW M, Reshaped(list, M, list.N) PROVE IsList(M) /\ Vertices(M) = Vertices(list)
    BY <1>1, <2>1, <2>2, ReshapedGrown
  <2>3. CASE Write(t)
    <3>1. /\ Grown(list, Put(list, f.index, Element(f)))
          /\ Reshaped(list, Erase(list, f.index), list.N)
          /\ Reshaped(list, [list EXCEPT !.items[f.index].value = f.value], list.N)
      <4>1. Grown(list, Put(list, f.index, Element(f)))
        BY <1>1, PutShape
      <4>2. Reshaped(list, Erase(list, f.index), list.N)
        BY <1>1, WriteShape DEF Erase
      <4>3. Reshaped(list, [list EXCEPT !.items[f.index].value = f.value], list.N)
        BY <1>1, WriteShape
      <4> QED
        BY <4>1, <4>2, <4>3
    <3>2. list' \in {[list EXCEPT !.items[f.index].value = f.value],
                     Put(list, f.index, Element(f)), Erase(list, f.index)}
      BY <1>1, <2>3 DEF Write
    <3> QED
      BY <2>1, <2>2, <3>1, <3>2
  <2>4. CASE SpreadLeaf(t)
    <3>1. /\ Reshaped(list, EvenOut(list, f.index, LogN(list.N)), list.N)
          /\ Reshaped(list, Redistribute(list, FindLeaf(list, f.index), LogN(list.N)), list.N)
      BY <1>1, <1>3, EvenOutShape, RedistributeShape
    <3>2. list' \in {EvenOut(list, f.index, LogN(list.N)),
                     Redistribute(list, FindLeaf(list, f.index), LogN(list.N))}
      BY <2>4 DEF SpreadLeaf
    <3> QED
      BY <2>2, <3>1, <3>2
  <2>5. CASE SettleDensity(t)
    <3>1. /\ Grown(list, Settle(list, FindLeaf(list, f.index), f.info))
          /\ Reshaped(list, SettleRemoval(list, FindLeaf(list, f.index)),
                      SettleRemoval(list, FindLeaf(list, f.index)).N)
      BY <1>1, <1>3, SettleShape, SettleRemovalShape
    <3>2. list' \in {Settle(list, FindLeaf(list, f.index), f.info),
                     SettleRemoval(list, FindLeaf(list, f.index))}
      BY <2>5 DEF SettleDensity
    <3>3. ASSUME NEW M, NEW n, Reshaped(list, M, n)
          PROVE  IsList(M) /\ Vertices(M) = Vertices(list)
      BY <3>3 DEF Reshaped
    <3> QED
      BY <2>1, <3>1, <3>2, <3>3
  <2> QED
    BY <2>3, <2>4, <2>5
<1>5. PICK to \in {"spread", "settle", "release"} : Goto(t, to)
  BY DEF Write, SpreadLeaf, SettleDensity
<1>6. UNCHANGED <<shared, exclusive, frame>>
  BY DEF Write, SpreadLeaf, SettleDensity
<1> QED
  BY <1>2, <1>4, <1>5, <1>6, LeafChange

\* release_locks tells the threads that search a leaf of t that it has changed.
LEMMA LeafRelease ==
  ASSUME LeafInv, LockInv', NEW t \in Threads, ReleaseLocks(t)
  PROVE  LeafInv'
<1>1. /\ DOMAIN pc = Threads /\ DOMAIN exclusive = Threads /\ DOMAIN frame = Threads
      /\ IsList(list)
  BY DEF LeafInv, LockInv, Typed, FramesTyped
<1>2. /\ pc' = [pc EXCEPT ![t] = "idle"] /\ exclusive' = [exclusive EXCEPT ![t] = {}]
      /\ UNCHANGED <<list, shared>>
  BY DEF ReleaseLocks, ReleaseLeaves, Goto
<1>3. /\ DOMAIN frame' = Threads
      /\ \A u \in Threads \ {t} :
           \/ frame'[u] = frame[u]
           \/ pc[u] # "idle" /\ frame'[u] = [frame[u] EXCEPT !.fresh = FALSE]
  BY DEF ReleaseLocks
<1>4. /\ pc'[t] = "idle" /\ exclusive'[t] = {} /\ shared'[t] = shared[t]
      /\ \A u \in Threads \ {t} :
           pc'[u] = pc[u] /\ shared'[u] = shared[u] /\ exclusive'[u] = exclusive[u]
  BY <1>1, <1>2
<1>5. HeldBy(t)'
  BY <1>4 DEF HeldBy, Holding
<1>6. IsList(list') /\ Vertices(list) \subseteq Vertices(list')
  BY <1>1, <1>2
<1> QED
  BY <1>3, <1>4, <1>5, <1>6, StepOfOne

\* insert and remove in the exclusive section.
LEMMA LeafAlone ==
  ASSUME LeafInv, LockInv', NEW t \in Threads, WriteAlone(t) \/ Unlock(t)
  PROVE  LeafInv'
<1> DEFINE f == frame[t]
           i == FindEdge(list, f.src, f.dest)
<1>1. /\ pc[t] # "idle" /\ f \in Frames /\ IsList(list)
  BY DEF LeafInv, FramesTyped, WriteAlone, Unlock
<1>2. f.src \in Vertices(list) /\ f.info \in Infos
  BY <1>1 DEF Frames
<1>3. CASE WriteAlone(t)
  <2>1. i \in Nat
    BY <1>1, <1>2, EdgeFound
  <2>2. Grown(list, Insert(list, i, Element(f), f.src, f.info))
    BY <1>1, <1>2, <2>1, InsertShape
  <2>3. /\ IsList(Remove(list, i, f.dest))
        /\ Vertices(Remove(list, i, f.dest)) = Vertices(list)
    BY <1>1, <2>1, RemoveShape
  <2>4. list' \in {Insert(list, i, Element(f), f.src, f.info), Remove(list, i, f.dest)}
    BY <1>3 DEF WriteAlone, Apply
  <2>5. IsList(list') /\ Vertices(list) \subseteq Vertices(list')
    BY <2>2, <2>3, <2>4 DEF Grown
  <2>6. Goto(t, "unlock") /\ UNCHANGED <<shared, exclusive, frame>>
    BY <1>3 DEF WriteAlone
  <2> QED
    BY <1>1, <2>5, <2>6, LeafChange DEF Holding
<1>4. CASE Unlock(t)
  BY <1>4, LeafReturn DEF Unlock
<1> QED
  BY <1>3, <1>4

\* add_node, while every thread is idle.
LEMMA LeafAdd ==
  ASSUME LeafInv, LockInv', AddVertex
  PROVE  LeafInv'
<1>1. /\ \A t \in Threads : pc[t] = "idle"
      /\ list' = AddNode(list) /\ UNCHANGED <<shared, exclusive, pc, frame>>
  BY DEF AddVertex
<1>2. IsList(list')
  BY <1>1, AddNodeShape DEF LeafInv
<1>3. FramesTyped'
  BY <1>1 DEF LeafInv, FramesTyped
<1>4. (\A t \in Threads : HeldBy(t))'
  BY <1>1 DEF HeldBy, Holding
<1>5. LeafExclusion'
  BY <1>1 DEF LeafInv, LeafExclusion
<1> QED
  BY <1>2, <1>3, <1>4, <1>5 DEF LeafInv

\* Nothing happens.
LEMMA LeafStutter ==
  ASSUME LeafInv, LockInv', UNCHANGED vars
  PROVE  LeafInv'
BY DEF LeafInv, vars, FramesTyped, Frames, HeldBy, LeafExclusion

\* Every step keeps the invariant.
LEMMA LeafStep == LeafInv /\ [Next]_vars => LeafInv'
<1> SUFFICES ASSUME LeafInv, [Next]_vars PROVE LeafInv'
  OBVIOUS
<1>1. LockInv'
  BY LockStep DEF LeafInv
<1>2. CASE UNCHANGED vars
  BY <1>1, <1>2, LeafStutter
<1>3. CASE AddVertex
  BY <1>1, <1>3, LeafAdd
<1>4. ASSUME NEW t \in Threads, Begin(t) PROVE LeafInv'
  BY <1>1, <1>4, LeafBegin
<1>5. ASSUME NEW t \in Threads, Continue(t) PROVE LeafInv'
  <2>1. CASE CallForced(t) \/ Call(t) \/ Snap(t) \/ Upgrade(t)
    BY <1>1, <2>1, LeafEnter
  <2>2. CASE ShareLeaf(t)
    BY <1>1, <2>2, LeafShare
  <2>3. CASE Search(t)
    BY <1>1, <2>3, LeafSearch
  <2>4. CASE LoadVersion(t) \/ LockLeaf(t)
    BY <1>1, <2>4, LeafLock
  <2>5. CASE CheckInsert(t) \/ CheckRemove(t)
    BY <1>1, <2>5, LeafCheck
  <2>6. CASE Plan(t)
    BY <1>1, <2>6, LeafPlan
  <2>7. CASE Write(t) \/ SpreadLeaf(t) \/ SettleDensity(t)
    BY <1>1, <2>7, LeafWrite
  <2>8. CASE ReleaseLocks(t)
    BY <1>1, <2>8, LeafRelease
  <2>9. CASE WriteAlone(t) \/ Unlock(t)
    BY <1>1, <2>9, LeafAlone
  <2> QED
    BY <1>5, <2>1, <2>2, <2>3, <2>4, <2>5, <2>6, <2>7, <2>8, <2>9 DEF Continue
<1> QED
  BY <1>2, <1>3, <1>4, <1>5 DEF Next

----------------------------------------------------------------------------
\* The list keeps its shape and every thread holds just the leaves that its
\* place and its locals say, whatever the threads do.
THEOREM LeafInvCorrect == Spec => []LeafInv
  BY LeafInit, LeafStep, PTL DEF Spec

\* acquire_insert_locks, acquire_remove_locks, release_locks_no_inc and the
\* shared locks of the search: a thread never waits for a leaf that is left of
\* one it holds, so no circle of threads waits for one another.
THEOREM LeavesAscendCorrect == Spec => []LeavesAscend
<1>1. LeafInv => LeavesAscend
  <2> SUFFICES ASSUME LeafInv, NEW t \in Threads
               PROVE  /\ pc[t] \in {"share", "lock"} =>
                           \A i \in shared[t] \cup exclusive[t] : i < frame[t].next
                      /\ pc[t] \in {"check", "plan"} =>
                           \A i \in exclusive[t] : i <= frame[t].hi
    BY DEF LeavesAscend
  <2>1. HeldBy(t) /\ (pc[t] # "idle" => frame[t] \in Frames)
    BY DEF LeafInv, FramesTyped
  <2>2. /\ shared[t] # {} => pc[t] \in {"share", "search"}
        /\ exclusive[t] # {} => pc[t] \in Locking
    BY DEF LeafInv, LockInv, LeavesFollowPc
  <2>3. CASE pc[t] = "share"
    BY <2>1, <2>2, <2>3 DEF HeldBy, Locking, Writing
  <2>4. CASE pc[t] \in {"lock", "check", "plan"}
    <3>1. frame[t].lo \in Nat /\ frame[t].hi \in Nat /\ frame[t].next \in Nat
      BY <2>1, <2>4 DEF Frames
    <3> QED
      BY <2>1, <2>2, <2>4, <3>1 DEF HeldBy, Holding
  <2> QED
    BY <2>3, <2>4
<1> QED
  BY <1>1, LeafInvCorrect, PTL

\* HybridLock's lock and lock_shared: a leaf that one thread has locked
\* exclusively no other thread has locked in any way.
THEOREM LeafExclusionCorrect == Spec => []LeafExclusion
<1>1. LeafInv => LeafExclusion
  BY DEF LeafInv
<1> QED
  BY <1>1, LeafInvCorrect, PTL

----------------------------------------------------------------------------
(* What an update has locked when it writes.                               *)

\* The two leaves of a parent.
LEMMA ParentFound ==
  ASSUME NEW index \in Nat, NEW len \in Nat \ {0}
  PROVE  LET leaf == FindNode(index, len)
             parent == FindNode(leaf, 2 * len)
         IN  /\ leaf \in Nat /\ parent \in Nat
             /\ parent = FindNode(index, 2 * len)
             /\ FindNode(leaf, len) = leaf /\ FindNode(parent, len) = parent
             /\ FindNode(parent, 2 * len) = parent
             /\ leaf = parent \/ leaf = parent + len
             /\ index < parent + 2 * len
<1>1. PICK p \in Nat, b \in Nat \ {0} :
             b = 2 * len /\ p = index \div b /\ p * b <= index /\ index < p * b + b
  <2>1. 2 * len \in Nat \ {0}
    OBVIOUS
  <2> QED
    BY <2>1, Division
<1>2. PICK q \in Nat : q = index \div len /\ q * len <= index /\ index < q * len + len
  BY Division
<1>3. p * b = (2 * p) * len /\ (2 * p + 1) * len = p * b + len /\ (2 * p + 2) * len = p * b + b
  <2>1. \A x, y \in Nat : /\ x * (2 * y) = (2 * x) * y
                          /\ (2 * x + 1) * y = (2 * x) * y + y
                          /\ (2 * x + 2) * y = (2 * x) * y + 2 * y
    OBVIOUS
  <2>2. p * (2 * len) = (2 * p) * len /\ (2 * p + 1) * len = (2 * p) * len + len
        /\ (2 * p + 2) * len = (2 * p) * len + 2 * len
    BY <2>1
  <2> QED
    BY <1>1, <2>2
<1>4. q = 2 * p \/ q = 2 * p + 1
  <2>1. \A k \in Nat : k * len <= index /\ index < k * len + len => q = k
    BY <1>2, Division
  <2>2. CASE index < p * b + len
    <3>1. (2 * p) * len <= index /\ index < (2 * p) * len + len
      BY <1>1, <1>3, <2>2
    <3>2. 2 * p \in Nat
      BY <1>1
    <3> QED
      BY <2>1, <3>1, <3>2
  <2>3. CASE ~(index < p * b + len)
    <3>1. (2 * p + 1) * len <= index /\ index < (2 * p + 1) * len + len
      <4>1. p * b \in Nat
        BY <1>1
      <4> QED
        BY <1>1, <1>3, <2>3, <4>1
    <3>2. 2 * p + 1 \in Nat
      BY <1>1
    <3> QED
      BY <2>1, <3>1, <3>2
  <2> QED
    BY <2>2, <2>3
<1>5. q * len = p * b \/ q * len = p * b + len
  BY <1>3, <1>4
<1>6. (q * len) \div b = p /\ (q * len) \div len = q /\ (p * b) \div len = 2 * p /\ (p * b) \div b = p
  <2>1. p * b \in Nat /\ q * len \in Nat /\ 2 * p \in Nat
    BY <1>1, <1>2
  <2>2. p * b <= q * len /\ q * len < p * b + b
    BY <1>1, <1>5, <2>1
  <2>3. (q * len) \div b = p
    BY <1>1, <2>1, <2>2, Division
  <2>4. (q * len) \div len = q
    <3>1. q * len <= q * len /\ q * len < q * len + len
      BY <2>1
    <3> QED
      BY <2>1, <3>1, Division
  <2>5. (p * b) \div b = p
    <3>1. p * b <= p * b /\ p * b < p * b + b
      BY <1>1, <2>1
    <3> QED
      BY <1>1, <2>1, <3>1, Division
  <2>6. (p * b) \div len = 2 * p
    <3>1. (2 * p) * len <= p * b /\ p * b < (2 * p) * len + len
      BY <1>3, <2>1
    <3> QED
      BY <2>1, <3>1, Division
  <2> QED
    BY <2>3, <2>4, <2>5, <2>6
<1>7. /\ FindNode(index, len) = q * len /\ FindNode(q * len, b) = p * b /\ FindNode(index, b) = p * b
      /\ FindNode(q * len, len) = q * len /\ FindNode(p * b, len) = p * b /\ FindNode(p * b, b) = p * b
  BY <1>1, <1>2, <1>3, <1>6 DEF FindNode
<1>8. q * len \in Nat /\ p * b \in Nat
  BY <1>1, <1>2
<1> QED
  BY <1>1, <1>5, <1>7, <1>8

\* The slots of the leaves that a thread has locked.
LEMMA HeldFound ==
  ASSUME NEW L, IsList(L), NEW lo \in Nat, NEW hi \in Nat
  PROVE  LET H == Locked(L, lo, hi)
         IN  /\ H \subseteq Slots(L) /\ Convex(H)
             /\ \A i \in H : Window(FindLeaf(L, i), LogN(L.N)) \subseteq H
<1> DEFINE H == Locked(L, lo, hi)
<1>1. H \subseteq Slots(L) /\ Slots(L) \subseteq Nat
  BY SlotsFound DEF Locked
<1>2. ASSUME NEW a \in H, NEW b \in H, NEW p \in Int, a <= p, p <= b PROVE p \in H
  <2>1. a \in Nat /\ b \in Nat /\ p \in Nat /\ p \in Slots(L)
    <3>1. a \in Slots(L) /\ b \in Slots(L)
      BY DEF Locked
    <3> QED
      BY <1>2, <3>1, SlotsFound DEF Slots
  <2>2. lo <= LeafId(L, a) /\ LeafId(L, b) <= hi /\ LeafId(L, a) \in Nat /\ LeafId(L, b) \in Nat
    BY <2>1, LeafFound DEF Locked
  <2>3. LeafId(L, a) <= LeafId(L, p) /\ LeafId(L, p) <= LeafId(L, b) /\ LeafId(L, p) \in Nat
    BY <1>2, <2>1, LeafFound
  <2>4. LeafId(L, p) \in lo .. hi
    BY <2>2, <2>3
  <2> QED
    BY <2>1, <2>4 DEF Locked
<1>3. ASSUME NEW i \in H, NEW p \in Window(FindLeaf(L, i), LogN(L.N)) PROVE p \in H
  <2>1. i \in Slots(L) /\ i \in Nat /\ LeafId(L, i) \in lo .. hi
    BY <1>1 DEF Locked
  <2>2. LogN(L.N) \in Nat \ {0}
    BY LeafLength DEF IsList
  <2>3. 0 \in 0 .. Height(L.N) /\ 0 \in 0 .. 0 /\ LenAt(L, 0) = LogN(L.N)
    <3>1. Height(L.N) \in Nat
      BY LeafLength DEF IsList
    <3>2. 0 \in 0 .. Height(L.N) /\ 0 \in 0 .. 0
      BY <3>1
    <3> QED
      BY <3>2, Levels
  <2>4. Window(FindLeaf(L, i), LogN(L.N)) \subseteq Slots(L)
    <3>1. StartAt(L, i, 0) = FindLeaf(L, i)
      BY <2>3 DEF StartAt, FindLeaf
    <3> QED
      BY <2>1, <2>3, <3>1, LevelsNest
  <2>5. p \in Slots(L) /\ p \in Nat
    BY <2>4, <1>1
  <2>6. LeafId(L, p) = LeafId(L, i)
    <3>1. PICK q \in Nat : q = i \div LogN(L.N)
      BY <2>1, <2>2, Division
    <3>2. q * LogN(L.N) <= p /\ p < q * LogN(L.N) + LogN(L.N)
      <4>1. FindLeaf(L, i) = q * LogN(L.N) /\ q * LogN(L.N) \in Nat
        BY <2>2, <3>1 DEF FindLeaf, FindNode
      <4> QED
        BY <2>2, <2>5, <4>1 DEF Window
    <3>3. p \div LogN(L.N) = q
      BY <2>2, <2>5, <3>2, Division
    <3> QED
      BY <3>1, <3>3 DEF LeafId
  <2> QED
    BY <2>1, <2>5, <2>6 DEF Locked
<1> HIDE DEF H
<1>4. Convex(H)
  BY <1>2 DEF Convex
<1> QED
  BY <1>1, <1>3, <1>4 DEF H

\* density_bound: a window that is not too dense with one element more has two
\* nulls; one that is full with it is too dense on the level of the leaves.
LEMMA DensityFound ==
  ASSUME NEW L, Height(L.N) \in Nat \ {0}, NEW full \in Nat, NEW len \in Nat \ {0},
         NEW j \in 0 .. Height(L.N)
  PROVE  /\ ~TooDense(L, full, len, Height(L.N) - j) => full < len
         /\ full >= len => TooDense(L, full, len, Height(L.N))
<1>1. PICK h \in Nat \ {0} : h = Height(L.N)
  OBVIOUS
<1>2. \A a, b, c \in Nat : b <= c => a * b <= a * c
  <2> SUFFICES ASSUME NEW a \in Nat, NEW b \in Nat, NEW c \in Nat, b <= c PROVE a * b <= a * c
    OBVIOUS
  <2>1. PICK d \in Nat : c = b + d
    <3>1. c - b \in Nat /\ c = b + (c - b)
      OBVIOUS
    <3> QED
      BY <3>1
  <2>2. a * c = a * b + a * d /\ a * d \in Nat /\ a * b \in Nat
    BY <2>1
  <2> QED
    BY <2>2
<1>3. ASSUME full >= len, NEW k \in Nat, k <= h PROVE 4 * h * full >= len * (3 * h + k)
  <2>1. len * (3 * h + k) <= len * (4 * h)
    BY <1>1, <1>2, <1>3
  <2>2. (4 * h) * len <= (4 * h) * full
    BY <1>1, <1>2, <1>3
  <2>3. len * (4 * h) = (4 * h) * len /\ 4 * h * full = (4 * h) * full
    BY <1>1
  <2>4. len * (3 * h + k) \in Nat /\ (4 * h) * len \in Nat /\ (4 * h) * full \in Nat
    BY <1>1, <1>3
  <2> QED
    BY <2>1, <2>2, <2>3, <2>4
<1>4. h - j \in Nat /\ h - j <= h /\ h \in Nat /\ h <= h /\ h > 0
  BY <1>1
<1>5. ASSUME full >= len
      PROVE  TooDense(L, full, len, Height(L.N) - j) /\ TooDense(L, full, len, Height(L.N))
  <2>1. 4 * h * full >= len * (3 * h + (h - j)) /\ 4 * h * full >= len * (3 * h + h)
    BY <1>3, <1>4, <1>5
  <2> QED
    BY <1>1, <1>4, <2>1 DEF TooDense
<1> QED
  BY <1>5

\* A window with room for two elements more has two nulls.
LEMMA TwoNulls ==
  ASSUME NEW L, NEW W, IsFiniteSet(W), Cardinality(Taken(L, W)) + 1 < Cardinality(W)
  PROVE  \E a, b \in W : a # b /\ IsNull(L.items[a]) /\ IsNull(L.items[b])
<1> DEFINE T == Taken(L, W)
<1>1. T \subseteq W /\ IsFiniteSet(T)
  BY FS_Subset DEF Taken
<1>2. Cardinality(T) \in Nat /\ Cardinality(W) \in Nat
  BY <1>1, FS_CardinalityType
<1>3. ASSUME NEW x, W \subseteq T \cup {x} PROVE FALSE
  <2>1. Cardinality(W) <= Cardinality(T) + 1
    <3> HIDE DEF T
    <3> QED
      BY <1>1, <1>3, OneMore
  <2> QED
    BY <1>2, <2>1
<1>4. PICK a \in W : a \notin T
  BY <1>3
<1>5. PICK b \in W : b \notin T \cup {a}
  BY <1>3
<1> QED
  BY <1>4, <1>5 DEF Taken

\* How many slots of a window are taken.
LEMMA FullFound ==
  ASSUME NEW L, NEW index \in Nat, NEW len \in Nat \ {0}
  PROVE  /\ Full(L, index, len) = Cardinality(Taken(L, Window(index, len)))
         /\ Full(L, index, len) \in Nat
         /\ IsFiniteSet(Window(index, len)) /\ Cardinality(Window(index, len)) = len
         /\ Window(index, len) \subseteq Nat
<1>1. Occupied(L, index, len) = Taken(L, Window(index, len))
  BY DEF Occupied, Taken
<1>2. IsFiniteSet(index .. index + len - 1) /\ Cardinality(index .. index + len - 1) = len
  <2>1. index \in Int /\ index + len - 1 \in Int /\ index <= index + len - 1
        /\ (index + len - 1) - index + 1 = len
    OBVIOUS
  <2> QED
    BY <2>1, FS_Interval
<1>3. IsFiniteSet(Taken(L, Window(index, len)))
  BY <1>2, FS_Subset DEF Taken, Window
<1>4. Window(index, len) \subseteq Nat
  BY DEF Window
<1> QED
  BY <1>1, <1>2, <1>3, <1>4, FS_CardinalityType DEF Full, Window

\* When one element more would fill the leaf of slot i, its whole parent is locked.
Crowded(L, i, more, H) ==
  LET len == LogN(L.N)
      leaf == FindNode(i, len)
  IN  Full(L, leaf, len) + more >= len => Window(FindNode(leaf, 2 * len), 2 * len) \subseteq H

\* An even number.
Even(x) == x % 2 = 0

\* Twice a number is even, sums of even numbers are, and no odd one is.
LEMMA EvenFound ==
  ASSUME NEW x \in Nat
  PROVE  Even(x) <=> \E h \in Nat : x = 2 * h
<1>1. x % 2 \in {0, 1} /\ x \div 2 \in Nat /\ x = 2 * (x \div 2) + (x % 2)
  OBVIOUS
<1>2. ASSUME NEW h \in Nat, x = 2 * h PROVE x % 2 = 0
  BY <1>2
<1> QED
  BY <1>1, <1>2 DEF Even

\* A leaf has an even number of slots, and so has the list.
LEMMA LeafEven ==
  ASSUME NEW N \in PowersOfTwo, Height(N) > 0
  PROVE  \E h \in Nat \ {0} : LogN(N) = 2 * h
<1>1. N \in Nat \ {0} /\ N >= 8
  BY PowersPositive, LeafLength
<1>2. PICK b : b = Bsr(N)
  OBVIOUS
<1>3. b \in Nat /\ N < 2^(b + 1)
  BY <1>1, <1>2, BsrFound
<1>4. b # 0
  <2>1. b = 0 => 2^(b + 1) = 2
    <3>1. 2^(b + 1) = 2 * 2^b /\ 2^0 = 1
      BY <1>3, PowerPlusOne, Powers
    <3> QED
      BY <3>1
  <2> QED
    BY <1>1, <1>3, <2>1
<1>5. PICK c \in Nat \ {0} : c = 2 * b + 1 /\ c >= 3
  BY <1>3, <1>4
<1>6. PICK k : k = Bsr(c)
  OBVIOUS
<1>7. k \in Nat /\ c < 2^(k + 1)
  BY <1>5, <1>6, BsrFound
<1>8. k # 0
  <2>1. k = 0 => 2^(k + 1) = 2
    <3>1. 2^(k + 1) = 2 * 2^k /\ 2^0 = 1
      BY <1>7, PowerPlusOne, Powers
    <3> QED
      BY <3>1
  <2> QED
    BY <1>5, <1>7, <2>1
<1>9. PICK m \in Nat : k = m + 1
  <2>1. k - 1 \in Nat /\ k = (k - 1) + 1
    BY <1>7, <1>8
  <2> QED
    BY <2>1
<1>10. 2^(m + 1) = 2 * 2^m /\ 2^m \in Nat \ {0}
  BY PowerPlusOne, Powers
<1> QED
  BY <1>2, <1>5, <1>6, <1>9, <1>10 DEF LogN

\* A window of the implicit tree ends at an even slot, and so does the list.
LEMMA LevelsEven ==
  ASSUME NEW N \in PowersOfTwo, Height(N) > 0, NEW i \in Nat, NEW k \in Nat \ {0},
         NEW len, len = LogN(N) * k
  PROVE  Even(FindNode(i, len) + len) /\ Even(N) /\ len >= 2 /\ len \in Nat
<1>1. PICK h \in Nat \ {0} : LogN(N) = 2 * h
  BY LeafEven
<1>2. \A x, y \in Nat : x * y \in Nat /\ (2 * x) * y = 2 * (x * y)
  OBVIOUS
<1>3. Even(N)
  <2>1. PICK m \in Nat : m = 2^Height(N) /\ N = LogN(N) * m
    BY LeafLength, Powers
  <2>2. N = 2 * (h * m) /\ h * m \in Nat
    BY <1>1, <1>2, <2>1
  <2> QED
    BY <2>2, EvenFound, PowersPositive
<1>4. PICK g \in Nat \ {0} : g = h * k
  <2>1. \A x, y \in Nat \ {0} : x * y \in Nat \ {0}
    OBVIOUS
  <2> QED
    BY <2>1
<1>5. len = 2 * g
  BY <1>1, <1>2, <1>4
<1>6. PICK q \in Nat : FindNode(i, len) = q * len
  <2>1. len \in Nat \ {0}
    BY <1>5
  <2> QED
    BY <2>1, Division DEF FindNode
<1>7. FindNode(i, len) + len = 2 * (q * g + g) /\ q * g + g \in Nat
  <2>1. \A x, y \in Nat : x * (2 * y) = 2 * (x * y) /\ x * y \in Nat
    OBVIOUS
  <2>2. q * len = 2 * (q * g) /\ q * g \in Nat
    BY <1>5, <2>1
  <2>3. PICK r \in Nat : r = q * g
    BY <2>2
  <2>4. FindNode(i, len) = 2 * r
    BY <1>6, <2>2, <2>3
  <2>5. PICK x : x = FindNode(i, len)
    OBVIOUS
  <2>6. x + len = 2 * (r + g) /\ r + g \in Nat
    BY <1>5, <2>3, <2>4, <2>5
  <2> QED
    BY <2>3, <2>5, <2>6
<1>8. Even(FindNode(i, len) + len)
  BY <1>7, EvenFound
<1> QED
  BY <1>3, <1>5, <1>8

\* An even number below an even number is less by two.
LEMMA EvenBelow ==
  ASSUME NEW x \in Nat, NEW y \in Nat, Even(x), Even(y), x < y
  PROVE  x + 2 <= y
<1>1. PICK g \in Nat, h \in Nat : x = 2 * g /\ y = 2 * h
  BY EvenFound
<1> QED
  BY <1>1

\* The window that insert is told to redistribute is locked; it ends at an even slot,
\* as the list does.
Told(info, H) == /\ info.kind = "range" /\ Window(info.start, info.len) \subseteq H
                 /\ Even(info.start + info.len)

\* One of the windows that hold slot i is locked and has enough elements, even
\* with so many less.
Thin(L, i, less, H) ==
  \E j \in 0 .. Height(L.N) : /\ Window(StartAt(L, i, j), LenAt(L, j)) \subseteq H
                              /\ ~SparseAt(L, i, j, less)

\* The decisions differ.
LEMMA DecisionsDiffer ==
  ASSUME NEW info
  PROVE  /\ Go(info).do = "go" /\ Go(info).info = info /\ Lock.do = "lock"
         /\ Global(info).do = "global" /\ Global(info).info = info
         /\ \A b : Restart(b).do = "restart" /\ Restart(b).from = b
BY DEF Go, Lock, Global, Restart

\* acquire_insert_locks goes on when slide_right or slide_left stays in the leaves
\* that are locked.
LEMMA SlidePlanned ==
  ASSUME NEW L, IsList(L), NEW lo \in Nat, NEW hi \in Nat, NEW index \in Locked(L, lo, hi),
         NEW info, NEW d, d = PlanSlide(L, index, lo, hi, info)
  PROVE  /\ d.do = "go" => d.info = info /\ Room(L, index, Locked(L, lo, hi))
         /\ d.do = "global" => d.info = NoInfo
<1> DEFINE held == Locked(L, lo, hi)
           stopR == {p \in index + 1 .. L.N - 1 : p \notin held \/ IsNull(L.items[p])}
           stopL == {p \in 0 .. index - 1 : p \notin held \/ IsNull(L.items[p])}
<1>1. index \in Nat /\ L.N \in Nat /\ index < L.N
  BY SlotsFound DEF Locked, Slots
<1>2. \/ d = Go(info) /\ (IsNull(L.items[index]) \/ ~(stopR # {} /\ Least(stopR) \notin held))
      \/ d = Lock \/ d = Global(NoInfo) \/ d = Restart(LeafId(L, Greatest(stopL)))
  BY DEF PlanSlide
<1>3. ASSUME ~(stopR # {} /\ Least(stopR) \notin held), ~IsNull(L.items[index])
      PROVE  Room(L, index, held)
  <2>1. CASE stopR = {}
    <3>1. CASE L.N - 1 = index
      BY <3>1 DEF Room
    <3>2. CASE L.N - 1 # index
      <4>1. L.N - 1 \in index + 1 .. L.N - 1
        BY <1>1, <3>2
      <4>2. L.N - 1 \in held
        BY <2>1, <4>1
      <4> QED
        BY <4>2 DEF Room
    <3> QED
      BY <3>1, <3>2
  <2>2. CASE stopR # {}
    <3>1. stopR \subseteq Nat
      BY <1>1
    <3>2. PICK e : e = Least(stopR) /\ e \in stopR
      <4> HIDE DEF stopR
      <4> QED
        BY <2>2, <3>1, LeastFound
    <3>3. e \in held
      <4> HIDE DEF held, stopR
      <4> QED
        BY <1>3, <2>2, <3>2
    <3>4. index < e /\ IsNull(L.items[e])
      BY <1>1, <3>2, <3>3
    <3> QED
      BY <3>3, <3>4 DEF Room
  <2> QED
    BY <2>1, <2>2
<1>4. IsNull(L.items[index]) => Room(L, index, held)
  BY DEF Room
<1> HIDE DEF stopR, stopL, held
<1>5. /\ Go(info).do = "go" /\ Go(info).info = info /\ Lock.do = "lock"
      /\ Global(NoInfo).do = "global" /\ Global(NoInfo).info = NoInfo
      /\ Restart(LeafId(L, Greatest(stopL))).do = "restart"
  BY DecisionsDiffer
<1> QED
  BY <1>2, <1>3, <1>4, <1>5 DEF held

\* In a list of at least two leaves the parent of a leaf is a window of the tree.
LEMMA ParentLevel ==
  ASSUME NEW L, IsList(L), Height(L.N) > 0
  PROVE  /\ LogN(L.N) \in Nat \ {0} /\ Height(L.N) \in Nat \ {0}
         /\ LenAt(L, 0) = LogN(L.N) /\ LenAt(L, 1) = 2 * LogN(L.N)
         /\ \E c \in Nat \ {0} : L.N = (2 * LogN(L.N)) * c
<1>1. LogN(L.N) \in Nat \ {0} /\ Height(L.N) \in Nat \ {0}
  BY LeafLength DEF IsList
<1>2. 1 \in 0 .. Height(L.N) /\ Height(L.N) \in 0 .. Height(L.N)
  BY <1>1
<1>3. 0 \in 0 .. 1 /\ 1 - 0 = 1 /\ 1 \in 0 .. Height(L.N)
  BY <1>1
<1>4. LenAt(L, 1) = LenAt(L, 0) * 2^(1 - 0) /\ LenAt(L, 0) = LogN(L.N)
  BY <1>2, <1>3, Levels
<1>5. 2^1 = 2
  <2>1. 0 \in Nat /\ 0 + 1 = 1
    OBVIOUS
  <2>2. 2^(0 + 1) = 2 * 2^0 /\ 2^0 = 1
    BY <2>1, PowerPlusOne, Powers
  <2> QED
    BY <2>1, <2>2
<1>6. LenAt(L, 1) = 2 * LogN(L.N)
  BY <1>1, <1>3, <1>4, <1>5
<1>7. LenAt(L, Height(L.N)) = LenAt(L, 1) * 2^(Height(L.N) - 1) /\ 2^(Height(L.N) - 1) \in Nat \ {0}
      /\ LenAt(L, Height(L.N)) = L.N
  BY <1>2, <1>3, Levels
<1> QED
  BY <1>1, <1>4, <1>6, <1>7

\* A slot whose leaf's parent has one slot in the array is in the array itself.
LEMMA ParentInside ==
  ASSUME NEW L, IsList(L), Height(L.N) > 0, NEW index \in Nat, NEW base \in Slots(L),
         FindNode(base, 2 * LogN(L.N)) = FindNode(index, 2 * LogN(L.N))
  PROVE  index \in Slots(L)
<1>1. PICK len, c \in Nat \ {0} : len = 2 * LogN(L.N) /\ L.N = len * c
  <2>1. LogN(L.N) \in Nat \ {0} /\ \E c \in Nat \ {0} : L.N = (2 * LogN(L.N)) * c
    BY ParentLevel
  <2>2. 2 * LogN(L.N) \in Nat \ {0}
    BY <2>1
  <2> QED
    BY <2>1, <2>2
<1>2. base \in Nat /\ base < L.N /\ L.N \in Nat
  BY SlotsFound DEF Slots
<1>3. FindNode(base, len) + len <= L.N
  BY <1>1, <1>2, NodeInside
<1>4. FindNode(index, len) \in Nat /\ index < FindNode(index, len) + len
  BY <1>1, NodeFound
<1> QED
  BY <1>1, <1>2, <1>3, <1>4 DEF Slots

\* A leaf whose sibling's leaf is locked too, or whose parent is, when one element
\* more would fill it.
LEMMA ParentLocked ==
  ASSUME NEW L, IsList(L), Height(L.N) > 0, NEW lo \in Nat, NEW hi \in Nat,
         NEW index \in Locked(L, lo, hi), NEW base \in Slots(L),
         FindNode(base, 2 * LogN(L.N)) = FindNode(index, 2 * LogN(L.N)),
         FindNode(base, LogN(L.N)) = base,
         base = FindNode(index, LogN(L.N)) \/ base = FindNode(index, 2 * LogN(L.N)),
         NEW top \in 0 .. Height(L.N),
         Window(StartAt(L, base, top), LenAt(L, top)) \subseteq Locked(L, lo, hi),
         top # 0 \/ base # FindNode(index, LogN(L.N))
  PROVE  Window(FindNode(FindNode(index, LogN(L.N)), 2 * LogN(L.N)), 2 * LogN(L.N))
           \subseteq Locked(L, lo, hi)
<1> DEFINE held == Locked(L, lo, hi)
           len == LogN(L.N)
           leaf == FindNode(index, len)
           parent == FindNode(leaf, 2 * len)
<1> SUFFICES Window(parent, 2 * len) \subseteq held
  OBVIOUS
<1>1. len \in Nat \ {0} /\ Height(L.N) \in Nat \ {0} /\ LenAt(L, 0) = len /\ LenAt(L, 1) = 2 * len
  BY ParentLevel
<1>2. index \in Nat /\ base \in Nat /\ held \subseteq Slots(L)
  BY SlotsFound DEF Locked
<1>3. /\ leaf \in Nat /\ parent \in Nat /\ parent = FindNode(index, 2 * len)
      /\ leaf = parent \/ leaf = parent + len
  BY <1>1, <1>2, ParentFound
<1>4. CASE top # 0
  <2>1. 1 \in 0 .. top /\ top \in 0 .. Height(L.N)
    BY <1>1, <1>4
  <2>2. Window(StartAt(L, base, 1), LenAt(L, 1)) \subseteq Window(StartAt(L, base, top), LenAt(L, top))
    BY <2>1, LevelsNest
  <2>3. StartAt(L, base, 1) = parent
    BY <1>1, <1>3 DEF StartAt
  <2> QED
    BY <1>1, <2>2, <2>3
<1>5. CASE top = 0
  <2>1. StartAt(L, base, 0) = base /\ base = parent
    BY <1>1, <1>3, <1>5 DEF StartAt
  <2>2. Window(parent, len) \subseteq held
    BY <1>1, <1>5, <2>1
  <2>3. Window(leaf, len) \subseteq held
    <3>1. FindLeaf(L, index) = leaf
      BY DEF FindLeaf
    <3> QED
      BY <3>1, HeldFound
  <2>4. leaf = parent + len
    BY <1>3, <1>5, <2>1
  <2>5. \A p \in Window(parent, 2 * len) : p \in Window(parent, len) \/ p \in Window(parent + len, len)
    <3> HIDE DEF parent, len
    <3> QED
      BY <1>1, <1>3 DEF Window
  <2> HIDE DEF held, parent, len, leaf
  <2> QED
    BY <2>2, <2>3, <2>4, <2>5
<1> QED
  BY <1>4, <1>5

\* acquire_insert_locks goes on when insert stays in the leaves that are locked.
LEMMA InsertPlanned ==
  ASSUME NEW L, IsList(L), Height(L.N) > 0, NEW lo \in Nat, NEW hi \in Nat, NEW index \in Nat,
         lo <= LeafId(L, index), LeafId(L, index) <= hi,
         NEW d, d = PlanInsert(L, index, lo, hi), d.do = "go"
  PROVE  LET H == Locked(L, lo, hi)
         IN  index \in H /\ Room(L, index, H) /\ Spare(L, H) /\ Crowded(L, index, 1, H)
             /\ Told(d.info, H)
<1> DEFINE held == Locked(L, lo, hi)
           len == LogN(L.N)
           leaf == FindNode(index, len)
           base == IF Full(L, leaf, len) + 1 = len THEN FindNode(leaf, 2 * len) ELSE leaf
           h == Height(L.N)
           Known(j) == Window(StartAt(L, base, j), LenAt(L, j)) \subseteq held
           T == {j \in 0 .. h + 1 : j = h + 1 \/ ~Known(j) \/ ~DenseAt(L, base, j, 1)}
           top == Least(T)
           told == RangeInfo(StartAt(L, base, top), LenAt(L, top))
<1>1. /\ len \in Nat \ {0} /\ h \in Nat \ {0} /\ LenAt(L, 0) = len /\ LenAt(L, 1) = 2 * len
  BY ParentLevel
<1>2. /\ leaf \in Nat /\ FindNode(leaf, 2 * len) \in Nat
      /\ FindNode(leaf, 2 * len) = FindNode(index, 2 * len)
      /\ FindNode(leaf, len) = leaf
      /\ FindNode(FindNode(leaf, 2 * len), len) = FindNode(leaf, 2 * len)
      /\ FindNode(FindNode(leaf, 2 * len), 2 * len) = FindNode(leaf, 2 * len)
  BY <1>1, ParentFound
<1>3. /\ base \in Nat /\ FindNode(base, len) = base
      /\ FindNode(base, 2 * len) = FindNode(index, 2 * len)
      /\ base = FindNode(index, len) \/ base = FindNode(index, 2 * len)
  BY <1>2
<1>4. top \in T /\ \A j \in T : top <= j
  <2>1. h + 1 \in T /\ T \subseteq Nat
    BY <1>1, SMTT(30)
  <2> HIDE DEF T
  <2> QED
    BY <2>1, LeastFound
<1>5. \/ d \in {Global(DoubleInfo), Lock}
      \/ top # h + 1 /\ Known(top) /\ d = PlanSlide(L, index, lo, hi, told)
      \/ d = Restart(LeafId(L, StartAt(L, base, top)))
  BY DEF PlanInsert
<1>6. top \in 0 .. h /\ Known(top) /\ d = PlanSlide(L, index, lo, hi, told)
  <2> HIDE DEF T, told, base
  <2>1. top # h + 1 /\ Known(top) /\ d = PlanSlide(L, index, lo, hi, told)
    BY <1>5, DecisionsDiffer
  <2>2. top \in 0 .. h + 1
    BY <1>4, SMTT(30) DEF T
  <2> HIDE DEF top
  <2> QED
    BY <1>1, <2>1, <2>2
<1>7. ~DenseAt(L, base, top, 1)
  <2>1. top # h + 1
    <3> HIDE DEF top
    <3> QED
      BY <1>1, <1>6
  <2> QED
    BY <1>4, <1>6, <2>1
<1> HIDE DEF T, top, base
<1>8. base \in Slots(L)
  <2>1. /\ LenAt(L, top) \in Nat \ {0} /\ StartAt(L, base, top) \in Nat
        /\ StartAt(L, base, top) <= base /\ base < StartAt(L, base, top) + LenAt(L, top)
    BY <1>1, <1>3, <1>6, LevelFound
  <2>2. base \in Window(StartAt(L, base, top), LenAt(L, top))
    BY <1>3, <2>1 DEF Window
  <2> QED
    BY <1>6, <2>2 DEF Locked
<1>9. index \in held
  <2>1. index \in Slots(L)
    BY <1>1, <1>3, <1>8, ParentInside
  <2>2. LeafId(L, index) \in lo .. hi
    <3>1. LeafId(L, index) \in Nat
      BY LeafFound
    <3> QED
      BY <3>1
  <2> QED
    BY <2>1, <2>2 DEF Locked
<1>10. d.info = told /\ Room(L, index, held)
  BY <1>6, <1>9, SlidePlanned
<1> DEFINE s == StartAt(L, base, top)
           n == LenAt(L, top)
           full == Full(L, s, n)
<1>11. Told(d.info, held)
  <2>1. Even(s + n)
    <3>1. PICK k : k = 2^top
      OBVIOUS
    <3>2. k \in Nat \ {0} /\ n = LogN(L.N) * k /\ s = FindNode(base, n) /\ base \in Nat
      BY <1>1, <1>3, <1>6, <3>1, Powers DEF LenAt, StartAt
    <3>3. L.N \in PowersOfTwo
      BY DEF IsList
    <3> HIDE DEF s, n
    <3> QED
      BY <3>2, <3>3, LevelsEven
  <2> HIDE DEF s, n
  <2>2. told.kind = "range" /\ told.start = s /\ told.len = n
    BY DEF RangeInfo, s, n
  <2> HIDE DEF told
  <2> QED
    BY <1>6, <1>10, <2>1, <2>2 DEF Told, s, n
<1>12. /\ s \in Nat /\ n \in Nat \ {0} /\ full \in Nat
       /\ full = Cardinality(Taken(L, Window(s, n)))
       /\ IsFiniteSet(Window(s, n)) /\ Cardinality(Window(s, n)) = n
  <2>1. n \in Nat \ {0} /\ s \in Nat
    BY <1>1, <1>3, <1>6, LevelFound
  <2> HIDE DEF s, n
  <2>2. full \in Nat /\ full = Cardinality(Taken(L, Window(s, n)))
        /\ IsFiniteSet(Window(s, n)) /\ Cardinality(Window(s, n)) = n
    BY <2>1, FullFound, ZenonT(60)
  <2> QED
    BY <2>1, <2>2
<1>13. ~TooDense(L, full + 1, n, h - top)
  BY <1>7 DEF DenseAt
<1>14. full + 1 < n
  <2> HIDE DEF s, n, full
  <2>1. full + 1 \in Nat
    BY <1>12
  <2> QED
    BY <1>1, <1>6, <1>12, <1>13, <2>1, DensityFound
<1>15. Spare(L, held)
  <2>1. \E a, b \in Window(s, n) : a # b /\ IsNull(L.items[a]) /\ IsNull(L.items[b])
    <3> HIDE DEF s, n, full
    <3> QED
      BY <1>12, <1>14, TwoNulls
  <2>2. Window(s, n) \subseteq held
    BY <1>6
  <2> HIDE DEF held, s, n
  <2> QED
    BY <2>1, <2>2 DEF Spare
<1>16. Crowded(L, index, 1, held)
  <2>1. ASSUME Full(L, leaf, len) + 1 >= len
        PROVE  Window(FindNode(leaf, 2 * len), 2 * len) \subseteq held
    <3>1. top # 0 \/ base # FindNode(index, len)
      <4>1. ASSUME top = 0, base = leaf PROVE FALSE
        <5>1. s = leaf /\ n = len
          BY <1>1, <1>2, <4>1 DEF StartAt
        <5>2. full + 1 >= n
          BY <2>1, <5>1
        <5> HIDE DEF s, n, full
        <5> QED
          BY <1>12, <1>14, <5>2
      <4> QED
        BY <4>1
    <3>2. Known(top)
      BY <1>6
    <3> QED
      BY <1>1, <1>3, <1>6, <1>8, <1>9, <3>1, <3>2, ParentLocked
  <2> QED
    BY <2>1 DEF Crowded
<1> QED
  BY <1>9, <1>10, <1>11, <1>15, <1>16

\* acquire_remove_locks goes on when remove stays in the leaves that are locked.
LEMMA RemovePlanned ==
  ASSUME NEW L, IsList(L), NEW lo \in Nat, NEW hi \in Nat, NEW index \in Nat,
         lo <= LeafId(L, index), LeafId(L, index) <= hi,
         NEW d, d = PlanRemove(L, index, lo, hi), d.do = "go"
  PROVE  LET H == Locked(L, lo, hi)
         IN  index \in H /\ Thin(L, index, 1, H)
<1> DEFINE held == Locked(L, lo, hi)
           h == Height(L.N)
           Known(j) == Window(StartAt(L, index, j), LenAt(L, j)) \subseteq held
           T == {j \in 0 .. h + 1 : j = h + 1 \/ ~Known(j) \/ ~SparseAt(L, index, j, 1)}
           top == Least(T)
<1>1. h \in Nat
  BY LeafLength DEF IsList
<1>2. top \in T
  <2>1. h + 1 \in T /\ T \subseteq Nat
    BY <1>1
  <2> HIDE DEF T
  <2> QED
    BY <2>1, LeastFound
<1>3. \/ d \in {Global(NoInfo), Lock} \/ d = Restart(LeafId(L, StartAt(L, index, top)))
      \/ top # h + 1 /\ Known(top)
  BY DEF PlanRemove
<1>4. top \in 0 .. h /\ Known(top)
  <2> HIDE DEF T
  <2>1. top # h + 1 /\ Known(top)
    BY <1>3, DecisionsDiffer
  <2>2. top \in 0 .. h + 1
    BY <1>2 DEF T
  <2> HIDE DEF top
  <2> QED
    BY <1>1, <2>1, <2>2
<1>5. ~SparseAt(L, index, top, 1)
  <2>1. top # h + 1
    <3> HIDE DEF top
    <3> QED
      BY <1>1, <1>4
  <2> QED
    BY <1>2, <1>4, <2>1
<1> HIDE DEF T, top
<1>6. Thin(L, index, 1, held)
  BY <1>4, <1>5 DEF Thin
<1>7. index \in Slots(L)
  <2>1. /\ LenAt(L, top) \in Nat \ {0} /\ StartAt(L, index, top) \in Nat
        /\ StartAt(L, index, top) <= index /\ index < StartAt(L, index, top) + LenAt(L, top)
    BY <1>1, <1>4, LevelFound
  <2>2. index \in Window(StartAt(L, index, top), LenAt(L, top))
    BY <2>1 DEF Window
  <2> QED
    BY <1>4, <2>2 DEF Locked
<1>8. LeafId(L, index) \in lo .. hi
  <2>1. LeafId(L, index) \in Nat
    BY LeafFound
  <2> QED
    BY <2>1
<1> QED
  BY <1>6, <1>7, <1>8 DEF Locked

----------------------------------------------------------------------------
(* Every write stays inside the leaves that are locked.                    *)

\* A write that keeps the size of the list and changes only slots of H.
Confined(L, M, H) ==
  /\ Reshaped(L, M, L.N)
  /\ \A p \in Slots(L) \ H : M.items[p] = L.items[p]

\* redistribute stays inside its window ...
LEMMA RedistributeConfined ==
  ASSUME NEW L, IsList(L), NEW H, NEW index \in Nat, NEW len, Window(index, len) \subseteq H
  PROVE  Confined(L, Redistribute(L, index, len), H)
<1> DEFINE M == Redistribute(L, index, len)
           items == Spread(L, index, len)
           nodes == FixSentinels(L.nodes, SentinelsAt(items, Window(index, len)), L.N)
<1>1. Reshaped(L, M, L.N)
  BY RedistributeShape
<1>2. M.items = items
  <2>1. M = [L EXCEPT !.items = items, !.nodes = nodes]
    BY DEF Redistribute
  <2> HIDE DEF items, nodes
  <2>2. M = [N |-> L.N, items |-> items, nodes |-> nodes]
    BY <2>1, Updated
  <2> QED
    BY <2>2
<1>3. \A p \in Slots(L) \ H : items[p] = L.items[p]
  BY DEF Spread
<1> HIDE DEF M, items
<1> QED
  BY <1>1, <1>2, <1>3 DEF Confined, M

\* ... and leaves as many elements as there were in every window around that one.
LEMMA RedistributeCount ==
  ASSUME NEW L, IsList(L), NEW index \in Nat, NEW len \in Nat \ {0}, NEW s \in Nat, NEW n \in Nat \ {0},
         Window(index, len) \subseteq Window(s, n), Window(s, n) \subseteq Slots(L)
  PROVE  Full(Redistribute(L, index, len), s, n) = Full(L, s, n)
<1>1. PICK W : W = Window(s, n)
  OBVIOUS
<1>2. PICK M : M = Redistribute(L, index, len)
  OBVIOUS
<1>3. IsFiniteSet(W) /\ W \in SUBSET Int
  <2>1. IsFiniteSet(Window(s, n)) /\ Window(s, n) \subseteq Nat
    BY FullFound
  <2> QED
    BY <1>1, <2>1
<1>4. PICK g : Follows(L, M, W, W, g)
  BY <1>1, <1>2, RedistributeFollows
<1>5. Cardinality(Taken(M, W)) = Cardinality(Taken(L, W))
  BY <1>3, <1>4, FollowsCount
<1> QED
  BY <1>1, <1>2, <1>5, FullFound

\* insert of an edge that is there: only its value changes.
LEMMA UpdateConfined ==
  ASSUME NEW L, IsList(L), NEW H, NEW i \in H, NEW v
  PROVE  Confined(L, [L EXCEPT !.items[i].value = v], H)
<1>1. PICK e : e = [L.items[i] EXCEPT !.value = v]
  OBVIOUS
<1>2. PICK M : M = [L EXCEPT !.items[i] = e]
  OBVIOUS
<1>3. M = [L EXCEPT !.items[i].value = v]
  BY <1>1, <1>2
<1>4. Reshaped(L, M, L.N)
  BY <1>2, WriteShape
<1>5. M.items = [L.items EXCEPT ![i] = e]
  <2>1. PICK items : items = [L.items EXCEPT ![i] = e]
    OBVIOUS
  <2>2. M = [L EXCEPT !.items = items]
    BY <1>2, <2>1
  <2>3. M = [N |-> L.N, items |-> items, nodes |-> L.nodes]
    BY <2>2, Updated
  <2> QED
    BY <2>1, <2>3
<1>6. DOMAIN L.items = Slots(L)
  BY DEF IsList
<1>7. \A p \in Slots(L) \ H : M.items[p] = L.items[p]
  BY <1>5, <1>6
<1> QED
  BY <1>3, <1>4, <1>7 DEF Confined

\* M is L with e written to slot i.
Wrote(L, M, i, e) == M = [L EXCEPT !.items[i] = e]

\* Then the other items are the same.
LEMMA WriteItems ==
  ASSUME NEW L, IsList(L), NEW i, NEW e, NEW M, Wrote(L, M, i, e)
  PROVE  Reshaped(L, M, L.N) /\ \A p \in Slots(L) : M.items[p] = IF p = i THEN e ELSE L.items[p]
<1>2. M.items = [L.items EXCEPT ![i] = e]
  <2>1. PICK items : items = [L.items EXCEPT ![i] = e]
    OBVIOUS
  <2>2. M = [L EXCEPT !.items = items]
    BY <2>1 DEF Wrote
  <2>3. M = [N |-> L.N, items |-> items, nodes |-> L.nodes]
    BY <2>2, Updated
  <2> QED
    BY <2>1, <2>3
<1>3. DOMAIN L.items = Slots(L)
  BY DEF IsList
<1>4. \A p \in Slots(L) : M.items[p] = IF p = i THEN e ELSE L.items[p]
  BY <1>2, <1>3
<1>5. Reshaped(L, M, L.N)
  BY WriteShape DEF Wrote
<1> QED
  BY <1>4, <1>5

\* insert's write of the element, with the elements that it slides.
LEMMA PutConfined ==
  ASSUME NEW L, IsList(L), NEW lo \in Nat, NEW hi \in Nat, NEW i \in Locked(L, lo, hi), NEW elem,
         Room(L, i, Locked(L, lo, hi)), Spare(L, Locked(L, lo, hi))
  PROVE  /\ Confined(L, Put(L, i, elem), Locked(L, lo, hi))
         /\ Crowded(L, i, 1, Locked(L, lo, hi)) => Crowded(Put(L, i, elem), i, 0, Locked(L, lo, hi))
<1>1. PICK H : H = Locked(L, lo, hi)
  OBVIOUS
<1>2. PICK M : M = Put(L, i, elem)
  OBVIOUS
<1>3. H \subseteq Slots(L) /\ Convex(H) /\ Window(FindLeaf(L, i), LogN(L.N)) \subseteq H
  BY <1>1, HeldFound
<1>4. i \in H /\ i \in Slots(L) /\ i \in Nat
  BY <1>1, <1>3, SlotsFound
<1>5. Slidable(L, i) /\ Touched(L, i) \subseteq H
  BY <1>1, <1>3, <1>4, RoomSlides
<1>6. Reshaped(L, M, L.N)
  BY <1>2, <1>4, <1>5, PutItems
<1>7. \A p \in Slots(L) \ H : M.items[p] = L.items[p]
  BY <1>2, <1>4, <1>5, PutTouches
<1>8. ASSUME Crowded(L, i, 1, H) PROVE Crowded(M, i, 0, H)
  <2>1. PICK len : len = LogN(L.N) /\ len \in Nat \ {0}
    BY LeafLength DEF IsList
  <2>2. PICK leaf : leaf = FindNode(i, len) /\ leaf \in Nat
    BY <1>4, <2>1, NodeFound
  <2>3. leaf .. leaf + len - 1 \subseteq Slots(L) /\ leaf \in Int /\ leaf + len - 1 \in Int
    BY <1>3, <2>1, <2>2 DEF FindLeaf, Window
  <2>4. /\ Cardinality(Taken(L, leaf .. leaf + len - 1)) \in Nat
        /\ Cardinality(Taken(M, leaf .. leaf + len - 1)) \in Nat
        /\ Cardinality(Taken(M, leaf .. leaf + len - 1)) <= Cardinality(Taken(L, leaf .. leaf + len - 1)) + 1
    BY <1>2, <1>4, <1>5, <2>3, PutCount
  <2>5. /\ Full(L, leaf, len) = Cardinality(Taken(L, leaf .. leaf + len - 1))
        /\ Full(M, leaf, len) = Cardinality(Taken(M, leaf .. leaf + len - 1))
    <3>1. /\ Full(L, leaf, len) = Cardinality(Taken(L, Window(leaf, len)))
          /\ Full(M, leaf, len) = Cardinality(Taken(M, Window(leaf, len)))
      BY <2>1, <2>2, FullFound
    <3> QED
      BY <3>1 DEF Window
  <2>6. M.N = L.N
    BY <1>6 DEF Reshaped
  <2>7. Full(M, leaf, len) + 0 >= len => Full(L, leaf, len) + 1 >= len
    BY <2>1, <2>4, <2>5
  <2>8. Full(L, leaf, len) + 1 >= len => Window(FindNode(leaf, 2 * len), 2 * len) \subseteq H
    BY <1>8, <2>1, <2>2 DEF Crowded
  <2>9. Full(M, leaf, len) + 0 >= len => Window(FindNode(leaf, 2 * len), 2 * len) \subseteq H
    BY <2>7, <2>8
  <2> QED
    BY <2>1, <2>2, <2>6, <2>9 DEF Crowded
<1> QED
  BY <1>1, <1>2, <1>6, <1>7, <1>8 DEF Confined

\* insert evens out its leaf or its parent.
LEMMA EvenOutConfined ==
  ASSUME NEW L, IsList(L), NEW lo \in Nat, NEW hi \in Nat, NEW i \in Locked(L, lo, hi),
         Crowded(L, i, 0, Locked(L, lo, hi))
  PROVE  Confined(L, EvenOut(L, i, LogN(L.N)), Locked(L, lo, hi))
<1>1. PICK H : H = Locked(L, lo, hi)
  OBVIOUS
<1>2. Window(FindLeaf(L, i), LogN(L.N)) \subseteq H /\ H \subseteq Slots(L)
  BY <1>1, HeldFound
<1>3. i \in Nat
  BY <1>1, <1>2, SlotsFound
<1>4. PICK len : len = LogN(L.N) /\ len \in Nat \ {0}
  BY LeafLength DEF IsList
<1>5. PICK leaf : leaf = FindNode(i, len) /\ leaf \in Nat /\ FindNode(leaf, 2 * len) \in Nat
  BY <1>3, <1>4, ParentFound
<1>6. CASE Full(L, leaf, len) = len
  <2>1. Window(FindNode(leaf, 2 * len), 2 * len) \subseteq H
    BY <1>1, <1>4, <1>5, <1>6 DEF Crowded
  <2>2. EvenOut(L, i, len) = Redistribute(L, FindNode(leaf, 2 * len), 2 * len)
    BY <1>5, <1>6 DEF EvenOut, SpreadWindow
  <2> QED
    BY <1>1, <1>4, <1>5, <2>1, <2>2, RedistributeConfined
<1>7. CASE Full(L, leaf, len) # len
  <2>1. Window(leaf, len) \subseteq H
    BY <1>2, <1>4, <1>5 DEF FindLeaf
  <2>2. EvenOut(L, i, len) = Redistribute(L, leaf, len)
    BY <1>5, <1>7 DEF EvenOut, SpreadWindow
  <2> QED
    BY <1>1, <1>4, <1>5, <2>1, <2>2, RedistributeConfined
<1> QED
  BY <1>6, <1>7

\* insert settles with the window it was told.
LEMMA SettleConfined ==
  ASSUME NEW L, IsList(L), NEW H, NEW leaf, NEW info \in Infos, Told(info, H)
  PROVE  Confined(L, Settle(L, leaf, info), H)
<1>1. info.kind = "range" /\ Window(info.start, info.len) \subseteq H
  BY DEF Told
<1>2. info.start \in Nat
  BY <1>1 DEF Infos, NoInfo, DoubleInfo, RangeInfo
<1>3. Settle(L, leaf, info) = IF info.len > LogN(L.N)
                              THEN Redistribute(L, info.start, info.len) ELSE L
  BY <1>1 DEF Settle
<1>4. Confined(L, L, H)
  BY DEF Confined, Reshaped
<1> QED
  BY <1>1, <1>2, <1>3, <1>4, RedistributeConfined

\* remove nulls one slot.
LEMMA EraseCount ==
  ASSUME NEW L, IsList(L), NEW i, NEW s \in Nat, NEW n \in Nat \ {0}, Window(s, n) \subseteq Slots(L)
  PROVE  /\ Full(Erase(L, i), s, n) \in Nat /\ Full(L, s, n) \in Nat
         /\ Full(L, s, n) <= Full(Erase(L, i), s, n) + 1
<1>1. PICK M : M = Erase(L, i)
  OBVIOUS
<1>2. \A p \in Slots(L) : M.items[p] = IF p = i THEN Null ELSE L.items[p]
  <2>1. PICK e : e = Null
    OBVIOUS
  <2>2. Wrote(L, M, i, e)
    BY <1>1, <2>1 DEF Erase, Wrote
  <2>3. Reshaped(L, M, L.N) /\ \A p \in Slots(L) : M.items[p] = IF p = i THEN e ELSE L.items[p]
    BY <2>2, WriteItems
  <2> QED
    BY <2>1, <2>3
<1>3. PICK W : W = Window(s, n)
  OBVIOUS
<1>4. W \subseteq Slots(L) /\ IsFiniteSet(W)
  BY <1>3, FullFound
<1>5. Taken(L, W) \subseteq Taken(M, W) \cup {i}
  BY <1>2, <1>4 DEF Taken
<1>6. IsFiniteSet(Taken(M, W))
  BY <1>4, FS_Subset DEF Taken
<1>7. Cardinality(Taken(L, W)) <= Cardinality(Taken(M, W)) + 1
  BY <1>5, <1>6, OneMore
<1>8. /\ Full(L, s, n) = Cardinality(Taken(L, W)) /\ Full(L, s, n) \in Nat
  BY <1>3, FullFound, SMTT(30)
<1>9. /\ Full(M, s, n) = Cardinality(Taken(M, W)) /\ Full(M, s, n) \in Nat
  BY <1>3, FullFound
<1> QED
  BY <1>1, <1>7, <1>8, <1>9

\* density_bound: a window with no less elements is no sparser.
LEMMA SparserFound ==
  ASSUME NEW L, NEW M, L.N = M.N, Height(L.N) \in Nat, NEW a \in Int, NEW b \in Int, a <= b,
         NEW len \in Nat, NEW level \in Int, TooSparse(M, b, len, level)
  PROVE  TooSparse(L, a, len, level)
<1>1. PICK h \in Nat : h = Height(L.N) /\ h = Height(M.N)
  OBVIOUS
<1>2. h > 0 /\ 8 * h * b < len * (2 * h - level)
  BY <1>1 DEF TooSparse
<1>3. 8 * h * a <= 8 * h * b
  <2>1. PICK d \in Nat : b = a + d
    <3>1. b - a \in Nat /\ b = a + (b - a)
      OBVIOUS
    <3> QED
      BY <3>1
  <2>2. \A x \in Nat, y \in Int, z \in Nat : 8 * x * (y + z) = 8 * x * y + 8 * x * z /\ 8 * x * z \in Nat
        /\ 8 * x * y \in Int
    OBVIOUS
  <2>3. 8 * h * (a + d) = 8 * h * a + 8 * h * d /\ 8 * h * d \in Nat /\ 8 * h * a \in Int
    BY <2>2
  <2> QED
    BY <2>1, <2>3
<1>4. 8 * h * a \in Int /\ 8 * h * b \in Int /\ len * (2 * h - level) \in Int
  <2>1. \A x, y, z \in Int : 8 * x * y \in Int /\ z * (2 * x - y) \in Int
    OBVIOUS
  <2> QED
    BY <2>1
<1>5. 8 * h * a < len * (2 * h - level)
  BY <1>2, <1>3, <1>4
<1> QED
  BY <1>1, <1>2, <1>5 DEF TooSparse

\* A window with enough elements after one is gone has enough when it is gone.
LEMMA ThinErased ==
  ASSUME NEW L, IsList(L), NEW H, NEW i \in Slots(L), i \in H, Thin(L, i, 1, H)
  PROVE  Confined(L, Erase(L, i), H) /\ Thin(Erase(L, i), i, 0, H)
<1>1. PICK M : M = Erase(L, i)
  OBVIOUS
<1>2. Reshaped(L, M, L.N) /\ \A p \in Slots(L) : M.items[p] = IF p = i THEN Null ELSE L.items[p]
  <2>1. PICK e : e = Null
    OBVIOUS
  <2>2. Wrote(L, M, i, e)
    BY <1>1, <2>1 DEF Erase, Wrote
  <2>3. Reshaped(L, M, L.N) /\ \A p \in Slots(L) : M.items[p] = IF p = i THEN e ELSE L.items[p]
    BY <2>2, WriteItems
  <2> QED
    BY <2>1, <2>3
<1>3. M.N = L.N /\ Height(L.N) \in Nat
  BY <1>2, LeafLength DEF Reshaped, IsList
<1>4. PICK j \in 0 .. Height(L.N) : /\ Window(StartAt(L, i, j), LenAt(L, j)) \subseteq H
                                    /\ ~SparseAt(L, i, j, 1)
  BY DEF Thin
<1>5. PICK s, n : s = StartAt(L, i, j) /\ n = LenAt(L, j)
  OBVIOUS
<1>6. s = StartAt(M, i, j) /\ n = LenAt(M, j)
  BY <1>3, <1>5 DEF StartAt, LenAt
<1>7. i \in Nat /\ j \in Nat
  BY <1>3, SlotsFound
<1>8. s \in Nat /\ n \in Nat \ {0}
  BY <1>5, <1>7, LevelFound
<1>9. Window(s, n) \subseteq Slots(L)
  <2>1. j \in 0 .. j
    BY <1>7
  <2> QED
    BY <1>5, <2>1, LevelsNest
<1>10. Full(M, s, n) \in Nat /\ Full(L, s, n) \in Nat /\ Full(L, s, n) <= Full(M, s, n) + 1
  BY <1>1, <1>8, <1>9, EraseCount
<1>11. ASSUME SparseAt(M, i, j, 0) PROVE FALSE
  <2>1. TooSparse(M, Full(M, s, n) - 0, n, Height(L.N) - j)
    BY <1>3, <1>6, <1>11 DEF SparseAt
  <2>2. Full(L, s, n) - 1 \in Int /\ Full(M, s, n) - 0 \in Int
        /\ Full(L, s, n) - 1 <= Full(M, s, n) - 0 /\ Height(L.N) - j \in Int
    BY <1>3, <1>7, <1>10
  <2>3. TooSparse(L, Full(L, s, n) - 1, n, Height(L.N) - j)
    BY <1>3, <1>8, <2>1, <2>2, SparserFound
  <2> QED
    BY <1>4, <1>5, <2>3 DEF SparseAt
<1>12. Thin(M, i, 0, H)
  BY <1>3, <1>4, <1>5, <1>6, <1>11 DEF Thin
<1>13. Confined(L, M, H)
  BY <1>2 DEF Confined
<1> QED
  BY <1>1, <1>12, <1>13

\* Neither does evening out its leaf change how many it has.
LEMMA ThinSpread ==
  ASSUME NEW L, IsList(L), NEW lo \in Nat, NEW hi \in Nat, NEW i \in Locked(L, lo, hi),
         Thin(L, i, 0, Locked(L, lo, hi))
  PROVE  LET M == Redistribute(L, FindLeaf(L, i), LogN(L.N))
         IN  Confined(L, M, Locked(L, lo, hi)) /\ Thin(M, i, 0, Locked(L, lo, hi))
<1>1. PICK H : H = Locked(L, lo, hi)
  OBVIOUS
<1>2. PICK M : M = Redistribute(L, FindLeaf(L, i), LogN(L.N))
  OBVIOUS
<1>3. Window(FindLeaf(L, i), LogN(L.N)) \subseteq H /\ H \subseteq Slots(L)
  BY <1>1, HeldFound
<1>4. i \in Slots(L) /\ i \in Nat
  BY <1>1, <1>3, SlotsFound
<1>5. LogN(L.N) \in Nat \ {0} /\ Height(L.N) \in Nat
  BY LeafLength DEF IsList
<1>6. FindLeaf(L, i) \in Nat
  BY <1>4, <1>5, NodeFound DEF FindLeaf
<1>7. Confined(L, M, H)
  BY <1>2, <1>3, <1>6, RedistributeConfined
<1>8. M.N = L.N
  BY <1>7 DEF Confined, Reshaped
<1>9. PICK j \in 0 .. Height(L.N) : /\ Window(StartAt(L, i, j), LenAt(L, j)) \subseteq H
                                    /\ ~SparseAt(L, i, j, 0)
  BY <1>1 DEF Thin
<1>10. PICK s, n : s = StartAt(L, i, j) /\ n = LenAt(L, j)
  OBVIOUS
<1>11. s = StartAt(M, i, j) /\ n = LenAt(M, j)
  BY <1>8, <1>10 DEF StartAt, LenAt
<1>12. s \in Nat /\ n \in Nat \ {0} /\ j \in Nat
  BY <1>4, <1>5, <1>10, LevelFound
<1>13. /\ Window(s, n) \subseteq Slots(L)
       /\ Window(FindLeaf(L, i), LogN(L.N)) \subseteq Window(s, n)
  <2>1. 0 \in 0 .. j /\ 0 \in 0 .. Height(L.N)
    BY <1>5, <1>12
  <2>2. /\ Window(StartAt(L, i, j), LenAt(L, j)) \subseteq Slots(L)
        /\ Window(StartAt(L, i, 0), LenAt(L, 0)) \subseteq Window(StartAt(L, i, j), LenAt(L, j))
    BY <1>4, <2>1, LevelsNest
  <2>3. LenAt(L, 0) = LogN(L.N)
    BY <2>1, Levels
  <2>4. StartAt(L, i, 0) = FindLeaf(L, i)
    BY <2>3 DEF StartAt, FindLeaf
  <2> QED
    BY <1>10, <2>2, <2>3, <2>4
<1>14. Full(M, s, n) = Full(L, s, n)
  BY <1>2, <1>5, <1>6, <1>12, <1>13, RedistributeCount
<1>15. ~SparseAt(M, i, j, 0)
  BY <1>8, <1>9, <1>10, <1>11, <1>14 DEF SparseAt, TooSparse
<1>16. Thin(M, i, 0, H)
  BY <1>8, <1>9, <1>10, <1>11, <1>15 DEF Thin
<1> QED
  BY <1>1, <1>2, <1>7, <1>16

\* So remove settles without halving the list, inside the leaves that are locked.
LEMMA ThinSettles ==
  ASSUME NEW L, IsList(L), NEW H, NEW i \in Slots(L), Thin(L, i, 0, H)
  PROVE  Confined(L, SettleRemoval(L, FindLeaf(L, i)), H)
<1>1. Height(L.N) \in Nat /\ LogN(L.N) \in Nat \ {0} /\ i \in Nat
  BY LeafLength, SlotsFound DEF IsList
<1>2. PICK leaf : leaf = FindLeaf(L, i) /\ leaf \in Nat
  BY <1>1, NodeFound DEF FindLeaf
<1>3. PICK j \in 0 .. Height(L.N) : /\ Window(StartAt(L, i, j), LenAt(L, j)) \subseteq H
                                    /\ ~SparseAt(L, i, j, 0)
  BY DEF Thin
<1>4. 0 \in 0 .. Height(L.N) /\ 0 \in 0 .. 0 /\ 0 \in 0 .. j /\ LenAt(L, 0) = LogN(L.N)
  <2>1. 0 \in 0 .. Height(L.N) /\ 0 \in 0 .. 0 /\ 0 \in 0 .. j
    BY <1>1
  <2> QED
    BY <2>1, Levels
<1>5. StartAt(L, i, 0) = leaf
  BY <1>2, <1>4 DEF StartAt, FindLeaf
<1>6. leaf \in Slots(L)
  <2>1. Window(StartAt(L, i, 0), LenAt(L, 0)) \subseteq Slots(L)
    BY <1>4, LevelsNest
  <2>2. leaf \in Window(leaf, LogN(L.N))
    BY <1>1, <1>2 DEF Window
  <2> QED
    BY <1>4, <1>5, <2>1, <2>2
<1>7. StartAt(L, leaf, j) = StartAt(L, i, j)
  BY <1>4, <1>5, LevelsNest
<1>8. ~SparseAt(L, leaf, j, 0)
  BY <1>3, <1>7 DEF SparseAt
<1>9. PICK k : k = RemoveLevel(L, leaf)
  OBVIOUS
<1>10. k \in 0 .. j /\ k \in Nat /\ ~(k > Height(L.N))
  <2>1. /\ k \in 0 .. Height(L.N) + 1
        /\ \A m \in 0 .. Height(L.N) : m < k => SparseAt(L, leaf, m, 0)
    BY <1>9, RemoveLevelFound
  <2>2. ~(j < k)
    BY <1>3, <1>8, <2>1
  <2> QED
    BY <1>1, <2>1, <2>2
<1>11. SettleRemoval(L, leaf) = Redistribute(L, StartAt(L, leaf, k), LenAt(L, k))
  BY <1>9, <1>10 DEF SettleRemoval
<1>12. Window(StartAt(L, leaf, k), LenAt(L, k)) \subseteq H
  <2>1. Window(StartAt(L, leaf, k), LenAt(L, k)) \subseteq Window(StartAt(L, leaf, j), LenAt(L, j))
    BY <1>6, <1>10, LevelsNest
  <2> QED
    BY <1>3, <1>7, <2>1
<1>13. StartAt(L, leaf, k) \in Nat
  BY <1>2, <1>10, LevelFound
<1> QED
  BY <1>2, <1>11, <1>12, <1>13, RedistributeConfined

=============================================================================
