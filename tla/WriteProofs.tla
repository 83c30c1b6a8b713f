---------------------------- MODULE WriteProofs ----------------------------
(***************************************************************************)
(* Proofs about the writes of PCSR.tla: they stay inside the leaves that   *)
(* the thread has locked, the list never fills up, and it never shrinks to *)
(* a single leaf.  The second half is about the writes alone: which lists  *)
(* are well formed, and that insert and remove keep them so.               *)
(***************************************************************************)
EXTENDS PCSRProofs

----------------------------------------------------------------------------
(* What a thread relies on between its steps.                              *)

\* The locals f of a thread at a place of its call, with the list as it is.
Ready(L, f, at) ==
  LET H == Locked(L, f.lo, f.hi)
      i == f.index
  IN  /\ at \in {"load", "lock"} \cup Holding => f.lo <= LeafId(L, i) /\ LeafId(L, i) <= f.hi
      /\ at \in Writing => i \in H
      /\ f.kind = "add" /\ at = "write" => Room(L, i, H) /\ Spare(L, H) /\ Crowded(L, i, 1, H)
      /\ f.kind = "add" /\ at = "spread" => Crowded(L, i, 0, H)
      /\ f.kind = "add" /\ at \in Writing => Told(f.info, H)
      /\ f.kind = "remove" /\ at = "write" => Thin(L, i, 1, H)
      /\ f.kind = "remove" /\ at \in {"spread", "settle"} => Thin(L, i, 0, H)
      /\ at \notin Writing \cup {"release"} => f.info \in {NoInfo, DoubleInfo}

\* Windows that are the same in two lists are as full.
LEMMA FullSame ==
  ASSUME NEW L, NEW M, NEW s, NEW n, \A p \in Window(s, n) : M.items[p] = L.items[p]
  PROVE  Full(M, s, n) = Full(L, s, n)
<1>1. Occupied(M, s, n) = Occupied(L, s, n)
  BY DEF Occupied
<1> QED
  BY <1>1 DEF Full

\* Another thread's write leaves it as it is, as that thread holds other leaves.
LEMMA ReadyElsewhere ==
  ASSUME NEW L, IsList(L), NEW M, M.N = L.N, NEW f, f.lo \in Nat, f.hi \in Nat, f.index \in Nat,
         \A p \in Locked(L, f.lo, f.hi) : M.items[p] = L.items[p],
         NEW at, Ready(L, f, at)
  PROVE  Ready(M, f, at)
<1>1. PICK H, i : H = Locked(L, f.lo, f.hi) /\ i = f.index
  OBVIOUS
<1>2. Locked(M, f.lo, f.hi) = H /\ LeafId(M, i) = LeafId(L, i)
  BY <1>1 DEF Locked, LeafId, Slots
<1>3. H \subseteq Slots(L) /\ \A p \in H : Window(FindLeaf(L, p), LogN(L.N)) \subseteq H
  BY <1>1, HeldFound
<1>4. \A p \in H : M.items[p] = L.items[p]
  BY <1>1
<1>5. ASSUME i \in H, Room(L, i, H) PROVE Room(M, i, H)
  BY <1>4, <1>5 DEF Room
<1>6. ASSUME Spare(L, H) PROVE Spare(M, H)
  BY <1>4, <1>6 DEF Spare
<1>7. ASSUME i \in H, NEW more, Crowded(L, i, more, H) PROVE Crowded(M, i, more, H)
  <2>1. PICK s, n : s = FindNode(i, LogN(L.N)) /\ n = LogN(L.N)
    OBVIOUS
  <2>2. Window(s, n) \subseteq H
    BY <1>3, <1>7, <2>1 DEF FindLeaf
  <2>3. Full(M, s, n) = Full(L, s, n)
    BY <1>4, <2>2, FullSame
  <2> QED
    BY <1>7, <2>1, <2>3 DEF Crowded
<1>8. ASSUME NEW less, Thin(L, i, less, H) PROVE Thin(M, i, less, H)
  <2>1. PICK j \in 0 .. Height(L.N) : /\ Window(StartAt(L, i, j), LenAt(L, j)) \subseteq H
                                      /\ ~SparseAt(L, i, j, less)
    BY <1>8 DEF Thin
  <2>2. PICK s, n : s = StartAt(L, i, j) /\ n = LenAt(L, j)
    OBVIOUS
  <2>3. s = StartAt(M, i, j) /\ n = LenAt(M, j)
    BY <2>2 DEF StartAt, LenAt
  <2>4. Full(M, s, n) = Full(L, s, n)
    BY <1>4, <2>1, <2>2, FullSame
  <2>5. ~SparseAt(M, i, j, less)
    BY <2>1, <2>2, <2>3, <2>4 DEF SparseAt, TooSparse
  <2> QED
    BY <2>1, <2>2, <2>3, <2>5 DEF Thin
<1>9. /\ at \in {"load", "lock"} \cup Holding => f.lo <= LeafId(L, i) /\ LeafId(L, i) <= f.hi
      /\ at \in Writing => i \in H
      /\ f.kind = "add" /\ at = "write" => Room(L, i, H) /\ Spare(L, H) /\ Crowded(L, i, 1, H)
      /\ f.kind = "add" /\ at = "spread" => Crowded(L, i, 0, H)
      /\ f.kind = "add" /\ at \in Writing => Told(f.info, H)
      /\ f.kind = "remove" /\ at = "write" => Thin(L, i, 1, H)
      /\ f.kind = "remove" /\ at \in {"spread", "settle"} => Thin(L, i, 0, H)
      /\ at \notin Writing \cup {"release"} => f.info \in {NoInfo, DoubleInfo}
  BY <1>1 DEF Ready
<1>10. at = "write" \/ at = "spread" => i \in H
  BY <1>9 DEF Writing
<1>11. /\ f.kind = "add" /\ at = "write" => Room(M, i, H) /\ Spare(M, H) /\ Crowded(M, i, 1, H)
       /\ f.kind = "add" /\ at = "spread" => Crowded(M, i, 0, H)
  BY <1>5, <1>6, <1>7, <1>9, <1>10
<1>12. /\ f.kind = "remove" /\ at = "write" => Thin(M, i, 1, H)
       /\ f.kind = "remove" /\ at \in {"spread", "settle"} => Thin(M, i, 0, H)
  BY <1>8, <1>9
<1> QED
  BY <1>1, <1>2, <1>9, <1>11, <1>12 DEF Ready

\* Neither does the version of its leaf matter.
LEMMA ReadyStale ==
  ASSUME NEW L, NEW f \in Frames, NEW at, Ready(L, f, at)
  PROVE  Ready(L, [f EXCEPT !.fresh = FALSE], at)
<1>1. PICK g : g = [f EXCEPT !.fresh = FALSE]
  OBVIOUS
<1>2. g.lo = f.lo /\ g.hi = f.hi /\ g.index = f.index /\ g.kind = f.kind /\ g.info = f.info
  BY <1>1 DEF Frames
<1> QED
  BY <1>1, <1>2 DEF Ready

\* What every thread inside a call relies on.
WriteInv ==
  /\ LeafInv
  /\ \A t \in Threads : pc[t] # "idle" => Ready(list, frame[t], pc[t])

\* Where nothing has been locked yet, it is only what insert will be told.
LEMMA ReadyEarly ==
  ASSUME NEW L, NEW f, f.info \in {NoInfo, DoubleInfo},
         NEW at \in PCs \ ({"load", "lock"} \cup Holding)
  PROVE  Ready(L, f, at)
BY DEF Ready, Holding, Writing, PCs

\* A step of t on the list as it is.
LEMMA WriteOfOne ==
  ASSUME WriteInv, LeafInv', UNCHANGED list, NEW t \in Threads,
         \A u \in Threads \ {t} :
           /\ pc'[u] = pc[u]
           /\ frame'[u] = frame[u] \/ frame'[u] = [frame[u] EXCEPT !.fresh = FALSE],
         pc'[t] # "idle" => Ready(list, frame'[t], pc'[t])
  PROVE  WriteInv'
<1>1. ASSUME NEW u \in Threads, pc'[u] # "idle" PROVE Ready(list', frame'[u], pc'[u])
  <2>1. CASE u = t
    BY <1>1, <2>1
  <2>2. CASE u # t
    <3>1. pc'[u] = pc[u] /\ Ready(list, frame[u], pc[u]) /\ frame[u] \in Frames
      BY <1>1, <2>2 DEF WriteInv, LeafInv, FramesTyped
    <3>2. Ready(list, frame'[u], pc'[u])
      <4>1. CASE frame'[u] = frame[u]
        BY <3>1, <4>1
      <4>2. CASE frame'[u] = [frame[u] EXCEPT !.fresh = FALSE]
        <5>1. Ready(list, [frame[u] EXCEPT !.fresh = FALSE], pc[u])
          BY <3>1, ReadyStale
        <5> QED
          BY <3>1, <4>2, <5>1
      <4> QED
        BY <2>2, <4>1, <4>2
    <3> QED
      BY <3>2
  <2> QED
    BY <2>1, <2>2
<1> QED
  BY <1>1 DEF WriteInv

\* A step of t that moves it, with other locals.
LEMMA WriteMoves ==
  ASSUME WriteInv, LeafInv', UNCHANGED list, NEW t \in Threads, NEW to, NEW g,
         Goto(t, to), SetFrame(t, g) \/ (UNCHANGED frame /\ g = frame[t]),
         to # "idle" => Ready(list, g, to)
  PROVE  WriteInv'
<1>1. DOMAIN pc = Threads /\ DOMAIN frame = Threads
  BY DEF WriteInv, LeafInv, LockInv, Typed, FramesTyped
<1>2. pc'[t] = to /\ frame'[t] = g
  BY <1>1 DEF Goto, SetFrame
<1>3. \A u \in Threads \ {t} : pc'[u] = pc[u] /\ frame'[u] = frame[u]
  BY <1>1 DEF Goto, SetFrame
<1> QED
  BY <1>2, <1>3, WriteOfOne

\* Where leaves are being locked, it is also that the leaf of the slot is one of
\* those to lock.
LEMMA ReadyToLock ==
  ASSUME NEW L, NEW f, NEW at \in {"load", "lock", "check", "plan"}
  PROVE  Ready(L, f, at) <=> /\ f.lo <= LeafId(L, f.index) /\ LeafId(L, f.index) <= f.hi
                             /\ f.info \in {NoInfo, DoubleInfo}
<1>1. at \in {"load", "lock"} \cup Holding /\ at \notin Writing \cup {"release"}
  BY DEF Holding, Writing
<1>2. at # "write" /\ at # "spread" /\ at # "settle"
  OBVIOUS
<1> QED
  BY <1>1, <1>2 DEF Ready

\* The locals of t, and what it knows of its redistribution.
LEMMA LocalsFound ==
  ASSUME WriteInv, NEW t \in Threads, pc[t] # "idle"
  PROVE  /\ frame[t] \in Frames /\ Ready(list, frame[t], pc[t]) /\ IsList(list)
         /\ pc[t] \notin Writing \cup {"release"} => frame[t].info \in {NoInfo, DoubleInfo}
<1>1. frame[t] \in Frames /\ Ready(list, frame[t], pc[t]) /\ IsList(list)
  BY DEF WriteInv, LeafInv, FramesTyped
<1> QED
  BY <1>1 DEF Ready

\* add_edge and remove_edge are called.
LEMMA WriteBegin ==
  ASSUME WriteInv, LeafInv', NEW t \in Threads, Begin(t)
  PROVE  WriteInv'
<1>1. PICK k, s, d, v : SetFrame(t, Frame(k, s, d, v, 0)) /\ Goto(t, "call") /\ UNCHANGED list
  BY DEF Begin, BeginAdd, BeginRemove
<1>2. PICK g : g = Frame(k, s, d, v, 0)
  OBVIOUS
<1>3. g.info \in {NoInfo, DoubleInfo}
  BY <1>2 DEF Frame
<1>4. "call" \in PCs \ ({"load", "lock"} \cup Holding)
  BY DEF PCs, Holding
<1>5. Ready(list, g, "call")
  BY <1>3, <1>4, ReadyEarly
<1> QED
  BY <1>1, <1>2, <1>5, WriteMoves

\* The sections of the global lock are entered, the range of the source is read,
\* and its leaves are locked shared.
LEMMA WriteEnter ==
  ASSUME WriteInv, LeafInv', NEW t \in Threads,
         CallForced(t) \/ Call(t) \/ Snap(t) \/ Upgrade(t) \/ ShareLeaf(t)
  PROVE  WriteInv'
<1>1. pc[t] \in {"call", "snap", "share", "upgrade"} /\ UNCHANGED list
  BY DEF CallForced, Call, Snap, Upgrade, ShareLeaf
<1>2. frame[t] \in Frames /\ frame[t].info \in {NoInfo, DoubleInfo}
  <2>1. pc[t] # "idle" /\ pc[t] \notin Writing \cup {"release"}
    BY <1>1 DEF Writing
  <2> QED
    BY <2>1, LocalsFound
<1>3. \A at \in {"snap", "share", "search", "force"} : at \in PCs \ ({"load", "lock"} \cup Holding)
  BY DEF PCs, Holding
<1>4. ASSUME NEW to \in {"snap", "share", "search", "force"}, NEW g, g.info = frame[t].info,
             Goto(t, to), SetFrame(t, g) \/ (UNCHANGED frame /\ g = frame[t])
      PROVE  WriteInv'
  <2>1. Ready(list, g, to)
    BY <1>2, <1>3, <1>4, ReadyEarly
  <2> QED
    BY <1>1, <1>4, <2>1, WriteMoves
<1>5. CASE CallForced(t) \/ Upgrade(t)
  BY <1>4, <1>5 DEF CallForced, Upgrade
<1>6. CASE Call(t)
  <2>1. PICK x : SetFrame(t, [frame[t] EXCEPT !.beginning = x]) /\ Goto(t, "snap")
    BY <1>6 DEF Call
  <2>2. [frame[t] EXCEPT !.beginning = x].info = frame[t].info
    BY <1>2 DEF Frames
  <2> QED
    BY <1>4, <2>1, <2>2
<1>7. CASE Snap(t)
  <2>1. PICK f, x, y : /\ f = [frame[t] EXCEPT !.end = y]
                       /\ SetFrame(t, [f EXCEPT !.next = x])
                       /\ Goto(t, "share") \/ Goto(t, "search")
    BY <1>7 DEF Snap
  <2>2. [f EXCEPT !.next = x].info = frame[t].info
    BY <1>2, <2>1 DEF Frames
  <2> QED
    BY <1>4, <2>1, <2>2
<1>8. CASE ShareLeaf(t)
  <2>1. PICK x : /\ SetFrame(t, [frame[t] EXCEPT !.next = x])
                 /\ Goto(t, "share") \/ Goto(t, "search")
    BY <1>8 DEF ShareLeaf
  <2>2. [frame[t] EXCEPT !.next = x].info = frame[t].info
    BY <1>2 DEF Frames
  <2> QED
    BY <1>4, <2>1, <2>2
<1> QED
  BY <1>5, <1>6, <1>7, <1>8

\* The call is made again or changes to the exclusive section.
LEMMA WriteOut ==
  ASSUME WriteInv, LeafInv', UNCHANGED list, NEW t \in Threads, pc[t] # "idle",
         \/ CallAgain(t)
         \/ \E info \in {NoInfo, DoubleInfo} : Escalate(t, info)
         \/ Return(t)
  PROVE  WriteInv'
<1>1. frame[t] \in Frames
  BY LocalsFound
<1>2. "call" \in PCs \ ({"load", "lock"} \cup Holding) /\ "upgrade" \in PCs \ ({"load", "lock"} \cup Holding)
  BY DEF PCs, Holding
<1>3. CASE CallAgain(t)
  <2>1. PICK k, s, d, v, n : SetFrame(t, Frame(k, s, d, v, n)) /\ Goto(t, "call")
    BY <1>3 DEF CallAgain
  <2>2. PICK g : g = Frame(k, s, d, v, n)
    OBVIOUS
  <2>3. g.info \in {NoInfo, DoubleInfo}
    BY <2>2 DEF Frame
  <2>4. Ready(list, g, "call")
    BY <1>2, <2>3, ReadyEarly
  <2> QED
    BY <2>1, <2>2, <2>4, WriteMoves
<1>4. CASE \E info \in {NoInfo, DoubleInfo} : Escalate(t, info)
  <2>1. PICK info \in {NoInfo, DoubleInfo} : SetFrame(t, [frame[t] EXCEPT !.info = info])
                                             /\ Goto(t, "upgrade")
    BY <1>4 DEF Escalate
  <2>2. PICK g : g = [frame[t] EXCEPT !.info = info]
    OBVIOUS
  <2>3. g.info = info
    BY <1>1, <2>2 DEF Frames
  <2>4. Ready(list, g, "upgrade")
    BY <1>2, <2>3, ReadyEarly
  <2> QED
    BY <2>1, <2>2, <2>4, WriteMoves
<1>5. CASE Return(t)
  <2>1. SetFrame(t, NoFrame) /\ Goto(t, "idle")
    BY <1>5 DEF Return
  <2> QED
    BY <2>1, WriteMoves
<1> QED
  BY <1>3, <1>4, <1>5

\* The search ends at a slot number.
LEMMA FoundNat ==
  ASSUME LeafInv, NEW t \in Threads, pc[t] # "idle", NEW i \in Found(t)
  PROVE  i \in Nat
<1>1. frame[t] \in Frames
  BY DEF LeafInv, FramesTyped
<1>2. frame[t].beginning + 1 \in Nat /\ frame[t].end \in Nat
  BY <1>1 DEF Frames
<1>3. BinarySearch(list, frame[t].dest, frame[t].beginning + 1, frame[t].end) \in Nat
  BY <1>2, SearchFound
<1>4. Found(t) \subseteq {BinarySearch(list, frame[t].dest, frame[t].beginning + 1, frame[t].end)}
                          \cup frame[t].beginning + 1 .. frame[t].end
  BY DEF Found
<1> QED
  BY <1>2, <1>3, <1>4

\* The locks begin at the leaf of the slot or left of it, and reach that leaf.
LEMMA WriteLocks ==
  ASSUME WriteInv, LeafInv', UNCHANGED list, NEW t \in Threads, pc[t] # "idle",
         frame[t].info \in {NoInfo, DoubleInfo},
         NEW to \in {"load", "lock"}, Goto(t, to), NEW g, SetFrame(t, g),
         NEW lo, lo <= LeafId(list, g.index), g.lo = lo, g.hi = LeafId(list, g.index),
         g.index \in Nat, g.info = frame[t].info
  PROVE  WriteInv'
<1>1. LeafId(list, g.index) \in Nat
  BY LeafFound DEF WriteInv, LeafInv
<1>2. Ready(list, g, to)
  BY <1>1, ReadyToLock
<1> QED
  BY <1>2, WriteMoves

\* The slot is searched.
LEMMA WriteSearch ==
  ASSUME WriteInv, LeafInv', NEW t \in Threads, Search(t)
  PROVE  WriteInv'
<1>1. pc[t] = "search"
  BY DEF Search
<1>2. /\ pc[t] # "idle" /\ frame[t] \in Frames /\ IsList(list)
      /\ frame[t].info \in {NoInfo, DoubleInfo}
  BY <1>1, LocalsFound DEF Writing
<1>3. PICK i \in Found(t) :
        LET node == LeafId(list, i)
            lo == IF frame[t].kind = "add" /\ ~lock_bsearch /\ node > 0 THEN node - 1 ELSE node
        IN  IF \/ lock_bsearch /\ Moved(frame[t])
               \/ ~lock_bsearch /\ frame[t].kind = "add" /\ node < FirstNode(frame[t])
            THEN CallAgain(t) /\ UNCHANGED <<list, exclusive>>
            ELSE /\ SetFrame(t, [frame[t] EXCEPT !.index = i, !.lo = lo, !.hi = node, !.next = lo])
                 /\ Goto(t, IF lock_bsearch THEN "lock" ELSE "load")
                 /\ UNCHANGED <<list, global_lock, exclusive>>
  BY Zenon DEF Search
<1>4. PICK node : node = LeafId(list, i)
  OBVIOUS
<1>5. PICK lo :
         lo = IF frame[t].kind = "add" /\ ~lock_bsearch /\ node > 0 THEN node - 1 ELSE node
  OBVIOUS
<1>6. /\ UNCHANGED <<list, exclusive>>
      /\ \/ CallAgain(t)
         \/ /\ SetFrame(t, [frame[t] EXCEPT !.index = i, !.lo = lo, !.hi = node, !.next = lo])
            /\ Goto(t, "lock") \/ Goto(t, "load")
  <2>1. Goto(t, IF lock_bsearch THEN "lock" ELSE "load") => Goto(t, "lock") \/ Goto(t, "load")
    BY Zenon
  <2> QED
    BY <1>3, <1>4, <1>5, <2>1
<1>7. i \in Nat
  BY <1>2, FoundNat DEF WriteInv
<1>8. node \in Nat /\ lo \in Nat /\ lo <= node
  <2>1. node \in Nat
    BY <1>2, <1>7, <1>4, LeafFound
  <2> QED
    BY <1>5, <2>1
<1>9. CASE CallAgain(t) /\ UNCHANGED <<list, exclusive>>
  BY <1>2, <1>9, WriteOut
<1>10. ASSUME NEW to \in {"load", "lock"}, Goto(t, to), UNCHANGED list,
             SetFrame(t, [frame[t] EXCEPT !.index = i, !.lo = lo, !.hi = node, !.next = lo])
      PROVE  WriteInv'
  <2>1. PICK g : g = [frame[t] EXCEPT !.index = i, !.lo = lo, !.hi = node, !.next = lo]
    OBVIOUS
  <2>2. g.index = i /\ g.lo = lo /\ g.hi = node /\ g.info = frame[t].info
    BY <1>2, <2>1 DEF Frames
  <2>3. lo <= LeafId(list, g.index) /\ g.hi = LeafId(list, g.index) /\ g.index \in Nat
    BY <1>7, <1>8, <1>4, <2>2
  <2>4. SetFrame(t, g)
    BY <1>10, <2>1
  <2> QED
    BY <1>2, <1>10, <2>2, <2>3, <2>4, WriteLocks
<1> QED
  BY <1>6, <1>9, <1>10

\* Its version is loaded, and the first leaves are locked.
LEMMA WriteLock ==
  ASSUME WriteInv, LeafInv', NEW t \in Threads, LoadVersion(t) \/ LockLeaf(t)
  PROVE  WriteInv'
<1>1. pc[t] \in {"load", "lock"} /\ UNCHANGED list
  BY DEF LoadVersion, LockLeaf
<1>2. frame[t] \in Frames /\ Ready(list, frame[t], pc[t])
  BY <1>1, LocalsFound
<1>3. \A to \in {"load", "lock", "check", "plan"} : Ready(list, frame[t], to)
  BY <1>1, <1>2, ReadyToLock
<1>4. CASE LoadVersion(t)
  BY <1>1, <1>3, <1>4, WriteMoves DEF LoadVersion
<1>5. CASE LockLeaf(t)
  <2>1. /\ SetFrame(t, [frame[t] EXCEPT !.next = @ + 1])
        /\ \E to \in {"lock", "check"} : Goto(t, to)
    BY <1>5 DEF LockLeaf
  <2>2. PICK g : g = [frame[t] EXCEPT !.next = @ + 1]
    OBVIOUS
  <2>3. g.index = frame[t].index /\ g.lo = frame[t].lo /\ g.hi = frame[t].hi
        /\ g.info = frame[t].info
    BY <1>2, <2>2 DEF Frames
  <2>4. \A to \in {"lock", "check"} : Ready(list, g, to)
    BY <1>3, <2>3, ReadyToLock
  <2> QED
    BY <1>1, <2>1, <2>2, <2>4, WriteMoves
<1> QED
  BY <1>4, <1>5

\* One leaf more.
LEMMA WriteExtend ==
  ASSUME WriteInv, LeafInv', NEW t \in Threads, pc[t] \in {"check", "plan"}, Extend(t)
  PROVE  WriteInv'
<1>1. frame[t] \in Frames /\ Ready(list, frame[t], pc[t]) /\ IsList(list)
  BY LocalsFound
<1>2. DOMAIN frame = Threads
  BY DEF WriteInv, LeafInv, FramesTyped
<1>3. PICK g : g = [frame[t] EXCEPT !.hi = @ + 1]
  OBVIOUS
<1>4. /\ g.index = frame[t].index /\ g.lo = frame[t].lo /\ g.hi = frame[t].hi + 1
      /\ g.info = frame[t].info /\ frame[t].hi \in Nat /\ frame[t].index \in Nat
  BY <1>1, <1>3 DEF Frames
<1>5. LeafId(list, g.index) \in Nat
  BY <1>1, <1>4, LeafFound
<1>6. Ready(list, g, pc[t])
  <2>1. g.lo <= LeafId(list, g.index) /\ LeafId(list, g.index) <= frame[t].hi
        /\ g.info \in {NoInfo, DoubleInfo}
    BY <1>1, <1>4, ReadyToLock
  <2>2. LeafId(list, g.index) <= g.hi
    BY <1>4, <1>5, <2>1
  <2> QED
    BY <2>1, <2>2, ReadyToLock
<1>7. SetFrame(t, g) /\ UNCHANGED <<list, pc>>
  BY <1>3 DEF Extend
<1>8. frame'[t] = g /\ \A u \in Threads \ {t} : frame'[u] = frame[u]
  BY <1>2, <1>7 DEF SetFrame
<1> QED
  BY <1>6, <1>7, <1>8, WriteOfOne

\* The checks.
LEMMA WriteCheck ==
  ASSUME WriteInv, LeafInv', NEW t \in Threads, CheckInsert(t) \/ CheckRemove(t)
  PROVE  WriteInv'
<1>1. pc[t] = "check"
  BY DEF CheckInsert, CheckRemove
<1>2. Ready(list, frame[t], "plan")
  BY <1>1, LocalsFound, ReadyToLock
<1>3. ASSUME Goto(t, "plan"), UNCHANGED <<list, global_lock, shared, exclusive, frame>>
      PROVE  WriteInv'
  BY <1>2, <1>3, WriteMoves
<1>4. CASE Extend(t)
  BY <1>1, <1>4, WriteExtend
<1>5. CASE Retry(t)
  BY <1>1, <1>5, WriteOut DEF Retry
<1>6. CASE Escalate(t, NoInfo)
  BY <1>1, <1>6, WriteOut DEF Escalate
<1>7. CASE Return(t) /\ UNCHANGED <<list, shared>>
  BY <1>1, <1>7, WriteOut
<1>8. CASE CheckInsert(t)
  BY <1>3, <1>4, <1>5, <1>6, <1>8 DEF CheckInsert
<1>9. CASE CheckRemove(t)
  BY <1>3, <1>4, <1>5, <1>7, <1>9 DEF CheckRemove
<1> QED
  BY <1>8, <1>9

\* NEED_GLOBAL_WRITE asks for a doubling or for nothing.
LEMMA GlobalPlanned ==
  ASSUME NEW L, NEW index, NEW lo, NEW hi
  PROVE  /\ PlanInsert(L, index, lo, hi).do = "global" =>
              PlanInsert(L, index, lo, hi).info \in {NoInfo, DoubleInfo}
         /\ PlanRemove(L, index, lo, hi).do = "global" =>
              PlanRemove(L, index, lo, hi).info \in {NoInfo, DoubleInfo}
<1>1. ASSUME NEW info
      PROVE  PlanSlide(L, index, lo, hi, info).do = "global" =>
               PlanSlide(L, index, lo, hi, info).info = NoInfo
  <2>1. PICK d : d = PlanSlide(L, index, lo, hi, info)
    OBVIOUS
  <2>2. d \in {Lock, Go(info), Global(NoInfo)} \/ \E b : d = Restart(b)
    BY <2>1 DEF PlanSlide
  <2> QED
    BY <2>1, <2>2, DecisionsDiffer
<1>2. PICK d : d = PlanInsert(L, index, lo, hi)
  OBVIOUS
<1>3. \/ d \in {Lock, Global(DoubleInfo)}
      \/ \E b : d = Restart(b)
      \/ \E info : d = PlanSlide(L, index, lo, hi, info)
  BY <1>2 DEF PlanInsert
<1>4. PICK e : e = PlanRemove(L, index, lo, hi)
  OBVIOUS
<1>5. e \in {Lock, Global(NoInfo), Go(NoInfo)} \/ \E b : e = Restart(b)
  BY <1>4 DEF PlanRemove
<1>6. d.do = "global" => d.info \in {NoInfo, DoubleInfo}
  BY <1>1, <1>3, DecisionsDiffer
<1>7. e.do = "global" => e.info \in {NoInfo, DoubleInfo}
  BY <1>5, DecisionsDiffer
<1> QED
  BY <1>2, <1>4, <1>6, <1>7

\* What insert and remove are allowed to do inside the leaf locks.
LEMMA ReadyToWrite ==
  ASSUME WriteInv, KeepsHeight, NEW t \in Threads, pc[t] = "plan", NEW d, d = Decision(t),
         d.do = "go", NEW g, g = [frame[t] EXCEPT !.info = d.info]
  PROVE  Ready(list, g, "write")
<1>1. /\ frame[t] \in Frames /\ IsList(list)
      /\ frame[t].lo <= LeafId(list, frame[t].index)
      /\ LeafId(list, frame[t].index) <= frame[t].hi
  BY LocalsFound, ReadyToLock
<1>2. PICK lo, hi, i, kind : lo = frame[t].lo /\ hi = frame[t].hi /\ i = frame[t].index
                             /\ kind = frame[t].kind
  OBVIOUS
<1>3. lo \in Nat /\ hi \in Nat /\ i \in Nat /\ kind \in {"add", "remove"}
  BY <1>1, <1>2 DEF Frames
<1>4. g.lo = lo /\ g.hi = hi /\ g.index = i /\ g.kind = kind /\ g.info = d.info
  BY <1>1, <1>2 DEF Frames
<1>5. PICK H : H = Locked(list, lo, hi)
  OBVIOUS
<1>6. Height(list.N) > 0
  BY DEF KeepsHeight
<1>7. CASE kind = "add"
  <2>1. d = PlanInsert(list, i, lo, hi)
    BY <1>2, <1>7 DEF Decision
  <2>2. i \in H /\ Room(list, i, H) /\ Spare(list, H) /\ Crowded(list, i, 1, H) /\ Told(d.info, H)
    BY <1>1, <1>2, <1>3, <1>5, <1>6, <2>1, InsertPlanned
  <2> QED
    BY <1>1, <1>2, <1>4, <1>5, <1>7, <2>2 DEF Ready, Writing
<1>8. CASE kind = "remove"
  <2>1. d = PlanRemove(list, i, lo, hi)
    BY <1>2, <1>8 DEF Decision
  <2>2. i \in H /\ Thin(list, i, 1, H)
    BY <1>1, <1>2, <1>3, <1>5, <2>1, RemovePlanned
  <2> QED
    BY <1>1, <1>2, <1>4, <1>5, <1>8, <2>2 DEF Ready, Writing
<1> QED
  BY <1>3, <1>7, <1>8

\* The decision of acquire_insert_locks and acquire_remove_locks is carried out.
LEMMA WritePlan ==
  ASSUME WriteInv, LeafInv', KeepsHeight, NEW t \in Threads, Plan(t)
  PROVE  WriteInv'
<1>1. PICK d : d = Decision(t)
  OBVIOUS
<1>2. /\ pc[t] = "plan"
      /\ \/ d.do = "lock" /\ Extend(t)
         \/ d.do = "restart" /\ Restarted(t, d.from)
         \/ d.do = "global" /\ Escalate(t, d.info)
         \/ /\ d.do = "go"
            /\ SetFrame(t, [frame[t] EXCEPT !.info = d.info])
            /\ Goto(t, "write")
            /\ UNCHANGED <<list, global_lock, shared, exclusive>>
  BY <1>1 DEF Plan
<1>3. /\ frame[t] \in Frames /\ IsList(list) /\ pc[t] # "idle"
      /\ frame[t].info \in {NoInfo, DoubleInfo}
  BY <1>2, LocalsFound DEF Writing
<1>4. frame[t].index \in Nat
  BY <1>3 DEF Frames
<1>5. ASSUME NEW info \in {NoInfo, DoubleInfo}, Escalate(t, info) PROVE WriteInv'
  BY <1>3, <1>5, WriteOut DEF Escalate
<1>6. CASE d.do = "lock" /\ Extend(t)
  BY <1>2, <1>6, WriteExtend
<1>7. CASE d.do = "restart" /\ Restarted(t, d.from)
  <2>1. d.from \in 0 .. LeafId(list, frame[t].index)
    <3>1. d \in Decisions(list, frame[t].index)
      BY <1>1, <1>3, <1>4, PlanInsertFound, PlanRemoveFound DEF Decision
    <3> QED
      BY <1>7, <3>1, DecisionsDiffer DEF Decisions
  <2>2. CASE Escalate(t, NoInfo)
    BY <1>5, <2>2
  <2>3. ASSUME NEW tries, Goto(t, "lock"), UNCHANGED list,
               SetFrame(t, [frame[t] EXCEPT !.tries = tries, !.lo = d.from, !.next = d.from,
                                            !.hi = LeafId(list, frame[t].index)])
        PROVE  WriteInv'
    <3>1. PICK g : g = [frame[t] EXCEPT !.tries = tries, !.lo = d.from, !.next = d.from,
                                        !.hi = LeafId(list, frame[t].index)]
      OBVIOUS
    <3>2. /\ g.index = frame[t].index /\ g.lo = d.from /\ g.info = frame[t].info
          /\ g.hi = LeafId(list, frame[t].index)
      BY <1>3, <3>1 DEF Frames
    <3>3. d.from <= LeafId(list, g.index) /\ g.hi = LeafId(list, g.index) /\ g.index \in Nat
      BY <1>4, <2>1, <3>2
    <3>4. SetFrame(t, g)
      BY <2>3, <3>1
    <3> QED
      BY <1>3, <2>3, <3>2, <3>3, <3>4, WriteLocks
  <2> QED
    BY <1>7, <2>2, <2>3 DEF Restarted
<1>8. CASE d.do = "global" /\ Escalate(t, d.info)
  <2>1. d.info \in {NoInfo, DoubleInfo}
    BY <1>1, <1>8, GlobalPlanned DEF Decision
  <2> QED
    BY <1>5, <1>8, <2>1
<1>9. CASE /\ d.do = "go"
           /\ SetFrame(t, [frame[t] EXCEPT !.info = d.info])
           /\ Goto(t, "write")
           /\ UNCHANGED <<list, global_lock, shared, exclusive>>
  <2>1. PICK g : g = [frame[t] EXCEPT !.info = d.info]
    OBVIOUS
  <2>2. Ready(list, g, "write")
    BY <1>1, <1>2, <1>9, <2>1, ReadyToWrite
  <2> QED
    BY <1>9, <2>1, <2>2, WriteMoves
<1> QED
  BY <1>2, <1>6, <1>7, <1>8, <1>9

\* What a thread that is not writing relies on does not depend on the items.
LEMMA ReadyWaiting ==
  ASSUME NEW L, NEW M, M.N = L.N, NEW f, NEW at, at \notin Writing, Ready(L, f, at)
  PROVE  Ready(M, f, at)
<1>1. LeafId(M, f.index) = LeafId(L, f.index)
  BY DEF LeafId
<1>2. at # "write" /\ at # "spread" /\ at # "settle"
  BY DEF Writing
<1> QED
  BY <1>1, <1>2 DEF Ready

\* Where t writes, with the names that the lemmas above use.
LEMMA WriterFound ==
  ASSUME WriteInv, NEW t \in Threads, pc[t] \in Writing
  PROVE  LET f == frame[t]
         IN  /\ f \in Frames /\ f.lo \in Nat /\ f.hi \in Nat /\ f.index \in Nat
             /\ f.kind \in {"add", "remove"} /\ f.info \in Infos /\ IsList(list)
             /\ exclusive[t] = f.lo .. f.hi /\ f.index \in Locked(list, f.lo, f.hi)
             /\ Ready(list, f, pc[t]) /\ f.index \in Slots(list)
<1>1. pc[t] # "idle" /\ pc[t] \in Holding
  BY DEF Writing, Holding
<1>2. frame[t] \in Frames /\ Ready(list, frame[t], pc[t]) /\ IsList(list) /\ HeldBy(t)
  BY <1>1, LocalsFound DEF WriteInv, LeafInv
<1>3. exclusive[t] = frame[t].lo .. frame[t].hi
  BY <1>1, <1>2 DEF HeldBy
<1>4. frame[t].index \in Locked(list, frame[t].lo, frame[t].hi)
  BY <1>2 DEF Ready
<1>5. frame[t].index \in Slots(list)
  BY <1>4 DEF Locked
<1> QED
  BY <1>2, <1>3, <1>4, <1>5 DEF Frames

\* The element is put or erased, its leaf is evened out, the window that the density
\* asks for is evened out: each inside the leaves that t has locked.
LEMMA WriteLocked ==
  ASSUME WriteInv, NEW t \in Threads, Write(t) \/ SpreadLeaf(t) \/ SettleDensity(t)
  PROVE  /\ Confined(list, list', Locked(list, frame[t].lo, frame[t].hi))
         /\ Ready(list', frame[t], pc'[t])
<1>1. pc[t] \in Writing /\ DOMAIN pc = Threads
  BY DEF Writing, Write, SpreadLeaf, SettleDensity, WriteInv, LeafInv, LockInv, Typed
<1>2. PICK f : f = frame[t]
  OBVIOUS
<1>3. PICK H : H = Locked(list, f.lo, f.hi)
  OBVIOUS
<1>4. /\ f.lo \in Nat /\ f.hi \in Nat /\ f.index \in Nat
      /\ f.kind \in {"add", "remove"} /\ f.info \in Infos /\ IsList(list)
      /\ f.index \in H /\ Ready(list, f, pc[t]) /\ f.index \in Slots(list)
  BY <1>1, <1>2, <1>3, WriterFound
<1>5. f.lo <= LeafId(list, f.index) /\ LeafId(list, f.index) <= f.hi
  BY <1>1, <1>4 DEF Ready, Holding, Writing
<1>6. ASSUME Confined(list, list', H)
      PROVE  /\ H = Locked(list', f.lo, f.hi) /\ LeafId(list', f.index) = LeafId(list, f.index)
  BY <1>3, <1>6 DEF Confined, Reshaped, Locked, Slots, LeafId
<1>7. ASSUME Confined(list, list', H) PROVE Ready(list', f, "release")
  BY <1>5, <1>6, <1>7 DEF Ready, Writing
<1>8. CASE f.kind = "add"
  <2>1. Told(f.info, H)
    BY <1>1, <1>3, <1>4, <1>8 DEF Ready
  <2>2. ASSUME Confined(list, list', H), Crowded(list', f.index, 0, H)
        PROVE  Ready(list', f, "spread")
    BY <1>4, <1>5, <1>6, <1>8, <2>1, <2>2 DEF Ready, Writing
  <2>3. ASSUME Confined(list, list', H) PROVE Ready(list', f, "settle")
    BY <1>4, <1>5, <1>6, <1>8, <2>1, <2>3 DEF Ready, Writing
  <2>4. CASE Write(t)
    <3>1. /\ pc[t] = "write"
          /\ \/ /\ list' = [list EXCEPT !.items[f.index].value = f.value]
                /\ Goto(t, "release")
             \/ list' = Put(list, f.index, Element(f)) /\ Goto(t, "spread")
      BY <1>2, <1>8, <2>4 DEF Write
    <3>2. Room(list, f.index, H) /\ Spare(list, H) /\ Crowded(list, f.index, 1, H)
      BY <1>3, <1>4, <1>8, <3>1 DEF Ready
    <3>3. CASE /\ list' = [list EXCEPT !.items[f.index].value = f.value]
               /\ Goto(t, "release")
      <4>1. Confined(list, list', H) /\ pc'[t] = "release"
        BY <1>1, <1>4, <3>3, UpdateConfined DEF Goto
      <4> QED
        BY <1>2, <1>3, <1>7, <4>1
    <3>4. CASE list' = Put(list, f.index, Element(f)) /\ Goto(t, "spread")
      <4>1. Confined(list, list', H) /\ Crowded(list', f.index, 0, H)
        BY <1>3, <1>4, <3>2, <3>4, PutConfined
      <4>2. pc'[t] = "spread"
        BY <1>1, <3>4 DEF Goto
      <4> QED
        BY <1>2, <1>3, <2>2, <4>1, <4>2
    <3> QED
      BY <3>1, <3>3, <3>4
  <2>5. CASE SpreadLeaf(t)
    <3>1. pc[t] = "spread" /\ pc'[t] = "settle" /\ list' = EvenOut(list, f.index, LogN(list.N))
      BY <1>1, <1>2, <1>8, <2>5 DEF SpreadLeaf, Goto
    <3>2. Crowded(list, f.index, 0, H)
      BY <1>3, <1>4, <1>8, <3>1 DEF Ready
    <3>3. Confined(list, list', H)
      BY <1>3, <1>4, <3>1, <3>2, EvenOutConfined
    <3> QED
      BY <1>2, <1>3, <2>3, <3>1, <3>3
  <2>6. CASE SettleDensity(t)
    <3>1. pc'[t] = "release" /\ list' = Settle(list, FindLeaf(list, f.index), f.info)
      BY <1>1, <1>2, <1>8, <2>6 DEF SettleDensity, Goto
    <3>2. Confined(list, list', H)
      BY <1>3, <1>4, <2>1, <3>1, SettleConfined
    <3> QED
      BY <1>2, <1>3, <1>7, <3>1, <3>2
  <2> QED
    BY <2>4, <2>5, <2>6
<1>9. CASE f.kind = "remove"
  <2>1. ASSUME Confined(list, list', H), NEW to \in {"spread", "settle"},
               Thin(list', f.index, 0, H)
        PROVE  Ready(list', f, to)
    BY <1>4, <1>5, <1>6, <1>9, <2>1 DEF Ready, Writing
  <2>2. CASE Write(t)
    <3>1. pc[t] = "write" /\ pc'[t] = "spread" /\ list' = Erase(list, f.index)
      BY <1>1, <1>2, <1>9, <2>2 DEF Write, Goto
    <3>2. Thin(list, f.index, 1, H)
      BY <1>3, <1>4, <1>9, <3>1 DEF Ready
    <3>3. Confined(list, list', H) /\ Thin(list', f.index, 0, H)
      BY <1>3, <1>4, <3>1, <3>2, ThinErased
    <3> QED
      BY <1>2, <1>3, <2>1, <3>1, <3>3
  <2>3. CASE SpreadLeaf(t)
    <3>1. /\ pc[t] = "spread" /\ pc'[t] = "settle"
          /\ list' = Redistribute(list, FindLeaf(list, f.index), LogN(list.N))
      BY <1>1, <1>2, <1>9, <2>3 DEF SpreadLeaf, Goto
    <3>2. Thin(list, f.index, 0, H)
      BY <1>3, <1>4, <1>9, <3>1 DEF Ready
    <3>3. Confined(list, list', H) /\ Thin(list', f.index, 0, H)
      BY <1>3, <1>4, <3>1, <3>2, ThinSpread
    <3> QED
      BY <1>2, <1>3, <2>1, <3>1, <3>3
  <2>4. CASE SettleDensity(t)
    <3>1. /\ pc[t] = "settle" /\ pc'[t] = "release"
          /\ list' = SettleRemoval(list, FindLeaf(list, f.index))
      BY <1>1, <1>2, <1>9, <2>4 DEF SettleDensity, Goto
    <3>2. Thin(list, f.index, 0, H)
      BY <1>3, <1>4, <1>9, <3>1 DEF Ready
    <3>3. Confined(list, list', H)
      BY <1>3, <1>4, <3>1, <3>2, ThinSettles
    <3> QED
      BY <1>2, <1>3, <1>7, <3>1, <3>3
  <2> QED
    BY <2>2, <2>3, <2>4
<1> QED
  BY <1>4, <1>8, <1>9

\* Nothing that another thread relies on is changed by it.
LEMMA WriteWrites ==
  ASSUME WriteInv, LeafInv', NEW t \in Threads, Write(t) \/ SpreadLeaf(t) \/ SettleDensity(t)
  PROVE  WriteInv'
<1>1. PICK H : H = Locked(list, frame[t].lo, frame[t].hi)
  OBVIOUS
<1>2. Confined(list, list', H) /\ Ready(list', frame[t], pc'[t])
  BY <1>1, WriteLocked
<1>3. pc[t] \in Writing /\ DOMAIN pc = Threads /\ LeafExclusion
  BY DEF Writing, Write, SpreadLeaf, SettleDensity, WriteInv, LeafInv, LockInv, Typed
<1>4. UNCHANGED frame /\ \A u \in Threads \ {t} : pc'[u] = pc[u]
  BY <1>3 DEF Write, SpreadLeaf, SettleDensity, Goto
<1>5. exclusive[t] = frame[t].lo .. frame[t].hi /\ list'.N = list.N
  BY <1>2, <1>3, WriterFound DEF Confined, Reshaped
<1>6. ASSUME NEW u \in Threads \ {t}, pc[u] # "idle" PROVE Ready(list', frame[u], pc[u])
  <2>1. Ready(list, frame[u], pc[u])
    BY <1>6, LocalsFound
  <2>2. CASE pc[u] \notin Writing
    BY <1>5, <2>1, <2>2, ReadyWaiting
  <2>3. CASE pc[u] \in Writing
    <3>1. /\ frame[u].lo \in Nat /\ frame[u].hi \in Nat /\ frame[u].index \in Nat /\ IsList(list)
          /\ exclusive[u] = frame[u].lo .. frame[u].hi
      BY <2>3, WriterFound
    <3>2. exclusive[u] \cap exclusive[t] = {}
      BY <1>3 DEF LeafExclusion
    <3>3. \A p \in Locked(list, frame[u].lo, frame[u].hi) : p \in Slots(list) \ H
      BY <1>1, <1>5, <3>1, <3>2 DEF Locked
    <3>4. \A p \in Locked(list, frame[u].lo, frame[u].hi) : list'.items[p] = list.items[p]
      BY <1>2, <3>3 DEF Confined
    <3> QED
      BY <1>5, <2>1, <3>1, <3>4, ReadyElsewhere
  <2> QED
    BY <2>2, <2>3
<1> QED
  BY <1>2, <1>4, <1>6 DEF WriteInv

\* release_locks: the call returns, and the searches of its leaves become stale.
LEMMA WriteRelease ==
  ASSUME WriteInv, LeafInv', NEW t \in Threads, ReleaseLocks(t)
  PROVE  WriteInv'
<1>1. DOMAIN pc = Threads
  BY DEF WriteInv, LeafInv, LockInv, Typed
<1>2. UNCHANGED list /\ pc'[t] = "idle" /\ \A u \in Threads \ {t} : pc'[u] = pc[u]
  BY <1>1 DEF ReleaseLocks, Goto
<1>3. \A u \in Threads \ {t} : frame'[u] = frame[u] \/ frame'[u] = [frame[u] EXCEPT !.fresh = FALSE]
  BY DEF ReleaseLocks
<1> QED
  BY <1>2, <1>3, WriteOfOne

\* insert and remove in the exclusive section, where nobody has locked a leaf.
LEMMA WriteResize ==
  ASSUME WriteInv, LeafInv', NEW t \in Threads, WriteAlone(t)
  PROVE  WriteInv'
<1>1. /\ pc[t] = "force" /\ Goto(t, "unlock") /\ UNCHANGED frame
      /\ LockInv /\ pc \in [Threads -> PCs]
  BY DEF WriteAlone, WriteInv, LeafInv, LockInv, Typed
<1>2. global_lock[t] = "exclusive"
  BY <1>1 DEF LockInv, ModeFollowsPc, Alone
<1>3. ASSUME NEW u \in Threads \ {t} PROVE pc[u] \in Outside
  <2>1. global_lock[u] = "none"
    BY <1>1, <1>2 DEF LockInv, GlobalExclusion
  <2>2. pc[u] \notin Inside \cup Alone
    BY <1>1, <2>1 DEF LockInv, ModeFollowsPc
  <2> QED
    BY <1>1, <2>2 DEF PCs, Inside, Alone, Outside
<1>4. /\ {"call", "upgrade", "force", "unlock"} \subseteq PCs \ ({"load", "lock"} \cup Holding)
      /\ {"call", "upgrade", "force", "unlock"} \cap (Writing \cup {"release"}) = {}
  BY DEF PCs, Holding, Writing
<1>5. ASSUME NEW u \in Threads, pc'[u] # "idle" PROVE Ready(list', frame'[u], pc'[u])
  <2>1. /\ pc[u] \in {"call", "upgrade", "force"} /\ pc'[u] \in {"call", "upgrade", "unlock"}
        /\ frame'[u] = frame[u]
    BY <1>1, <1>3, <1>5 DEF Goto, Outside
  <2>2. frame[u].info \in {NoInfo, DoubleInfo}
    BY <1>4, <2>1, LocalsFound
  <2> QED
    BY <1>4, <2>1, <2>2, ReadyEarly
<1> QED
  BY <1>5 DEF WriteInv

\* Every step keeps it, where the list has more than one leaf.
LEMMA WriteStep == WriteInv /\ KeepsHeight /\ [Next]_vars => WriteInv'
<1> SUFFICES ASSUME WriteInv, KeepsHeight, [Next]_vars PROVE WriteInv'
  OBVIOUS
<1>1. LeafInv'
  BY LeafStep DEF WriteInv
<1>2. CASE UNCHANGED vars
  <2>1. UNCHANGED <<list, pc, frame>>
    BY <1>2 DEF vars
  <2> QED
    BY <1>1, <2>1 DEF WriteInv
<1>3. CASE AddVertex
  BY <1>1, <1>3 DEF WriteInv, AddVertex
<1>4. ASSUME NEW t \in Threads, Begin(t) PROVE WriteInv'
  BY <1>1, <1>4, WriteBegin
<1>5. ASSUME NEW t \in Threads, Continue(t) PROVE WriteInv'
  <2>1. CASE CallForced(t) \/ Call(t) \/ Snap(t) \/ Upgrade(t) \/ ShareLeaf(t)
    BY <1>1, <2>1, WriteEnter
  <2>2. CASE Search(t)
    BY <1>1, <2>2, WriteSearch
  <2>3. CASE LoadVersion(t) \/ LockLeaf(t)
    BY <1>1, <2>3, WriteLock
  <2>4. CASE CheckInsert(t) \/ CheckRemove(t)
    BY <1>1, <2>4, WriteCheck
  <2>5. CASE Plan(t)
    BY <1>1, <2>5, WritePlan
  <2>6. CASE Write(t) \/ SpreadLeaf(t) \/ SettleDensity(t)
    BY <1>1, <2>6, WriteWrites
  <2>7. CASE ReleaseLocks(t)
    BY <1>1, <2>7, WriteRelease
  <2>8. CASE WriteAlone(t)
    BY <1>1, <2>8, WriteResize
  <2>9. CASE Unlock(t)
    BY <1>1, <2>9, WriteOut DEF Unlock
  <2> QED
    BY <1>5, <2>1, <2>2, <2>3, <2>4, <2>5, <2>6, <2>7, <2>8, <2>9 DEF Continue
<1> QED
  BY <1>2, <1>3, <1>4, <1>5 DEF Next

\* No thread relies on anything at first.
LEMMA WriteInit == Init => WriteInv
BY LeafInit, SMTT(30) DEF WriteInv, Init

\* A thread that is writing is moved by its writes only.
LEMMA WriterMoves ==
  ASSUME WriteInv, [Next]_vars, NEW t \in Threads, pc[t] \in Writing, pc'[t] # pc[t]
  PROVE  Write(t) \/ SpreadLeaf(t) \/ SettleDensity(t)
<1>1. DOMAIN pc = Threads
  BY DEF WriteInv, LeafInv, LockInv, Typed
<1>2. pc[t] \in {"write", "spread", "settle"}
  BY DEF Writing
<1>3. ~UNCHANGED vars /\ ~AddVertex
  BY <1>2 DEF vars, AddVertex
<1>4. ASSUME NEW u \in Threads, Begin(u) PROVE u # t /\ pc'[t] = pc[t]
  BY <1>1, <1>2, <1>4 DEF Begin, BeginAdd, BeginRemove, Goto
<1>5. ASSUME NEW u \in Threads, Continue(u), u # t PROVE pc'[t] = pc[t]
  <2>1. (\E to : Goto(u, to)) \/ UNCHANGED pc
    <3>1. CASE CallForced(u) \/ Call(u) \/ Snap(u) \/ Upgrade(u) \/ ShareLeaf(u) \/ LoadVersion(u)
               \/ LockLeaf(u) \/ ReleaseLocks(u) \/ WriteAlone(u) \/ Unlock(u)
      BY <3>1 DEF CallForced, Call, Snap, Upgrade, ShareLeaf, LoadVersion, LockLeaf,
                  ReleaseLocks, WriteAlone, Unlock, Return
    <3>2. CASE Write(u) \/ SpreadLeaf(u) \/ SettleDensity(u)
      BY <3>2 DEF Write, SpreadLeaf, SettleDensity
    <3>3. CASE Search(u)
      BY <3>3 DEF Search, CallAgain
    <3>4. CASE CheckInsert(u) \/ CheckRemove(u)
      BY <3>4 DEF CheckInsert, CheckRemove, Retry, CallAgain, Escalate, Extend, Return
    <3>5. CASE Plan(u)
      BY <3>5 DEF Plan, Extend, Restarted, Escalate
    <3> QED
      BY <1>5, <3>1, <3>2, <3>3, <3>4, <3>5 DEF Continue
  <2> QED
    BY <1>1, <1>5, <2>1 DEF Goto
<1>6. Continue(t)
  BY <1>3, <1>4, <1>5 DEF Next
<1> QED
  BY <1>2, <1>6, ZenonT(30) DEF Continue, CallForced, Call, Snap, Upgrade, ShareLeaf, Search, LoadVersion,
                    LockLeaf, CheckInsert, CheckRemove, Plan, ReleaseLocks, WriteAlone, Unlock

\* A write changes only slots of the leaves that its thread has locked.
LEMMA WriteStepLocked ==
  ASSUME WriteInv, [Next]_vars, NEW t \in Threads, pc[t] \in Writing, pc'[t] # pc[t]
  PROVE  /\ list'.N = list.N
         /\ \A p \in Slots(list) : list'.items[p] # list.items[p] => LeafId(list, p) \in exclusive[t]
<1>1. Confined(list, list', Locked(list, frame[t].lo, frame[t].hi))
  BY WriterMoves, WriteLocked
<1>2. exclusive[t] = frame[t].lo .. frame[t].hi
  BY WriterFound
<1> QED
  BY <1>1, <1>2 DEF Confined, Reshaped, Locked

----------------------------------------------------------------------------
(* The list never fills up and never shrinks to a single leaf.             *)

\* Some slot is free.
Spacious(L) == \E p \in Slots(L) : IsNull(L.items[p])

\* The same by the number of elements.
LEMMA SpaciousFound ==
  ASSUME NEW L, IsList(L)
  PROVE  /\ Spacious(L) <=> Full(L, 0, L.N) < L.N
         /\ Full(L, 0, L.N) \in Nat /\ Full(L, 0, L.N) <= L.N
         /\ Slots(L) = Window(0, L.N) /\ Full(L, 0, L.N) = Cardinality(Taken(L, Slots(L)))
<1>1. L.N \in Nat \ {0} /\ IsFiniteSet(Slots(L)) /\ Cardinality(Slots(L)) = L.N
  BY SlotsFound
<1>2. Slots(L) = Window(0, L.N)
  BY <1>1 DEF Slots, Window
<1>3. Full(L, 0, L.N) = Cardinality(Taken(L, Slots(L))) /\ Full(L, 0, L.N) \in Nat
  BY <1>1, <1>2, FullFound
<1>4. Taken(L, Slots(L)) \subseteq Slots(L)
  BY DEF Taken
<1>5. Cardinality(Taken(L, Slots(L))) <= L.N
  BY <1>1, <1>4, FS_Subset
<1>6. ASSUME Spacious(L) PROVE Cardinality(Taken(L, Slots(L))) < L.N
  <2>1. Taken(L, Slots(L)) # Slots(L)
    BY <1>6 DEF Spacious, Taken
  <2>2. Cardinality(Taken(L, Slots(L))) # L.N
    BY <1>1, <1>4, <2>1, FS_Subset
  <2> QED
    BY <1>1, <1>3, <1>5, <2>2
<1>7. ASSUME ~Spacious(L) PROVE Cardinality(Taken(L, Slots(L))) = L.N
  <2>1. Taken(L, Slots(L)) = Slots(L)
    BY <1>7 DEF Spacious, Taken
  <2> QED
    BY <1>1, <2>1
<1> QED
  BY <1>1, <1>2, <1>3, <1>5, <1>6, <1>7

\* A window that has room is a list that has room.
LEMMA WindowSpacious ==
  ASSUME NEW L, NEW s \in Nat, NEW n \in Nat \ {0}, Window(s, n) \subseteq Slots(L), Full(L, s, n) < n
  PROVE  Spacious(L)
<1>1. /\ IsFiniteSet(Window(s, n)) /\ Cardinality(Window(s, n)) = n
      /\ Full(L, s, n) = Cardinality(Taken(L, Window(s, n)))
  BY FullFound
<1>2. Taken(L, Window(s, n)) # Window(s, n)
  BY <1>1
<1> QED
  BY <1>2 DEF Spacious, Taken

\* redistribute keeps room.
LEMMA RedistributeSpacious ==
  ASSUME NEW L, IsList(L), NEW index \in Nat, NEW len \in Nat \ {0},
         Window(index, len) \subseteq Slots(L), Spacious(L)
  PROVE  Spacious(Redistribute(L, index, len))
<1>1. PICK M : M = Redistribute(L, index, len)
  OBVIOUS
<1>2. Reshaped(L, M, L.N)
  BY <1>1, RedistributeShape
<1>3. L.N \in Nat \ {0} /\ Slots(L) = Window(0, L.N) /\ Full(L, 0, L.N) < L.N
  BY SlotsFound, SpaciousFound
<1>4. Full(M, 0, L.N) = Full(L, 0, L.N)
  BY <1>1, <1>3, RedistributeCount
<1> QED
  BY <1>1, <1>2, <1>3, <1>4, SpaciousFound DEF Reshaped

\* A doubled list has room.
LEMMA DoubleSpacious ==
  ASSUME NEW L, IsList(L)
  PROVE  Spacious(DoubleList(L))
<1>1. PICK M : M = DoubleList(L)
  OBVIOUS
<1>2. Reshaped(L, M, 2 * L.N)
  BY <1>1, DoubleShape
<1>3. PICK g : Follows(L, M, Slots(L), Slots(M), g)
  BY <1>1, DoubleKeeps DEF Keeps
<1>4. /\ IsFiniteSet(Slots(L)) /\ Slots(L) \in SUBSET Int /\ Slots(M) \in SUBSET Int
      /\ L.N \in Nat \ {0} /\ IsList(M)
  BY <1>2, SlotsFound DEF Reshaped
<1>5. Cardinality(Taken(M, Slots(M))) = Cardinality(Taken(L, Slots(L)))
  BY <1>3, <1>4, FollowsCount
<1>6. Full(M, 0, M.N) <= L.N
  BY <1>4, <1>5, SpaciousFound
<1> QED
  BY <1>1, <1>2, <1>4, <1>6, SpaciousFound DEF Reshaped

\* A list that is halved for want of elements has room.
LEMMA HalfSpacious ==
  ASSUME NEW L, IsList(L), Height(L.N) > 0, 4 * Full(L, 0, L.N) < L.N
  PROVE  /\ Spacious(HalfList(L))
         /\ Full(HalfList(L), 0, HalfList(L).N) = Full(L, 0, L.N)
<1>1. PICK M : M = HalfList(L)
  OBVIOUS
<1>2. Reshaped(L, M, L.N \div 2)
  BY <1>1, HalfShape
<1>3. /\ IsFiniteSet(Slots(L)) /\ Slots(L) \in SUBSET Int /\ Slots(M) \in SUBSET Int
      /\ L.N \in Nat \ {0} /\ IsList(M) /\ Full(L, 0, L.N) \in Nat
  BY <1>2, SlotsFound, SpaciousFound DEF Reshaped
<1>4. Cardinality(Elements(L)) = Full(L, 0, L.N)
  BY DEF Elements, Full
<1>5. PICK g : Follows(L, M, Slots(L), Slots(M), g)
  <2>1. 2 * Cardinality(Elements(L)) <= L.N
    BY <1>3, <1>4
  <2> QED
    BY <1>1, <2>1, HalfKeeps DEF Keeps
<1>6. Cardinality(Taken(M, Slots(M))) = Cardinality(Taken(L, Slots(L)))
  BY <1>3, <1>5, FollowsCount
<1>7. Full(M, 0, M.N) = Full(L, 0, L.N)
  BY <1>3, <1>6, SpaciousFound
<1>8. Full(L, 0, L.N) < L.N \div 2
  <2>1. L.N >= 8
    BY LeafLength DEF IsList
  <2> QED
    BY <1>3, <2>1
<1> QED
  BY <1>1, <1>2, <1>3, <1>7, <1>8, SpaciousFound DEF Reshaped

\* A window within its density has room.
LEMMA LevelSpacious ==
  ASSUME NEW L, IsList(L), Height(L.N) > 0, NEW leaf \in Slots(L), NEW j \in 0 .. Height(L.N),
         ~DenseAt(L, leaf, j, 0)
  PROVE  Spacious(L)
<1>1. Height(L.N) \in Nat \ {0} /\ leaf \in Nat /\ j \in Nat
  BY LeafLength DEF IsList, Slots
<1>2. PICK s, n : s = StartAt(L, leaf, j) /\ n = LenAt(L, j)
  OBVIOUS
<1>3. s \in Nat /\ n \in Nat \ {0}
  BY <1>1, <1>2, LevelFound
<1>4. Window(s, n) \subseteq Slots(L)
  <2>1. j \in 0 .. j
    BY <1>1
  <2> QED
    BY <1>2, <2>1, LevelsNest
<1>5. Full(L, s, n) < n
  <2>1. Full(L, s, n) \in Nat
    BY <1>3, FullFound
  <2>2. ~TooDense(L, Full(L, s, n), n, Height(L.N) - j)
    <3>1. Full(L, s, n) + 0 = Full(L, s, n)
      BY <2>1
    <3> QED
      BY <1>2, <3>1 DEF DenseAt
  <2> QED
    BY <1>1, <1>3, <2>1, <2>2, DensityFound
<1> QED
  BY <1>3, <1>4, <1>5, WindowSpacious

\* Where insert has no window to redistribute, the density decides, and there is
\* room when it has done so, however full the list was.
LEMMA SettleSpacious ==
  ASSUME NEW L, IsList(L), Height(L.N) > 0, NEW leaf \in Slots(L),
         NEW info \in {NoInfo, DoubleInfo}
  PROVE  Spacious(Settle(L, leaf, info))
<1>1. CASE info = DoubleInfo
  BY <1>1, DoubleSpacious DEF Settle, DoubleInfo
<1>2. CASE info = NoInfo
  <2>1. PICK j : j = InsertLevel(L, leaf)
    OBVIOUS
  <2>2. j \in 0 .. Height(L.N) + 1 /\ Height(L.N) \in Nat /\ leaf \in Nat
    <3>1. j \in 0 .. Height(L.N) + 1
      BY <2>1, InsertLevelFound
    <3>2. Height(L.N) \in Nat
      BY LeafLength DEF IsList
    <3> QED
      BY <3>1, <3>2 DEF Slots
  <2>3. Settle(L, leaf, info) = IF j > Height(L.N) THEN DoubleList(L)
                                ELSE IF j = 0 THEN L
                                ELSE Redistribute(L, StartAt(L, leaf, j), LenAt(L, j))
    BY <1>2, <2>1 DEF Settle, NoInfo, Rebalance
  <2>4. CASE j > Height(L.N)
    BY <2>3, <2>4, DoubleSpacious
  <2>5. CASE j \in 0 .. Height(L.N)
    <3>1. Spacious(L)
      BY <2>1, <2>2, <2>5, InsertLevelFound, LevelSpacious
    <3>2. Spacious(Redistribute(L, StartAt(L, leaf, j), LenAt(L, j)))
      <4>1. StartAt(L, leaf, j) \in Nat /\ LenAt(L, j) \in Nat \ {0}
        BY <2>2, LevelFound
      <4>2. Window(StartAt(L, leaf, j), LenAt(L, j)) \subseteq Slots(L)
        <5>1. j \in 0 .. j
          BY <2>2
        <5> QED
          BY <2>5, <5>1, LevelsNest
      <4> QED
        BY <3>1, <4>1, <4>2, RedistributeSpacious
    <3> QED
      BY <2>2, <2>3, <2>5, <3>1, <3>2
  <2> QED
    BY <2>2, <2>4, <2>5
<1> QED
  BY <1>1, <1>2

\* So insert in the exclusive section ends with room.
LEMMA DepositSpacious ==
  ASSUME NEW L, IsList(L), Height(L.N) > 0, NEW i \in Slots(L), NEW elem,
         NEW info \in {NoInfo, DoubleInfo}
  PROVE  Spacious(Deposit(L, i, elem, info))
<1>1. LogN(L.N) \in Nat \ {0} /\ i \in Nat /\ L.N \in Nat /\ L.N >= 8 /\ i < L.N
  BY LeafLength, SlotsFound, SMTT(30) DEF IsList, Slots
<1>2. PICK len, written : len = LogN(L.N) /\ written = Put(L, i, elem)
  OBVIOUS
<1>3. PICK even, leaf : /\ even = EvenOut(written, i, len)
                        /\ leaf = SpreadWindow(written, i, len).start
  OBVIOUS
<1>4. Deposit(L, i, elem, info) = Settle(even, leaf, info)
  BY <1>2, <1>3 DEF Deposit
<1>5. Grown(L, written)
  BY <1>1, <1>2, PutShape
<1>6. Reshaped(written, even, written.N)
  BY <1>1, <1>2, <1>3, <1>5, EvenOutShape DEF Grown
<1>7. even.N \in Nat /\ even.N >= 8 /\ IsList(even) /\ i < even.N
  BY <1>1, <1>5, <1>6, SlotsFound DEF Grown, Reshaped
<1>8. Height(even.N) > 0
  BY <1>7, LeafLength DEF IsList
<1>9. leaf \in Slots(even)
  <2>1. leaf \in Nat /\ leaf <= i
    BY <1>1, <1>2, <1>3, SpreadWindowFound
  <2> QED
    BY <1>1, <1>7, <2>1 DEF Slots
<1> QED
  BY <1>4, <1>7, <1>8, <1>9, SettleSpacious

\* After a doubling every range ends inside the list.
LEMMA DoubleEnds ==
  ASSUME NEW L, IsList(L), NEW v \in Vertices(L), L.nodes[v].end <= L.N
  PROVE  DoubleList(L).nodes[v].end < DoubleList(L).N
<1> DEFINE wide == [p \in 0 .. 2 * L.N - 1 |-> IF p < L.N THEN L.items[p] ELSE Null]
           M == [N |-> 2 * L.N, items |-> wide, nodes |-> L.nodes]
<1>1. PICK items : items = Spread(M, 0, 2 * L.N)
  OBVIOUS
<1>2. PICK at : at = SentinelsAt(items, Window(0, 2 * L.N))
  OBVIOUS
<1>3. L.N \in Nat \ {0} /\ L.nodes[v].end \in Nat
  BY SlotsFound, NodesFound
<1>4. /\ DoubleList(L).nodes = FixSentinels(L.nodes, at, 2 * L.N)
      /\ DoubleList(L).N = 2 * L.N
  BY <1>1, <1>2 DEF DoubleList, Redistribute
<1>5. \A w \in DOMAIN at : at[w] \in Window(0, 2 * L.N)
  BY <1>2, SentinelsFound
<1>6. \A w \in DOMAIN at : at[w] < 2 * L.N
  BY <1>3, <1>5 DEF Window
<1>7. PICK last : last = Cardinality(DOMAIN L.nodes) - 1
  OBVIOUS
<1>8. FixSentinels(L.nodes, at, 2 * L.N)[v].end
        = IF v = last THEN IF v \in DOMAIN at THEN 2 * L.N - 1 ELSE L.nodes[v].end
          ELSE IF v + 1 \in DOMAIN at THEN at[v + 1] ELSE L.nodes[v].end
  BY <1>7 DEF FixSentinels, Vertices
<1>9. 2 * L.N - 1 < 2 * L.N /\ L.nodes[v].end < 2 * L.N
  BY <1>3
<1> QED
  BY <1>4, <1>6, <1>8, <1>9

\* The whole insert in the exclusive section.
LEMMA InsertSpacious ==
  ASSUME NEW L, IsList(L), Height(L.N) > 0, Spacious(L), NEW i \in Slots(L), NEW elem,
         NEW src \in Vertices(L), L.nodes[src].end <= L.N,
         NEW info \in {NoInfo, DoubleInfo}
  PROVE  Spacious(Insert(L, i, elem, src, info))
<1>1. CASE Present(L, i, elem)
  <2>1. Insert(L, i, elem, src, info) = [L EXCEPT !.items[i].value = elem.value]
    BY <1>1 DEF Insert
  <2>2. PICK x \in Slots(L) : IsNull(L.items[x])
    BY DEF Spacious
  <2>3. x # i
    BY <1>1, <2>2 DEF Present
  <2>4. PICK e : e = [L.items[i] EXCEPT !.value = elem.value]
    OBVIOUS
  <2>5. DOMAIN L.items = Slots(L) /\ i \in DOMAIN L.items
    BY DEF IsList
  <2>6. [L EXCEPT !.items[i].value = elem.value] = [L EXCEPT !.items[i] = e]
    BY <2>4, <2>5 DEF IsList
  <2>7. Wrote(L, Insert(L, i, elem, src, info), i, e)
    BY <2>1, <2>6 DEF Wrote
  <2>8. PICK M : M = Insert(L, i, elem, src, info)
    OBVIOUS
  <2>9. Reshaped(L, M, L.N) /\ M.items[x] = L.items[x]
    BY <2>2, <2>3, <2>7, <2>8, WriteItems
  <2> QED
    BY <2>2, <2>8, <2>9 DEF Spacious, Reshaped, Slots
<1>2. CASE ~Present(L, i, elem) /\ ~IsNull(L.items[i]) /\ i = L.N - 1
  <2>1. PICK D, k : D = DoubleList(L) /\ k = FindEdge(D, src, elem.dest)
    OBVIOUS
  <2>2. Insert(L, i, elem, src, info) = Deposit(D, k, elem, NoInfo)
    BY <1>2, <2>1 DEF Insert
  <2>3. Reshaped(L, D, 2 * L.N)
    BY <2>1, DoubleShape
  <2>4. IsList(D) /\ src \in Vertices(D) /\ D.N = 2 * L.N
    BY <2>3 DEF Reshaped
  <2>5. Height(D.N) > 0
    <3>1. L.N \in Nat /\ L.N >= 8
      BY LeafLength, SlotsFound DEF IsList
    <3> QED
      BY <2>4, <3>1, LeafLength DEF IsList
  <2>6. D.nodes[src].beginning + 1 \in Nat /\ D.nodes[src].end \in Nat
    BY <2>4, NodesFound
  <2>7. k \in Nat /\ k <= D.nodes[src].end
    BY <2>1, <2>6, SearchFound DEF FindEdge
  <2>8. D.nodes[src].end < D.N
    BY <2>1, DoubleEnds
  <2>9. k \in Slots(D)
    <3>1. D.N \in Nat
      BY <2>4, SlotsFound
    <3> QED
      BY <2>6, <2>7, <2>8, <3>1 DEF Slots
  <2> QED
    BY <2>2, <2>4, <2>5, <2>9, DepositSpacious
<1>3. CASE ~Present(L, i, elem) /\ ~(~IsNull(L.items[i]) /\ i = L.N - 1)
  <2>1. Insert(L, i, elem, src, info) = Deposit(L, i, elem, info)
    BY <1>3 DEF Insert
  <2> QED
    BY <2>1, DepositSpacious
<1> QED
  BY <1>1, <1>2, <1>3

\* A list whose every window is too sparse is less than a quarter full.
LEMMA SparseRoot ==
  ASSUME NEW R, IsList(R), Height(R.N) > 0, NEW leaf \in Slots(R),
         RemoveLevel(R, leaf) > Height(R.N)
  PROVE  4 * Full(R, 0, R.N) < R.N
<1>1. Height(R.N) \in Nat \ {0} /\ R.N \in Nat \ {0} /\ leaf \in Nat /\ leaf < R.N
  <2>1. Height(R.N) \in Nat
    BY LeafLength DEF IsList
  <2>2. R.N \in Nat \ {0}
    BY SlotsFound
  <2> QED
    BY <2>1, <2>2 DEF Slots
<1>2. SparseAt(R, leaf, Height(R.N), 0)
  <2>1. Height(R.N) \in 0 .. Height(R.N) /\ Height(R.N) < RemoveLevel(R, leaf)
    <3>1. RemoveLevel(R, leaf) \in 0 .. Height(R.N) + 1
      BY RemoveLevelFound
    <3> QED
      BY <1>1, <3>1
  <2> QED
    BY <2>1, RemoveLevelFound
<1>3. LenAt(R, Height(R.N)) = R.N
  <2>1. Height(R.N) \in 0 .. Height(R.N) /\ 0 \in 0 .. Height(R.N)
    BY <1>1
  <2> QED
    BY <2>1, Levels
<1>4. StartAt(R, leaf, Height(R.N)) = 0
  <2>1. leaf \div R.N = 0
    BY <1>1
  <2> QED
    BY <1>1, <1>3, <2>1 DEF StartAt, FindNode
<1>5. Full(R, 0, R.N) \in Nat
  BY SpaciousFound
<1>6. PICK h \in Nat \ {0}, f \in Nat, n \in Nat \ {0} :
        h = Height(R.N) /\ f = Full(R, 0, R.N) /\ n = R.N
  BY <1>1, <1>5
<1>7. 8 * h * (f - 0) < n * (2 * h - (h - h))
  BY <1>2, <1>3, <1>4, <1>6 DEF SparseAt, TooSparse
<1>8. f - 0 = f /\ 2 * h - (h - h) = 2 * h
  OBVIOUS
<1>9. \A a, b \in Nat, c \in Nat \ {0} : 8 * c * a < b * (2 * c) => 4 * a < b
  <2>1. ASSUME NEW a \in Nat, NEW b \in Nat, NEW c \in Nat \ {0}, b <= 4 * a
        PROVE  b * (2 * c) <= 8 * c * a
    <3>1. \A x, y, z \in Nat : x <= y => x * z <= y * z
      OBVIOUS
    <3>2. b * (2 * c) <= (4 * a) * (2 * c)
      BY <2>1, <3>1
    <3>3. (4 * a) * (2 * c) = 8 * c * a
      OBVIOUS
    <3> QED
      BY <3>2, <3>3
  <2> QED
    BY <2>1
<1> QED
  BY <1>6, <1>7, <1>8, <1>9

\* remove in the exclusive section keeps room too; it halves a list only where
\* what is left of it fills less than half of the half.
LEMMA RemoveSpacious ==
  ASSUME NEW L, IsList(L), Height(L.N) > 0, Spacious(L), NEW i \in Slots(L), NEW dest
  PROVE  LET M == Remove(L, i, dest)
         IN  Spacious(M) /\ (M.N = L.N \/ (2 * M.N = L.N /\ 4 * Full(M, 0, M.N) < L.N))
<1>1. /\ LogN(L.N) \in Nat \ {0} /\ Height(L.N) \in Nat \ {0} /\ i \in Nat /\ i < L.N
      /\ L.N \in Nat \ {0} /\ L.N >= 8
  BY LeafLength, SlotsFound, SMTT(30) DEF IsList, Slots
<1>2. PICK E : E = Erase(L, i)
  OBVIOUS
<1>3. PICK leaf : leaf = FindLeaf(L, i)
  OBVIOUS
<1>4. leaf \in Nat /\ leaf <= i /\ leaf \in Slots(L)
  <2>1. leaf \in Nat /\ leaf <= i
    BY <1>1, <1>3, NodeFound DEF FindLeaf
  <2> QED
    BY <1>1, <2>1 DEF Slots
<1>5. PICK R : R = Redistribute(E, leaf, LogN(L.N))
  OBVIOUS
<1>6. Wrote(L, E, i, Null)
  BY <1>2 DEF Erase, Wrote
<1>7. Reshaped(L, E, L.N) /\ IsNull(E.items[i])
  BY <1>6, WriteItems DEF Null, IsNull
<1>8. Spacious(E)
  BY <1>7 DEF Spacious, Reshaped, Slots
<1>9. Reshaped(L, R, L.N) /\ Spacious(R)
  <2>1. Window(leaf, LogN(L.N)) \subseteq Slots(E)
    <3>1. 0 \in 0 .. Height(L.N) /\ 0 \in 0 .. 0
      BY <1>1
    <3>2. LenAt(L, 0) = LogN(L.N)
      BY <3>1, Levels
    <3>3. StartAt(L, i, 0) = leaf
      BY <1>3, <3>2 DEF StartAt, FindLeaf
    <3>4. Window(leaf, LogN(L.N)) \subseteq Slots(L)
      BY <3>1, <3>2, <3>3, LevelsNest
    <3> QED
      BY <1>7, <3>4 DEF Reshaped, Slots
  <2>2. IsList(E) /\ E.N = L.N
    BY <1>7 DEF Reshaped
  <2>3. Reshaped(E, R, E.N)
    BY <1>4, <1>5, <2>2, RedistributeShape
  <2>4. Reshaped(L, R, L.N)
    BY <1>7, <2>2, <2>3, ReshapedTwice
  <2>5. Spacious(R)
    BY <1>1, <1>4, <1>5, <1>8, <2>1, <2>2, RedistributeSpacious
  <2> QED
    BY <2>4, <2>5
<1>10. IsList(R) /\ R.N = L.N /\ Slots(R) = Slots(L)
  BY <1>9 DEF Reshaped, Slots
<1>11. Remove(L, i, dest) \in {L, SettleRemoval(R, leaf)}
  BY <1>2, <1>3, <1>5 DEF Remove
<1>12. PICK j : j = RemoveLevel(R, leaf)
  OBVIOUS
<1>13. j \in 0 .. Height(L.N) + 1
  BY <1>10, <1>12, RemoveLevelFound
<1>14. CASE j > Height(L.N)
  <2>1. SettleRemoval(R, leaf) = HalfList(R)
    BY <1>10, <1>12, <1>14 DEF SettleRemoval
  <2>6. 4 * Full(R, 0, R.N) < R.N
    <3>1. Height(R.N) > 0 /\ RemoveLevel(R, leaf) > Height(R.N) /\ leaf \in Slots(R)
      BY <1>1, <1>4, <1>10, <1>12, <1>14
    <3> QED
      BY <1>10, <3>1, SparseRoot
  <2>7. Spacious(HalfList(R)) /\ Full(HalfList(R), 0, HalfList(R).N) = Full(R, 0, R.N)
    BY <1>10, <2>6, HalfSpacious
  <2>8. HalfList(R).N = R.N \div 2
    BY <1>10, HalfShape DEF Reshaped
  <2>9. 2 * (R.N \div 2) = R.N
    <3>1. PICK k \in Nat : R.N = 2^k
      BY <1>10 DEF IsList, PowersOfTwo
    <3>2. k # 0
      <4>1. k = 0 => R.N = 2^0
        BY <3>1, Zenon
      <4> QED
        BY <1>1, <1>10, <4>1, Powers
    <3>3. k - 1 \in Nat /\ 2^((k - 1) + 1) = 2 * 2^(k - 1) /\ 2^(k - 1) \in Nat
      BY <3>1, <3>2, PowerPlusOne
    <3>4. (k - 1) + 1 = k
      BY <3>1
    <3>5. R.N = 2 * 2^(k - 1)
      BY <3>1, <3>3, <3>4, Zenon
    <3> QED
      BY <3>3, <3>5
  <2> QED
    BY <1>10, <1>11, <2>1, <2>6, <2>7, <2>8, <2>9
<1>15. CASE j \in 0 .. Height(L.N)
  <2>1. SettleRemoval(R, leaf) = Redistribute(R, StartAt(R, leaf, j), LenAt(R, j))
    BY <1>1, <1>10, <1>12, <1>15 DEF SettleRemoval
  <2>2. StartAt(R, leaf, j) \in Nat /\ LenAt(R, j) \in Nat \ {0}
    BY <1>1, <1>4, <1>10, <1>15, LevelFound
  <2>3. Window(StartAt(R, leaf, j), LenAt(R, j)) \subseteq Slots(R)
    <3>1. j \in 0 .. Height(R.N) /\ j \in 0 .. j /\ leaf \in Slots(R)
      BY <1>1, <1>4, <1>10, <1>15
    <3> QED
      BY <1>10, <3>1, LevelsNest
  <2>4. Spacious(SettleRemoval(R, leaf)) /\ SettleRemoval(R, leaf).N = L.N
    BY <1>9, <1>10, <2>1, <2>2, <2>3, RedistributeSpacious, RedistributeShape DEF Reshaped
  <2> QED
    BY <1>11, <2>4
<1> QED
  BY <1>1, <1>13, <1>14, <1>15

----------------------------------------------------------------------------
(* What it takes that nodes agrees with the sentinels.                     *)

\* redistribute, the slides and the resizing have told every vertex where its
\* sentinel went: the first half of BlocksIntact.
SentinelsPointed == Pointed(list)

\* Then every range ends inside the list, and there is an element for each vertex.
LEMMA PointedFound ==
  ASSUME NEW L, IsList(L), Pointed(L), Cardinality(Vertices(L)) >= 2
  PROVE  /\ \A v \in Vertices(L) : L.nodes[v].end \in Slots(L)
         /\ Full(L, 0, L.N) >= 2
<1>1. PICK n \in Nat : Vertices(L) = 0 .. n - 1
  BY DEF IsList, Vertices
<1>2. Cardinality(Vertices(L)) = n /\ n >= 2
  <2>1. Cardinality(0 .. n - 1) = n
    BY FS_Interval
  <2> QED
    BY <1>1, <2>1
<1>3. PICK at : at = SentinelsAt(L.items, Slots(L))
  OBVIOUS
<1>4. /\ DOMAIN at = Vertices(L)
      /\ \A v \in Vertices(L) : L.nodes[v].end = IF v = n - 1 THEN L.N - 1 ELSE at[v + 1]
  BY <1>2, <1>3 DEF Pointed, LastVertex
<1>5. \A v \in Vertices(L) : at[v] \in Slots(L) /\ ~IsNull(L.items[at[v]])
                             /\ VertexOf(L.items[at[v]]) = v
  BY <1>3, <1>4, SentinelsFound
<1>6. L.N \in Nat \ {0} /\ L.N - 1 \in Slots(L) /\ IsFiniteSet(Slots(L))
  BY SlotsFound DEF Slots
<1>7. \A v \in Vertices(L) : L.nodes[v].end \in Slots(L)
  <2> SUFFICES ASSUME NEW v \in Vertices(L), v # n - 1 PROVE at[v + 1] \in Slots(L)
    BY <1>4, <1>6
  <2>1. v + 1 \in Vertices(L)
    BY <1>1
  <2> QED
    BY <1>5, <2>1
<1>8. Full(L, 0, L.N) >= 2
  <2>1. 0 \in Vertices(L) /\ 1 \in Vertices(L)
    BY <1>1, <1>2
  <2>2. PICK a, b \in Taken(L, Slots(L)) : a # b
    <3>1. at[0] # at[1]
      BY <1>5, <2>1
    <3> QED
      BY <1>5, <2>1, <3>1 DEF Taken
  <2>3. IsFiniteSet(Taken(L, Slots(L)))
    <3>1. Taken(L, Slots(L)) \subseteq Slots(L)
      BY DEF Taken
    <3> QED
      BY <1>6, <3>1, FS_Subset
  <2>4. Cardinality({a, b}) = 2 /\ {a, b} \subseteq Taken(L, Slots(L))
    <3>1. IsFiniteSet({a}) /\ Cardinality({a}) = 1
      BY FS_Singleton
    <3>2. Cardinality({a} \cup {b}) = Cardinality({a}) + 1
      BY <2>2, <3>1, FS_AddElement
    <3>3. {a} \cup {b} = {a, b}
      OBVIOUS
    <3> QED
      BY <3>1, <3>2, <3>3
  <2>5. Cardinality({a, b}) <= Cardinality(Taken(L, Slots(L)))
    BY <2>3, <2>4, FS_Subset
  <2>6. Cardinality(Taken(L, Slots(L))) = Full(L, 0, L.N) /\ Full(L, 0, L.N) \in Nat
    BY SpaciousFound
  <2> QED
    BY <2>4, <2>5, <2>6
<1> QED
  BY <1>7, <1>8

\* Why the list stays large and not full: its size, its room and its vertices.
SizeInv ==
  /\ WriteInv
  /\ KeepsHeight
  /\ Spacious(list)
  /\ Cardinality(Vertices(list)) >= 2

\* Which steps of a call change the list.
LEMMA ContinueMoves ==
  ASSUME NEW t \in Threads, Continue(t)
  PROVE  \/ UNCHANGED list
         \/ Write(t) \/ SpreadLeaf(t) \/ SettleDensity(t) \/ WriteAlone(t)
<1>1. CASE \/ CallForced(t) \/ Call(t) \/ Snap(t) \/ Upgrade(t) \/ ShareLeaf(t)
           \/ LoadVersion(t) \/ LockLeaf(t) \/ ReleaseLocks(t) \/ Unlock(t)
  BY <1>1 DEF CallForced, Call, Snap, Upgrade, ShareLeaf, LoadVersion, LockLeaf,
              ReleaseLocks, Unlock
<1>2. CASE Search(t)
  BY <1>2 DEF Search
<1>3. CASE CheckInsert(t)
  BY <1>3 DEF CheckInsert, Retry, Escalate, Extend
<1>4. CASE CheckRemove(t)
  BY <1>4 DEF CheckRemove, Retry, Extend
<1>5. CASE Plan(t)
  BY <1>5 DEF Plan, Extend, Restarted, Escalate
<1> QED
  BY <1>1, <1>2, <1>3, <1>4, <1>5 DEF Continue

\* Which steps change the list.
LEMMA ListMoves ==
  ASSUME [Next]_vars
  PROVE  \/ UNCHANGED list
         \/ AddVertex
         \/ \E t \in Threads : \/ Write(t) \/ SpreadLeaf(t) \/ SettleDensity(t)
                               \/ WriteAlone(t)
<1>1. ASSUME NEW t \in Threads, Begin(t) PROVE UNCHANGED list
  BY <1>1 DEF Begin, BeginAdd, BeginRemove
<1>2. UNCHANGED vars => UNCHANGED list
  BY DEF vars
<1> QED
  BY <1>1, <1>2, ContinueMoves DEF Next

\* A list that is no smaller, in slots and in vertices, is large enough.
LEMMA LargeEnough ==
  ASSUME NEW L, IsList(L), Height(L.N) > 0, Cardinality(Vertices(L)) >= 2,
         NEW M, IsList(M), Vertices(L) \subseteq Vertices(M)
  PROVE  /\ Cardinality(Vertices(M)) >= 2
         /\ M.N >= L.N => Height(M.N) > 0
         /\ 2 * M.N = L.N /\ L.N > 8 => Height(M.N) > 0
<1>1. IsFiniteSet(Vertices(M))
  <2>1. PICK n \in Nat : Vertices(M) = 0 .. n - 1
    BY DEF IsList, Vertices
  <2> QED
    BY <2>1, FS_Interval
<1>2. IsFiniteSet(Vertices(L)) /\ Cardinality(Vertices(L)) <= Cardinality(Vertices(M))
      /\ Cardinality(Vertices(L)) \in Nat /\ Cardinality(Vertices(M)) \in Nat
  BY <1>1, FS_Subset, FS_CardinalityType
<1>3. L.N \in Nat /\ M.N \in Nat /\ L.N >= 8
  BY SlotsFound, LeafLength DEF IsList
<1>4. M.N >= 8 => Height(M.N) > 0
  BY LeafLength DEF IsList
<1>5. 2 * M.N = L.N /\ L.N > 8 => M.N >= 8
  <2>1. PICK m \in Nat : M.N = 2^m
    BY DEF IsList, PowersOfTwo
  <2>2. CASE m >= 3
    <3>1. 2^3 <= 2^m
      BY <2>2, PowersAscend
    <3> QED
      BY <1>3, <2>1, <3>1, Powers
  <2>3. CASE m \in {0, 1, 2}
    <3>1. 2^m \in {2^0, 2^1, 2^2}
      BY <2>3, Zenon
    <3>2. M.N \in {1, 2, 4}
      BY <2>1, <3>1, Powers
    <3> QED
      BY <3>2
  <2> QED
    BY <2>2, <2>3
<1> QED
  BY <1>2, <1>3, <1>4, <1>5

\* The leaf of a slot and the parent of that leaf lie inside the list.
LEMMA LeafInside ==
  ASSUME NEW L, IsList(L), Height(L.N) > 0, NEW i \in Slots(L)
  PROVE  LET len == LogN(L.N)
             leaf == FindNode(i, len)
             parent == FindNode(leaf, 2 * len)
         IN  /\ len \in Nat \ {0} /\ leaf \in Slots(L) /\ leaf \in Nat /\ parent \in Nat
             /\ Window(leaf, len) \subseteq Slots(L)
             /\ Window(parent, 2 * len) \subseteq Slots(L)
<1>1. PICK len, leaf, parent :
        len = LogN(L.N) /\ leaf = FindNode(i, len) /\ parent = FindNode(leaf, 2 * len)
  OBVIOUS
<1>2. /\ len \in Nat \ {0} /\ Height(L.N) \in Nat \ {0}
      /\ LenAt(L, 0) = len /\ LenAt(L, 1) = 2 * len
  BY <1>1, ParentLevel
<1>3. i \in Nat /\ i < L.N /\ L.N \in Nat
  BY SlotsFound DEF Slots
<1>4. leaf \in Nat /\ leaf <= i
  BY <1>1, <1>2, <1>3, NodeFound
<1>5. parent \in Nat /\ parent = FindNode(i, 2 * len)
  BY <1>1, <1>2, <1>3, ParentFound
<1>6. StartAt(L, i, 0) = leaf /\ StartAt(L, i, 1) = parent
  BY <1>1, <1>2, <1>5 DEF StartAt
<1>7. 0 \in 0 .. Height(L.N) /\ 1 \in 0 .. Height(L.N) /\ 0 \in 0 .. 0 /\ 1 \in 0 .. 1
  BY <1>2
<1>8. Window(leaf, len) \subseteq Slots(L) /\ Window(parent, 2 * len) \subseteq Slots(L)
  BY <1>2, <1>6, <1>7, LevelsNest
<1>9. leaf \in Slots(L)
  BY <1>3, <1>4 DEF Slots
<1> QED
  BY <1>1, <1>2, <1>4, <1>5, <1>8, <1>9

\* The later parts of a write inside the leaf locks keep room.
LEMMA EvenOutSpacious ==
  ASSUME NEW L, IsList(L), Height(L.N) > 0, NEW i \in Slots(L), Spacious(L)
  PROVE  /\ Spacious(EvenOut(L, i, LogN(L.N)))
         /\ Spacious(Redistribute(L, FindLeaf(L, i), LogN(L.N)))
<1>1. PICK len, leaf, parent :
        len = LogN(L.N) /\ leaf = FindNode(i, len) /\ parent = FindNode(leaf, 2 * len)
  OBVIOUS
<1>2. /\ len \in Nat \ {0} /\ leaf \in Nat /\ parent \in Nat
      /\ Window(leaf, len) \subseteq Slots(L) /\ Window(parent, 2 * len) \subseteq Slots(L)
  BY <1>1, LeafInside
<1>3. EvenOut(L, i, len) \in {Redistribute(L, leaf, len), Redistribute(L, parent, 2 * len)}
  BY <1>1 DEF EvenOut, SpreadWindow
<1>4. Spacious(Redistribute(L, leaf, len))
  BY <1>2, RedistributeSpacious
<1>5. Spacious(Redistribute(L, parent, 2 * len))
  <2>1. 2 * len \in Nat \ {0}
    BY <1>2
  <2> QED
    BY <1>2, <2>1, RedistributeSpacious
<1> QED
  BY <1>1, <1>3, <1>4, <1>5 DEF FindLeaf

\* And the last part of a removal, where it does not halve the list.
LEMMA SettleRemovalSpacious ==
  ASSUME NEW L, IsList(L), NEW leaf \in Slots(L), Spacious(L), SettleRemoval(L, leaf).N = L.N
  PROVE  Spacious(SettleRemoval(L, leaf))
<1>1. PICK j : j = RemoveLevel(L, leaf)
  OBVIOUS
<1>2. j \in 0 .. Height(L.N) + 1 /\ leaf \in Nat /\ L.N \in Nat \ {0}
  BY <1>1, RemoveLevelFound, SlotsFound DEF Slots
<1>3. Height(L.N) \in Nat
  BY LeafLength DEF IsList
<1>4. CASE j > Height(L.N)
  <2>1. SparseAt(L, leaf, 0, 0)
    BY <1>1, <1>2, <1>3, <1>4, RemoveLevelFound
  <2>2. Height(L.N) > 0
    BY <2>1 DEF SparseAt, TooSparse
  <2>3. SettleRemoval(L, leaf).N = L.N \div 2
    BY <1>1, <1>4, <2>2, HalfShape DEF SettleRemoval, Reshaped
  <2>4. L.N \div 2 # L.N
    BY <1>2
  <2> QED
    BY <2>3, <2>4
<1>5. CASE j \in 0 .. Height(L.N)
  <2>1. SettleRemoval(L, leaf) = Redistribute(L, StartAt(L, leaf, j), LenAt(L, j))
    BY <1>1, <1>3, <1>5 DEF SettleRemoval
  <2>2. j \in 0 .. j /\ j \in Nat
    BY <1>3, <1>5
  <2>3. StartAt(L, leaf, j) \in Nat /\ LenAt(L, j) \in Nat \ {0}
        /\ Window(StartAt(L, leaf, j), LenAt(L, j)) \subseteq Slots(L)
    BY <1>2, <1>5, <2>2, LevelFound, LevelsNest
  <2> QED
    BY <2>1, <2>3, RedistributeSpacious
<1> QED
  BY <1>2, <1>3, <1>4, <1>5

\* Inside the leaf locks insert leaves one of the two free slots that
\* acquire_insert_locks has made sure of, and remove makes one.
LEMMA LeafWriteSpacious ==
  ASSUME SizeInv, NEW t \in Threads, Write(t) \/ SpreadLeaf(t) \/ SettleDensity(t)
  PROVE  Spacious(list')
<1>1. pc[t] \in Writing
  BY DEF Writing, Write, SpreadLeaf, SettleDensity
<1>2. PICK f : f = frame[t]
  OBVIOUS
<1>3. PICK H : H = Locked(list, f.lo, f.hi)
  OBVIOUS
<1>4. /\ f.lo \in Nat /\ f.hi \in Nat /\ f.index \in Nat
      /\ f.kind \in {"add", "remove"} /\ f.info \in Infos /\ IsList(list)
      /\ f.index \in H /\ Ready(list, f, pc[t]) /\ f.index \in Slots(list)
  BY <1>1, <1>2, <1>3, WriterFound DEF SizeInv
<1>5. Confined(list, list', H)
  BY <1>2, <1>3, WriteLocked DEF SizeInv
<1>6. IsList(list') /\ list'.N = list.N /\ Slots(list') = Slots(list)
  BY <1>5 DEF Confined, Reshaped, Slots
<1>7. H \subseteq Slots(list) /\ Convex(H)
  BY <1>3, <1>4, HeldFound
<1>8. Spacious(list) /\ Height(list.N) > 0
  BY DEF SizeInv, KeepsHeight
<1>9. CASE Write(t)
  <2>1. pc[t] = "write"
    BY <1>9 DEF Write
  <2>2. CASE f.kind = "add"
    <3>1. Room(list, f.index, H) /\ Spare(list, H)
      BY <1>3, <1>4, <2>1, <2>2 DEF Ready
    <3>2. CASE list' = Put(list, f.index, Element(f))
      <4>1. \E x \in H : IsNull(list'.items[x])
        BY <1>4, <1>7, <3>1, <3>2, PutSpares
      <4> QED
        BY <1>6, <1>7, <4>1 DEF Spacious
    <3>3. CASE /\ Present(list, f.index, Element(f))
               /\ list' = [list EXCEPT !.items[f.index].value = f.value]
      <4>1. PICK x \in Slots(list) : IsNull(list.items[x])
        BY <1>8 DEF Spacious
      <4>2. x # f.index
        BY <3>3, <4>1 DEF Present
      <4>3. f.index \in {f.index} /\ x \in Slots(list) \ {f.index}
        BY <4>1, <4>2
      <4>4. list'.items[x] = list.items[x]
        BY <1>4, <3>3, <4>3, UpdateConfined DEF Confined
      <4> QED
        BY <1>6, <4>1, <4>4 DEF Spacious
    <3> QED
      BY <1>2, <1>9, <2>2, <3>2, <3>3 DEF Write
  <2>3. CASE f.kind = "remove"
    <3>1. list' = Erase(list, f.index)
      BY <1>2, <1>9, <2>3 DEF Write
    <3>2. Wrote(list, list', f.index, Null)
      BY <3>1 DEF Erase, Wrote
    <3>3. IsNull(list'.items[f.index])
      BY <1>4, <3>2, WriteItems DEF Null, IsNull
    <3> QED
      BY <1>4, <1>6, <3>3 DEF Spacious
  <2> QED
    BY <1>4, <2>2, <2>3
<1>10. CASE SpreadLeaf(t)
  <2>1. list' \in {EvenOut(list, f.index, LogN(list.N)),
                   Redistribute(list, FindLeaf(list, f.index), LogN(list.N))}
    BY <1>2, <1>10 DEF SpreadLeaf
  <2> QED
    BY <1>4, <1>8, <2>1, EvenOutSpacious
<1>11. CASE SettleDensity(t)
  <2>1. CASE f.kind = "add"
    <3>1. list' = Settle(list, FindLeaf(list, f.index), f.info)
      BY <1>2, <1>11, <2>1 DEF SettleDensity
    <3>2. f.info.kind = "range" /\ Window(f.info.start, f.info.len) \subseteq H
      BY <1>1, <1>3, <1>4, <2>1 DEF Ready, Told
    <3>3. PICK start, len \in Nat : f.info = RangeInfo(start, len)
      <4>1. f.info \in Infos
        BY <1>4
      <4>2. NoInfo.kind # "range" /\ DoubleInfo.kind # "range"
        BY DEF NoInfo, DoubleInfo
      <4>3. f.info # NoInfo /\ f.info # DoubleInfo
        BY <3>2, <4>2
      <4>4. f.info \in {RangeInfo(start, len) : start, len \in Nat}
        BY <4>1, <4>3 DEF Infos
      <4> QED
        BY <4>4
    <3>4. list' = IF len > LogN(list.N) THEN Redistribute(list, start, len) ELSE list
      BY <3>1, <3>3 DEF Settle, RangeInfo
    <3>5. Window(start, len) \subseteq Slots(list) /\ LogN(list.N) \in Nat \ {0}
      BY <1>4, <1>7, <3>2, <3>3, LeafLength DEF RangeInfo, IsList
    <3>6. CASE len > LogN(list.N)
      <4>1. len \in Nat \ {0}
        BY <3>5, <3>6
      <4> QED
        BY <1>4, <1>8, <3>3, <3>4, <3>5, <3>6, <4>1, RedistributeSpacious
    <3> QED
      BY <1>8, <3>4, <3>6
  <2>2. CASE f.kind = "remove"
    <3>1. list' = SettleRemoval(list, FindLeaf(list, f.index))
      BY <1>2, <1>11, <2>2 DEF SettleDensity
    <3>2. FindLeaf(list, f.index) \in Slots(list)
      BY <1>4, <1>8, LeafInside DEF FindLeaf
    <3> QED
      BY <1>4, <1>6, <1>8, <3>1, <3>2, SettleRemovalSpacious
  <2> QED
    BY <1>4, <2>1, <2>2
<1> QED
  BY <1>9, <1>10, <1>11

\* The new list after a step in the exclusive section, or after add_node.
Enlarged(M) ==
  /\ Spacious(M) /\ Height(M.N) > 0
  /\ Cardinality(Vertices(M)) >= 2

\* insert and remove in the exclusive section: the list halves only where it has
\* more than eight slots, since there are at least two sentinels in it.
LEMMA SizeAlone ==
  ASSUME SizeInv, SentinelsPointed, SentinelsPointed', NEW t \in Threads, WriteAlone(t)
  PROVE  Enlarged(list')
<1>1. pc[t] = "force"
  BY DEF WriteAlone
<1>2. PICK f, i : f = frame[t] /\ i = FindEdge(list, f.src, f.dest)
  OBVIOUS
<1>3. f \in Frames /\ f.info \in {NoInfo, DoubleInfo} /\ IsList(list)
  BY <1>1, <1>2, LocalsFound DEF SizeInv, Writing
<1>4. f.src \in Vertices(list) /\ f.info \in Infos
  BY <1>3 DEF Frames, Infos
<1>5. /\ Spacious(list) /\ Height(list.N) > 0 /\ Cardinality(Vertices(list)) >= 2
      /\ Pointed(list) /\ Pointed(list')
  BY DEF SizeInv, KeepsHeight, SentinelsPointed
<1>6. list.N \in Nat \ {0} /\ list.nodes[f.src].end \in Slots(list)
  BY <1>3, <1>4, <1>5, SlotsFound, PointedFound
<1>7. i \in Slots(list)
  <2>1. list.nodes[f.src].beginning + 1 \in Nat /\ list.nodes[f.src].end \in Nat
    BY <1>3, <1>4, NodesFound
  <2>2. i \in Nat /\ i <= list.nodes[f.src].end
    BY <1>2, <2>1, SearchFound DEF FindEdge
  <2> QED
    BY <1>6, <2>1, <2>2 DEF Slots
<1>8. list.nodes[f.src].end <= list.N /\ i \in Nat
  BY <1>6, <1>7 DEF Slots
<1>9. PICK M, R : M = Insert(list, i, Element(f), f.src, f.info) /\ R = Remove(list, i, f.dest)
  OBVIOUS
<1>10. list' = M \/ list' = R
  BY <1>2, <1>9 DEF WriteAlone, Apply
<1>11. CASE list' = M
  <2>1. Grown(list, M)
    BY <1>3, <1>4, <1>8, <1>9, InsertShape
  <2>2. Spacious(M)
    BY <1>3, <1>4, <1>5, <1>7, <1>8, <1>9, InsertSpacious
  <2>3. IsList(M) /\ M.N >= list.N /\ Vertices(list) \subseteq Vertices(M)
    BY <2>1 DEF Grown
  <2> QED
    BY <1>3, <1>5, <1>11, <2>2, <2>3, LargeEnough DEF Enlarged
<1>12. CASE list' = R
  <2>1. IsList(R) /\ Vertices(R) = Vertices(list)
    BY <1>3, <1>8, <1>9, RemoveShape
  <2>2. Spacious(R) /\ (R.N = list.N \/ (2 * R.N = list.N /\ 4 * Full(R, 0, R.N) < list.N))
    BY <1>3, <1>5, <1>7, <1>9, RemoveSpacious
  <2>3. Pointed(R) /\ Cardinality(Vertices(R)) >= 2
    BY <1>5, <1>12, <2>1
  <2>4. Full(R, 0, R.N) >= 2 /\ Full(R, 0, R.N) \in Nat
    BY <2>1, <2>3, PointedFound, SpaciousFound
  <2>5. R.N >= list.N \/ (2 * R.N = list.N /\ list.N > 8)
    BY <1>6, <2>2, <2>4
  <2> QED
    BY <1>3, <1>5, <1>12, <2>1, <2>2, <2>3, <2>5, LargeEnough DEF Enlarged
<1> QED
  BY <1>10, <1>11, <1>12

\* add_node: the sentinel of the new vertex goes where the last range ends.
LEMMA SizeAdd ==
  ASSUME SizeInv, SentinelsPointed, AddVertex
  PROVE  Enlarged(list')
<1>1. PICK L : L = list
  OBVIOUS
<1>2. /\ IsList(L) /\ Spacious(L) /\ Height(L.N) > 0 /\ Cardinality(Vertices(L)) >= 2
      /\ Pointed(L)
  BY <1>1 DEF SizeInv, WriteInv, LeafInv, KeepsHeight, SentinelsPointed
<1>3. PICK n \in Nat : L.nodes \in [0 .. n - 1 -> Ranges]
  BY <1>2 DEF IsList
<1>4. Cardinality(Vertices(L)) = n /\ n >= 2 /\ Vertices(L) = 0 .. n - 1
  <2>1. Cardinality(0 .. n - 1) = (n - 1) - 0 + 1
    BY FS_Interval
  <2> QED
    BY <1>2, <1>3, <2>1 DEF Vertices
<1>5. PICK at : at = L.nodes[n - 1].end
  OBVIOUS
<1>6. L.N \in Nat \ {0} /\ at \in Nat /\ at \in Slots(L) /\ at + 1 <= L.N
  <2>1. n - 1 \in Vertices(L)
    BY <1>4
  <2>2. L.N \in Nat \ {0} /\ at \in Slots(L)
    BY <1>2, <1>5, <2>1, SlotsFound, PointedFound
  <2> QED
    BY <2>2 DEF Slots
<1>7. PICK nodes : nodes = [v \in 0 .. n |-> IF v < n THEN L.nodes[v]
                                           ELSE [beginning |-> at, end |-> at + 1]]
  OBVIOUS
<1>8. nodes \in [0 .. n -> Ranges]
  BY <1>3, <1>6, <1>7 DEF Ranges
<1>9. PICK M : M = [L EXCEPT !.nodes = nodes]
  OBVIOUS
<1>10. M = [N |-> L.N, items |-> L.items, nodes |-> nodes]
  BY <1>2, <1>9, Updated
<1>11. /\ IsList(M) /\ Vertices(M) = 0 .. n /\ M.N = L.N /\ Slots(M) = Slots(L)
       /\ M.items = L.items
  <2>1. 0 .. n = 0 .. (n + 1) - 1 /\ n + 1 \in Nat
    OBVIOUS
  <2> QED
    BY <1>2, <1>8, <1>10, <2>1 DEF IsList, Slots, Vertices
<1>12. AddNode(L) = Insert(M, at, Sentinel(n), n, NoInfo)
  <2>1. at = IF n > 0 THEN L.nodes[n - 1].end ELSE 0
    BY <1>4, <1>5
  <2> QED
    BY <1>4, <1>7, <1>9, <2>1, Zenon DEF AddNode
<1>13. M.nodes[n].end <= M.N /\ n \in Vertices(M) /\ NoInfo \in {NoInfo, DoubleInfo}
  BY <1>6, <1>7, <1>10, <1>11
<1>14. Spacious(M)
  BY <1>2, <1>11 DEF Spacious
<1>15. Spacious(AddNode(L))
  BY <1>2, <1>6, <1>11, <1>12, <1>13, <1>14, InsertSpacious
<1>16. /\ IsList(AddNode(L)) /\ AddNode(L).N >= L.N /\ Vertices(L) \subseteq Vertices(AddNode(L))
  BY <1>2, AddNodeShape
<1>17. list' = AddNode(L)
  BY <1>1 DEF AddVertex
<1> QED
  BY <1>2, <1>15, <1>16, <1>17, LargeEnough DEF Enlarged

\* Every step keeps the list large and with room, while nodes agrees with the
\* sentinels.
LEMMA SizeStep ==
  SizeInv /\ SentinelsPointed /\ SentinelsPointed' /\ [Next]_vars => SizeInv'
<1> SUFFICES ASSUME SizeInv, SentinelsPointed, SentinelsPointed', [Next]_vars
             PROVE  SizeInv'
  OBVIOUS
<1>1. WriteInv' /\ IsList(list)
  BY WriteStep DEF SizeInv, WriteInv, LeafInv
<1>2. Enlarged(list)
  BY DEF SizeInv, KeepsHeight, Enlarged
<1>3. Enlarged(list')
  <2>1. CASE UNCHANGED list
    BY <1>2, <2>1
  <2>2. CASE AddVertex
    BY <2>2, SizeAdd
  <2>3. ASSUME NEW t \in Threads, WriteAlone(t) PROVE Enlarged(list')
    BY <2>3, SizeAlone
  <2>4. ASSUME NEW t \in Threads, Write(t) \/ SpreadLeaf(t) \/ SettleDensity(t)
        PROVE  Enlarged(list')
    <3>1. Spacious(list')
      BY <2>4, LeafWriteSpacious
    <3>2. list'.N = list.N /\ Vertices(list') = Vertices(list)
      BY <2>4, WriteLocked DEF SizeInv, Confined, Reshaped
    <3> QED
      BY <1>2, <3>1, <3>2 DEF Enlarged
  <2> QED
    BY <2>1, <2>2, <2>3, <2>4, ListMoves
<1> QED
  BY <1>1, <1>3 DEF SizeInv, KeepsHeight, Enlarged

\* The constructor's list: at least half of the slots are free, slot 1 among them.
LEMMA InitialSpacious ==
  ASSUME NEW n \in Nat \ {0, 1}, NEW minimum \in Nat, minimum >= 4
  PROVE  Enlarged(InitialList(n, minimum)) /\ IsList(InitialList(n, minimum))
<1>1. PICK L : L = InitialList(n, minimum)
  OBVIOUS
<1>2. IsList(L) /\ L.N > 2 * n /\ L.N > minimum /\ Vertices(L) = 0 .. n - 1
  <2>1. n \in Nat /\ minimum \in Nat \ {0}
    OBVIOUS
  <2> QED
    BY <1>1, <2>1, InitialShape
<1>3. L.N \in Nat \ {0}
  BY <1>2, SlotsFound
<1>4. Cardinality(Vertices(L)) >= 2
  <2>1. Cardinality(0 .. n - 1) = (n - 1) - 0 + 1
    BY FS_Interval
  <2> QED
    BY <1>2, <2>1
<1>5. Height(L.N) > 0
  <2>1. PICK k \in Nat : L.N = 2^k
    BY <1>2 DEF IsList, PowersOfTwo
  <2>2. CASE k >= 3
    <3>1. 2^3 <= 2^k
      BY <2>2, PowersAscend
    <3>2. L.N >= 8
      BY <1>3, <2>1, <3>1, Powers
    <3> QED
      BY <1>2, <3>2, LeafLength DEF IsList
  <2>3. CASE k \in {0, 1, 2}
    <3>1. 2^k \in {2^0, 2^1, 2^2}
      BY <2>3, Zenon
    <3>2. L.N \in {1, 2, 4}
      BY <2>1, <3>1, Powers
    <3> QED
      BY <1>2, <3>2
  <2> QED
    BY <2>2, <2>3
<1>6. IsNull(L.items[1])
  <2>1. PICK N : N = InitialSize(IF 2 * n > minimum THEN 2 * n ELSE minimum)
    OBVIOUS
  <2> DEFINE at == [v \in 0 .. n - 1 |-> (v * N) \div n]
             nodes == [v \in 0 .. n - 1 |->
                         [beginning |-> at[v],
                          end |-> IF v = n - 1 THEN N - 1 ELSE at[v + 1]]]
             items == [p \in 0 .. N - 1 |->
                         IF \E v \in 0 .. n - 1 : at[v] = p
                         THEN Sentinel(CHOOSE v \in 0 .. n - 1 : at[v] = p)
                         ELSE Null]
  <2>2. L = [N |-> N, items |-> items, nodes |-> nodes]
    BY <1>1, <2>1 DEF InitialList
  <2>3. L.N = N /\ L.items = items
    <3> HIDE DEF items, nodes
    <3> QED
      BY <2>2
  <2>4. N \in Nat /\ N > 2 * n /\ 1 \in 0 .. N - 1
    BY <1>2, <1>3, <2>3
  <2>5. ASSUME NEW v \in 0 .. n - 1 PROVE at[v] # 1
    <3>1. CASE v = 0
      <4>1. at[v] = (0 * N) \div n
        BY <3>1
      <4>2. 0 * N = 0 /\ 0 \div n = 0
        BY <2>4
      <4> QED
        BY <4>1, <4>2
    <3>2. CASE v # 0
      <4>1. v \in Nat \ {0} /\ n \in Nat \ {0}
        BY <3>2
      <4>2. \A x \in Nat \ {0}, y \in Nat : x * y \in Nat /\ x * y >= y
        OBVIOUS
      <4>3. v * N \in Nat /\ v * N >= N
        BY <2>4, <4>1, <4>2
      <4>4. 2 * n <= v * N
        BY <2>4, <4>1, <4>3
      <4>5. 2 <= (v * N) \div n
        BY <4>1, <4>3, <4>4, Division
      <4> QED
        BY <4>5
    <3> QED
      BY <3>1, <3>2
  <2>6. ~ \E v \in 0 .. n - 1 : at[v] = 1
    BY <2>5
  <2>7. items[1] = Null
    <3> HIDE DEF at
    <3> QED
      BY <2>4, <2>6
  <2> QED
    <3> HIDE DEF items, nodes
    <3> QED
      BY <2>3, <2>7 DEF Null, IsNull
<1>7. Spacious(L)
  <2>1. 1 \in Slots(L)
    BY <1>2, <1>3 DEF Slots
  <2> QED
    BY <1>6, <2>1 DEF Spacious
<1> QED
  BY <1>1, <1>2, <1>4, <1>5, <1>7 DEF Enlarged

----------------------------------------------------------------------------
\* The constructor's list is large enough: its array has at least 1024 slots in
\* the code, and the graph has more than one vertex.
LEMMA SizeInit ==
  ASSUME MinCapacity >= 4, InitVertices >= 2, Init
  PROVE  SizeInv
<1>1. MinCapacity \in Nat /\ InitVertices \in Nat \ {0, 1}
  BY InputsAssumption
<1>2. list = InitialList(InitVertices, MinCapacity)
  BY DEF Init
<1>3. Enlarged(list)
  BY <1>1, <1>2, InitialSpacious
<1> QED
  BY <1>3, WriteInit DEF SizeInv, Enlarged, KeepsHeight

\* A graph of more than one vertex, in an array that begins with four slots or
\* more, keeps its size and a free slot as long as nodes agrees with the sentinels.
LEMMA SizeInvCorrect ==
  ASSUME MinCapacity >= 4, InitVertices >= 2
  PROVE  Spec /\ []SentinelsPointed => []SizeInv
<1>1. Init => SizeInv
  BY SizeInit
<1>2. SizeInv /\ SentinelsPointed /\ SentinelsPointed' /\ [Next]_vars => SizeInv'
  BY SizeStep
<1> QED
  BY <1>1, <1>2, PTL DEF Spec

\* half_list never leaves a single leaf, so density_bound never divides by a
\* height of 0 and insert has a second leaf to redistribute.
THEOREM KeepsHeightCorrect ==
  ASSUME MinCapacity >= 4, InitVertices >= 2
  PROVE  Spec /\ []SentinelsPointed => []KeepsHeight
<1>1. SizeInv => KeepsHeight
  BY DEF SizeInv
<1> QED
  BY <1>1, SizeInvCorrect, PTL

\* The array is never full: insert doubles it before a slide can find no null.
THEOREM NeverFullCorrect ==
  ASSUME MinCapacity >= 4, InitVertices >= 2
  PROVE  Spec /\ []SentinelsPointed => []NeverFull
<1>1. SizeInv => NeverFull
  <2> SUFFICES ASSUME SizeInv PROVE NeverFull
    OBVIOUS
  <2>1. IsList(list) /\ Spacious(list)
    BY DEF SizeInv, WriteInv, LeafInv
  <2> QED
    BY <2>1, SpaciousFound DEF NeverFull
<1> QED
  BY <1>1, SizeInvCorrect, PTL

\* insert and remove inside the shared section change only slots of the leaves
\* that their thread holds exclusively: acquire_insert_locks and
\* acquire_remove_locks foresee every slot that the slides and the
\* redistributions to come will touch.
THEOREM WritesAreLockedCorrect == Spec /\ []KeepsHeight => WritesAreLocked
<1>1. Init => WriteInv
  BY WriteInit
<1>2. WriteInv /\ KeepsHeight /\ [Next]_vars => WriteInv'
  BY WriteStep
<1>3. WriteInv /\ [Next]_vars =>
        [\A t \in Threads : pc[t] \in Writing /\ pc'[t] # pc[t] =>
           /\ list'.N = list.N
           /\ \A p \in Slots(list) :
                list'.items[p] # list.items[p] => LeafId(list, p) \in exclusive[t]]_vars
  BY WriteStepLocked
<1> QED
  BY <1>1, <1>2, <1>3, PTL DEF Spec, WritesAreLocked

----------------------------------------------------------------------------
(* What the slots hold.                                                    *)

\* The vertex in whose block an element lies.
Owner(e) == IF IsSentinel(e) THEN VertexOf(e) ELSE e.src

EdgesFrom(V) == [src : V, dest : 0 .. MaxU32 - 1, value : Values]

\* What a slot of a graph with vertices V holds.
Proper(e, V) == IsNull(e) \/ e \in EdgesFrom(V) \/ \E v \in V : e = Sentinel(v)

\* UINT32_MAX marks sentinels, so it is the number of no vertex.
Numbered(V) == V \subseteq 0 .. MaxU32 - 1

\* A slot holds nothing, a sentinel or an edge, and it is seen which.
LEMMA Kinds ==
  ASSUME NEW V, Numbered(V)
  PROVE  /\ \A v \in V : LET e == Sentinel(v)
                         IN  /\ ~IsNull(e) /\ IsSentinel(e) /\ ~IsEdge(e)
                             /\ VertexOf(e) = v /\ Owner(e) = v
         /\ \A e \in EdgesFrom(V) : /\ ~IsNull(e) /\ ~IsSentinel(e) /\ IsEdge(e)
                                    /\ Owner(e) = e.src /\ Owner(e) \in V
         /\ \A v, w \in V : Sentinel(v) = Sentinel(w) => v = w
<1>1. MaxU32 \in Nat /\ MaxU32 > 0
  BY MaxU32Assumption
<1>2. ASSUME NEW v \in V
      PROVE  LET e == Sentinel(v)
             IN  /\ ~IsNull(e) /\ IsSentinel(e) /\ ~IsEdge(e)
                 /\ VertexOf(e) = v /\ Owner(e) = v
  <2>1. v \in Nat /\ v < MaxU32
    BY <1>1 DEF Numbered
  <2>2. PICK e : e = Sentinel(v)
    OBVIOUS
  <2>3. e.dest = MaxU32 /\ e.value = IF v = 0 THEN MaxU32 ELSE v
    BY <2>2 DEF Sentinel
  <2>4. e.value # 0 /\ VertexOf(e) = v
    BY <1>1, <2>1, <2>3 DEF VertexOf
  <2> QED
    BY <2>2, <2>3, <2>4 DEF IsNull, IsSentinel, IsEdge, Owner
<1>3. ASSUME NEW e \in EdgesFrom(V)
      PROVE  /\ ~IsNull(e) /\ ~IsSentinel(e) /\ IsEdge(e)
             /\ Owner(e) = e.src /\ Owner(e) \in V
  <2>1. e.src \in V /\ e.dest \in 0 .. MaxU32 - 1 /\ e.value \in 1 .. MaxU32 - 1
    BY InputsAssumption DEF EdgesFrom
  <2>2. e.value # 0 /\ e.dest # MaxU32 /\ e.value # MaxU32
    BY <1>1, <2>1
  <2> QED
    BY <2>1, <2>2 DEF IsNull, IsSentinel, IsEdge, Owner
<1>4. ASSUME NEW v \in V, NEW w \in V, Sentinel(v) = Sentinel(w) PROVE v = w
  BY <1>2, <1>4
<1> QED
  BY <1>2, <1>3, <1>4

\* So an element belongs to a vertex, as its sentinel or as one of its edges.
LEMMA Belongs ==
  ASSUME NEW V, Numbered(V), NEW e, Proper(e, V), ~IsNull(e)
  PROVE  /\ Owner(e) \in V /\ Owner(e) \in Nat
         /\ IsSentinel(e) => e = Sentinel(Owner(e)) /\ VertexOf(e) = Owner(e) /\ ~IsEdge(e)
         /\ ~IsSentinel(e) => e \in EdgesFrom(V) /\ IsEdge(e)
<1>1. V \subseteq Nat
  BY MaxU32Assumption DEF Numbered
<1>2. CASE e \in EdgesFrom(V)
  BY <1>1, <1>2, Kinds
<1>3. CASE \E v \in V : e = Sentinel(v)
  BY <1>1, <1>3, Kinds
<1> QED
  BY <1>2, <1>3 DEF Proper

----------------------------------------------------------------------------
(* nodes and the sentinels.                                                *)

\* Every vertex has one sentinel.
Sole(L) ==
  /\ \A p \in Slots(L) : Proper(L.items[p], Vertices(L))
  /\ \A v \in Vertices(L) : \E p \in Slots(L) : L.items[p] = Sentinel(v)
  /\ \A v \in Vertices(L), p, q \in Slots(L) :
       L.items[p] = Sentinel(v) /\ L.items[q] = Sentinel(v) => p = q

\* The sentinel of v is noted at slot p: v begins there, and the vertex before v
\* ends there; the last vertex ends at the last slot.
Noted(nodes, N, p, v) ==
  /\ nodes[v].beginning = p
  /\ v > 0 => nodes[v - 1].end = p
  /\ v = Cardinality(DOMAIN nodes) - 1 => nodes[v].end = N - 1

\* So are the sentinels outside of W.
PlacedBut(L, W) ==
  /\ Sole(L)
  /\ \A v \in Vertices(L), p \in Slots(L) \ W :
       L.items[p] = Sentinel(v) => Noted(L.nodes, L.N, p, v)

Placed(L) == PlacedBut(L, {})

\* Where fix_sentinel sees the sentinels among the slots S.
LEMMA SentinelsSeen ==
  ASSUME NEW V, Numbered(V), NEW items, NEW S, \A p \in S : Proper(items[p], V)
  PROVE  LET at == SentinelsAt(items, S)
         IN  /\ \A v \in DOMAIN at : v \in V /\ at[v] \in S /\ items[at[v]] = Sentinel(v)
             /\ \A v \in V : (\E p \in S : items[p] = Sentinel(v)) => v \in DOMAIN at
<1> DEFINE here == {i \in S : ~IsNull(items[i]) /\ IsSentinel(items[i])}
<1>1. PICK at : at = SentinelsAt(items, S)
  OBVIOUS
<1>2. DOMAIN at = {VertexOf(items[i]) : i \in here}
  BY <1>1 DEF SentinelsAt
<1>3. ASSUME NEW v \in DOMAIN at
      PROVE  v \in V /\ at[v] \in S /\ items[at[v]] = Sentinel(v)
  <2>1. /\ at[v] \in S /\ ~IsNull(items[at[v]]) /\ IsSentinel(items[at[v]])
        /\ VertexOf(items[at[v]]) = v
    BY <1>1, <1>3, SentinelsFound
  <2> QED
    BY <2>1, Belongs
<1>4. ASSUME NEW v \in V, NEW p \in S, items[p] = Sentinel(v) PROVE v \in DOMAIN at
  BY <1>2, <1>4, Kinds
<1> QED
  BY <1>1, <1>3, <1>4

\* The numbers of the vertices of a list.
LEMMA VerticesFound ==
  ASSUME NEW L, IsList(L)
  PROVE  \E n \in Nat : /\ Vertices(L) = 0 .. n - 1 /\ Cardinality(Vertices(L)) = n
                        /\ L.nodes \in [0 .. n - 1 -> Ranges]
<1>1. PICK n \in Nat : L.nodes \in [0 .. n - 1 -> Ranges]
  BY DEF IsList
<1>2. Cardinality(0 .. n - 1) = n
  <2>1. n = 0 => 0 .. n - 1 = {}
    OBVIOUS
  <2>2. Cardinality(0 .. n - 1) = IF 0 > n - 1 THEN 0 ELSE (n - 1) - 0 + 1
    BY FS_Interval
  <2> QED
    BY <2>2
<1> QED
  BY <1>1, <1>2 DEF Vertices

\* fix_sentinel for the sentinels of W notes all of them, if the others were noted.
LEMMA FixSentinelsNotes ==
  ASSUME NEW L, IsList(L), Numbered(Vertices(L)), NEW M, Vertices(M) = Vertices(L), Sole(M),
         NEW W, W \subseteq Slots(M),
         M.nodes = FixSentinels(L.nodes, SentinelsAt(M.items, W), M.N),
         \A v \in Vertices(L), p \in Slots(M) \ W :
           M.items[p] = Sentinel(v) => Noted(L.nodes, M.N, p, v)
  PROVE  Placed(M)
<1>1. PICK at : at = SentinelsAt(M.items, W)
  OBVIOUS
<1>2. PICK n \in Nat : Vertices(L) = 0 .. n - 1 /\ Cardinality(Vertices(L)) = n
  BY VerticesFound
<1>3. /\ \A v \in DOMAIN at : v \in Vertices(L) /\ at[v] \in W /\ M.items[at[v]] = Sentinel(v)
      /\ \A v \in Vertices(L) : (\E p \in W : M.items[p] = Sentinel(v)) => v \in DOMAIN at
  <2>1. \A p \in W : Proper(M.items[p], Vertices(L))
    BY DEF Sole
  <2> QED
    BY <1>1, <2>1, SentinelsSeen
<1>4. \A v \in Vertices(L) :
        /\ M.nodes[v].beginning = IF v \in DOMAIN at THEN at[v] ELSE L.nodes[v].beginning
        /\ M.nodes[v].end = IF v = n - 1 THEN IF v \in DOMAIN at THEN M.N - 1 ELSE L.nodes[v].end
                            ELSE IF v + 1 \in DOMAIN at THEN at[v + 1] ELSE L.nodes[v].end
  <2>1. Cardinality(DOMAIN L.nodes) - 1 = n - 1
    BY <1>2 DEF Vertices
  <2> QED
    BY <1>1, <2>1 DEF FixSentinels, Vertices
<1>5. ASSUME NEW v \in Vertices(M), NEW p \in Slots(M), M.items[p] = Sentinel(v)
      PROVE  Noted(M.nodes, M.N, p, v)
  <2>1. v \in Vertices(L) /\ v \in 0 .. n - 1 /\ Cardinality(DOMAIN M.nodes) = n
        /\ Cardinality(DOMAIN L.nodes) = n
    BY <1>2 DEF Vertices
  <2>2. v > 0 => v - 1 \in Vertices(L) /\ v - 1 # n - 1 /\ (v - 1) + 1 = v
    BY <1>2, <2>1
  <2>3. CASE p \in W
    <3>1. v \in DOMAIN at /\ at[v] = p
      <4>1. v \in DOMAIN at
        BY <1>3, <1>5, <2>1, <2>3
      <4>2. at[v] \in Slots(M) /\ M.items[at[v]] = Sentinel(v)
        BY <1>3, <4>1
      <4> QED
        BY <1>5, <4>1, <4>2 DEF Sole
    <3> QED
      BY <1>4, <2>1, <2>2, <3>1 DEF Noted
  <2>4. CASE p \notin W
    <3>1. v \notin DOMAIN at
      <4> SUFFICES ASSUME v \in DOMAIN at PROVE FALSE
        OBVIOUS
      <4>1. at[v] \in W /\ at[v] \in Slots(M) /\ M.items[at[v]] = Sentinel(v)
        BY <1>3
      <4>2. at[v] = p
        BY <1>5, <4>1 DEF Sole
      <4> QED
        BY <2>4, <4>1, <4>2
    <3>2. Noted(L.nodes, M.N, p, v)
      BY <1>5, <2>1, <2>4
    <3> QED
      BY <1>4, <2>1, <2>2, <3>1, <3>2 DEF Noted
  <2> QED
    BY <2>3, <2>4
<1> QED
  BY <1>5 DEF Placed, PlacedBut

\* What keeps the elements keeps one sentinel for each vertex.
LEMMA SoleKept ==
  ASSUME NEW L, NEW M, Vertices(M) = Vertices(L), Numbered(Vertices(L)), Sole(L), Keeps(L, M),
         Slots(L) \subseteq Int, Slots(M) \subseteq Int
  PROVE  Sole(M)
<1>1. PICK g : Follows(L, M, Slots(L), Slots(M), g)
  BY DEF Keeps
<1>2. ASSUME NEW p \in Slots(M), ~IsNull(M.items[p])
      PROVE  \E i \in Slots(L) : i \in Taken(L, Slots(L)) /\ g[i] = p /\ M.items[p] = L.items[i]
  <2>1. p \in Taken(M, Slots(M))
    BY <1>2 DEF Taken
  <2>2. PICK i \in Taken(L, Slots(L)) : g[i] = p
    BY <1>1, <2>1 DEF Follows
  <2> QED
    BY <1>1, <2>2 DEF Follows, Taken
<1>3. \A p \in Slots(M) : Proper(M.items[p], Vertices(M))
  BY <1>2 DEF Sole, Proper
<1>4. ASSUME NEW v \in Vertices(M) PROVE \E p \in Slots(M) : M.items[p] = Sentinel(v)
  <2>1. PICK i \in Slots(L) : L.items[i] = Sentinel(v)
    BY DEF Sole
  <2>2. i \in Taken(L, Slots(L))
    BY <2>1, Kinds DEF Taken
  <2> QED
    BY <1>1, <2>1, <2>2 DEF Follows, Taken
<1>5. ASSUME NEW v \in Vertices(M), NEW p \in Slots(M), NEW q \in Slots(M),
             M.items[p] = Sentinel(v), M.items[q] = Sentinel(v)
      PROVE  p = q
  <2>1. ~IsNull(M.items[p]) /\ ~IsNull(M.items[q])
    BY <1>5, Kinds
  <2>2. PICK i \in Slots(L) : g[i] = p /\ L.items[i] = Sentinel(v)
    BY <1>2, <1>5, <2>1
  <2>3. PICK k \in Slots(L) : g[k] = q /\ L.items[k] = Sentinel(v)
    BY <1>2, <1>5, <2>1
  <2>4. i = k
    BY <2>2, <2>3 DEF Sole
  <2> QED
    BY <2>2, <2>3, <2>4
<1> QED
  BY <1>3, <1>4, <1>5 DEF Sole

----------------------------------------------------------------------------
(* The first slot.                                                         *)

\* redistribute puts the first element of its window into the first slot of it, so
\* the first slot of the list stays taken.
LEMMA RedistributeFirst ==
  ASSUME NEW L, IsList(L), NEW index \in Nat, NEW len \in Nat \ {0},
         Window(index, len) \subseteq Slots(L), ~IsNull(L.items[0])
  PROVE  ~IsNull(Redistribute(L, index, len).items[0])
<1>1. PICK M, W : M = Redistribute(L, index, len) /\ W = Window(index, len)
  OBVIOUS
<1>2. PICK to : /\ Spreads(L, M, W, to)
                /\ \A i \in Taken(L, W) : (\A o \in Taken(L, W) : i <= o) => to[i] = index
  BY <1>1, RedistributeSpreads
<1>3. 0 \in Slots(L) /\ \A p \in W : p \in Nat /\ index <= p
  BY <1>1, SlotsFound DEF Slots, Window
<1>4. CASE 0 \in W
  <2>1. index = 0 /\ 0 \in Taken(L, W) /\ \A o \in Taken(L, W) : 0 <= o
    BY <1>3, <1>4 DEF Taken
  <2>2. to[0] = 0 /\ M.items[to[0]] = L.items[0]
    BY <1>2, <2>1 DEF Spreads
  <2> QED
    BY <1>1, <2>2
<1>5. CASE 0 \notin W
  BY <1>1, <1>2, <1>3, <1>5 DEF Spreads
<1> QED
  BY <1>4, <1>5

\* So it does in the doubled list ...
LEMMA DoubleFirst ==
  ASSUME NEW L, IsList(L), ~IsNull(L.items[0])
  PROVE  ~IsNull(DoubleList(L).items[0])
<1> DEFINE wide == [p \in 0 .. 2 * L.N - 1 |-> IF p < L.N THEN L.items[p] ELSE Null]
           D == [N |-> 2 * L.N, items |-> wide, nodes |-> L.nodes]
<1>1. L.N \in Nat \ {0} /\ 2 * L.N \in PowersOfTwo /\ 2 * L.N \in Nat \ {0}
  BY PowersPositive DEF IsList
<1>2. IsList(D)
  BY <1>1 DEF IsList, Slots, Vertices
<1>3. D.items[0] = L.items[0]
  BY <1>1
<1>4. Window(0, 2 * L.N) \subseteq Slots(D)
  BY <1>1 DEF Window, Slots
<1>5. DoubleList(L) = Redistribute(D, 0, 2 * L.N)
  BY DEF DoubleList
<1> HIDE DEF D
<1> QED
  BY <1>1, <1>2, <1>3, <1>4, <1>5, RedistributeFirst

\* ... and in the halved one.
LEMMA HalfFirst ==
  ASSUME NEW L, IsList(L), Height(L.N) > 0, ~IsNull(L.items[0])
  PROVE  ~IsNull(HalfList(L).items[0])
<1> DEFINE N == L.N \div 2
           occ == Occupied(L, 0, L.N)
           packed == [p \in 0 .. N - 1 |->
                        IF p < Cardinality(occ)
                        THEN L.items[CHOOSE i \in occ : Rank(occ, i) = p] ELSE Null]
           D == [N |-> N, items |-> packed, nodes |-> L.nodes]
<1>1. L.N \in Nat \ {0} /\ N \in PowersOfTwo /\ N \in Nat \ {0}
  BY SlotsFound, HalfShape, PowersPositive
<1>2. IsList(D)
  BY <1>1 DEF IsList, Slots, Vertices
<1>3. occ \subseteq Int /\ IsFiniteSet(occ) /\ 0 \in occ /\ \A i \in occ : ~IsNull(L.items[i])
  <2>1. occ \subseteq Slots(L)
    BY <1>1 DEF Occupied, Window, Slots
  <2>2. 0 \in occ
    BY <1>1 DEF Occupied, Window
  <2>3. \A i \in occ : ~IsNull(L.items[i])
    BY DEF Occupied
  <2> QED
    BY <2>1, <2>2, <2>3, SlotsFound, FS_Subset
<1>4. Cardinality(occ) \in Nat /\ Cardinality(occ) > 0
  <2> HIDE DEF occ
  <2>1. Cardinality(occ) \in Nat /\ (Cardinality(occ) = 0 <=> occ = {})
    BY <1>3, FS_CardinalityType, FS_EmptySet
  <2> QED
    BY <1>3, <2>1
<1>5. \E i \in occ : Rank(occ, i) = 0
  <2>1. 0 \in 0 .. Cardinality(occ) - 1
    BY <1>4
  <2> HIDE DEF occ
  <2> QED
    BY <1>3, <2>1, RanksAll
<1>6. PICK i : i = CHOOSE x \in occ : Rank(occ, x) = 0
  OBVIOUS
<1>7. i \in occ
  BY <1>5, <1>6
<1>8. D.items[0] = L.items[i]
  <2>1. 0 \in 0 .. N - 1 /\ 0 < Cardinality(occ)
    BY <1>1, <1>4
  <2> HIDE DEF N, occ
  <2> QED
    BY <1>6, <2>1
<1>9. Window(0, N) \subseteq Slots(D)
  BY <1>1 DEF Window, Slots
<1>10. HalfList(L) = Redistribute(D, 0, N)
  BY DEF HalfList
<1>11. ~IsNull(D.items[0])
  BY <1>3, <1>7, <1>8
<1> HIDE DEF D, N
<1> QED
  BY <1>1, <1>2, <1>9, <1>10, <1>11, RedistributeFirst

----------------------------------------------------------------------------
(* Lists that are well formed.                                             *)

\* Every vertex has one writer.
OneWriter ==
  \A t, u \in Threads : t # u =>
    \A e \in Adds[t] \cup Removes[t], f \in Adds[u] \cup Removes[u] : e[1] # f[1]

\* The lists of which BlocksIntact, FirstSlotTaken and Sorted speak.
WellFormed(L) ==
  /\ IsList(L) /\ Numbered(Vertices(L)) /\ Placed(L) /\ InBlocks(L) /\ ~IsNull(L.items[0])
  /\ OneWriter => Ascending(L)

\* redistribute tells the vertices where the sentinels of its window went.
LEMMA RedistributePlaces ==
  ASSUME NEW L, IsList(L), Numbered(Vertices(L)), NEW index \in Nat, NEW len \in Nat \ {0},
         Window(index, len) \subseteq Slots(L), PlacedBut(L, Window(index, len))
  PROVE  Placed(Redistribute(L, index, len))
<1>1. PICK M, W : M = Redistribute(L, index, len) /\ W = Window(index, len)
  OBVIOUS
<1>2. Confined(L, M, W) /\ Keeps(L, M)
  BY <1>1, RedistributeConfined, RedistributeKeeps
<1>3. IsList(M) /\ M.N = L.N /\ Vertices(M) = Vertices(L) /\ Slots(M) = Slots(L)
  BY <1>2 DEF Confined, Reshaped, Slots
<1>4. Sole(L) /\ Slots(L) \subseteq Int
  BY SlotsFound DEF PlacedBut
<1>5. Sole(M)
  BY <1>2, <1>3, <1>4, SoleKept
<1>6. M.nodes = FixSentinels(L.nodes, SentinelsAt(M.items, W), M.N)
  <2>1. PICK items, nodes : /\ items = Spread(L, index, len)
                            /\ nodes = FixSentinels(L.nodes, SentinelsAt(items, W), L.N)
    OBVIOUS
  <2>2. M = [L EXCEPT !.items = items, !.nodes = nodes]
    BY <1>1, <2>1 DEF Redistribute
  <2>3. M = [N |-> L.N, items |-> items, nodes |-> nodes]
    BY <2>2, Updated
  <2> QED
    BY <2>1, <2>3
<1>7. ASSUME NEW v \in Vertices(L), NEW p \in Slots(M) \ W, M.items[p] = Sentinel(v)
      PROVE  Noted(L.nodes, M.N, p, v)
  <2>1. L.items[p] = Sentinel(v) /\ p \in Slots(L) \ W
    BY <1>2, <1>3, <1>7 DEF Confined
  <2> QED
    BY <1>1, <1>3, <2>1 DEF PlacedBut
<1>8. W \subseteq Slots(M)
  BY <1>1, <1>3
<1>9. Placed(M)
  BY <1>3, <1>5, <1>6, <1>7, <1>8, FixSentinelsNotes
<1> QED
  BY <1>1, <1>9

\* It keeps a list well formed.
LEMMA RedistributeWell ==
  ASSUME NEW L, WellFormed(L), NEW index \in Nat, NEW len \in Nat \ {0},
         Window(index, len) \subseteq Slots(L)
  PROVE  /\ WellFormed(Redistribute(L, index, len))
         /\ EdgesOf(Redistribute(L, index, len)) = EdgesOf(L)
<1>1. PICK M : M = Redistribute(L, index, len)
  OBVIOUS
<1>2. Reshaped(L, M, L.N) /\ Keeps(L, M)
  BY <1>1, RedistributeShape, RedistributeKeeps DEF WellFormed
<1>3. PlacedBut(L, Window(index, len))
  BY DEF WellFormed, Placed, PlacedBut
<1>4. Placed(M)
  BY <1>1, <1>3, RedistributePlaces DEF WellFormed
<1>5. InBlocks(M) /\ (OneWriter => Ascending(M)) /\ EdgesOf(M) = EdgesOf(L)
  BY <1>2, KeepsOrder DEF WellFormed, Reshaped
<1>6. ~IsNull(M.items[0])
  BY <1>1, RedistributeFirst DEF WellFormed
<1>7. WellFormed(M)
  BY <1>2, <1>4, <1>5, <1>6 DEF WellFormed, Reshaped
<1> QED
  BY <1>1, <1>5, <1>7

\* double_list tells all the vertices; it may begin where they are not told.
LEMMA DoublePlaces ==
  ASSUME NEW L, IsList(L), Numbered(Vertices(L)), Sole(L)
  PROVE  Placed(DoubleList(L))
<1> DEFINE wide == [p \in 0 .. 2 * L.N - 1 |-> IF p < L.N THEN L.items[p] ELSE Null]
           D == [N |-> 2 * L.N, items |-> wide, nodes |-> L.nodes]
<1>1. PICK M, W, items : /\ M = DoubleList(L) /\ W = Window(0, 2 * L.N)
                         /\ items = Spread(D, 0, 2 * L.N)
  OBVIOUS
<1>2. Reshaped(L, M, 2 * L.N) /\ Keeps(L, M)
  BY <1>1, DoubleShape, DoubleKeeps
<1>3. L.N \in Nat \ {0}
  BY SlotsFound
<1>4. IsList(M) /\ Vertices(M) = Vertices(L) /\ Slots(M) = W /\ M.N = 2 * L.N
  BY <1>1, <1>2, <1>3 DEF Reshaped, Slots, Window
<1>5. Slots(L) \subseteq Int /\ Slots(M) \subseteq Int
  BY <1>2, SlotsFound DEF Reshaped
<1>6. Sole(M)
  BY <1>2, <1>4, <1>5, SoleKept
<1>7. M.nodes = FixSentinels(L.nodes, SentinelsAt(items, W), 2 * L.N) /\ M.items = items
  BY <1>1 DEF DoubleList, Redistribute
<1>8. M.nodes = FixSentinels(L.nodes, SentinelsAt(M.items, W), M.N)
  BY <1>4, <1>7
<1>9. Placed(M)
  BY <1>4, <1>6, <1>8, FixSentinelsNotes
<1> QED
  BY <1>1, <1>9

\* double_list keeps a list well formed.
LEMMA DoubleWell ==
  ASSUME NEW L, WellFormed(L)
  PROVE  WellFormed(DoubleList(L)) /\ EdgesOf(DoubleList(L)) = EdgesOf(L)
<1>1. PICK M : M = DoubleList(L)
  OBVIOUS
<1>2. Reshaped(L, M, 2 * L.N) /\ Keeps(L, M)
  BY <1>1, DoubleShape, DoubleKeeps DEF WellFormed
<1>3. Placed(M)
  BY <1>1, DoublePlaces DEF WellFormed, Placed, PlacedBut
<1>4. InBlocks(M) /\ (OneWriter => Ascending(M)) /\ EdgesOf(M) = EdgesOf(L)
  BY <1>2, KeepsOrder DEF WellFormed, Reshaped
<1>5. ~IsNull(M.items[0])
  BY <1>1, DoubleFirst DEF WellFormed
<1>6. WellFormed(M)
  BY <1>2, <1>3, <1>4, <1>5 DEF WellFormed, Reshaped
<1> QED
  BY <1>1, <1>4, <1>6

\* So does half_list, where everything fits into the half.
LEMMA HalfWell ==
  ASSUME NEW L, WellFormed(L), Height(L.N) > 0, 2 * Cardinality(Elements(L)) <= L.N
  PROVE  WellFormed(HalfList(L)) /\ EdgesOf(HalfList(L)) = EdgesOf(L)
<1> DEFINE N == L.N \div 2
           occ == Occupied(L, 0, L.N)
           packed == [p \in 0 .. N - 1 |->
                        IF p < Cardinality(occ)
                        THEN L.items[CHOOSE i \in occ : Rank(occ, i) = p] ELSE Null]
           D == [N |-> N, items |-> packed, nodes |-> L.nodes]
<1>1. PICK M, W, items : /\ M = HalfList(L) /\ W = Window(0, N)
                         /\ items = Spread(D, 0, N)
  OBVIOUS
<1>2. Reshaped(L, M, N) /\ Keeps(L, M) /\ N \in PowersOfTwo
  BY <1>1, HalfShape, HalfKeeps DEF WellFormed
<1>3. N \in Nat \ {0}
  BY <1>2, PowersPositive
<1>4. M.nodes = FixSentinels(L.nodes, SentinelsAt(items, W), N) /\ M.items = items
  BY <1>1 DEF HalfList, Redistribute
<1> HIDE DEF N, occ, packed, D
<1>5. IsList(M) /\ Vertices(M) = Vertices(L) /\ Slots(M) = W /\ M.N = N
  BY <1>1, <1>2, <1>3 DEF Reshaped, Slots, Window
<1>6. Slots(L) \subseteq Int /\ Slots(M) \subseteq Int
  BY <1>5, SlotsFound DEF WellFormed
<1>7. Sole(M)
  BY <1>2, <1>5, <1>6, SoleKept DEF WellFormed, Placed, PlacedBut
<1>8. M.nodes = FixSentinels(L.nodes, SentinelsAt(M.items, W), M.N)
  BY <1>4, <1>5
<1>9. Placed(M)
  BY <1>5, <1>7, <1>8, FixSentinelsNotes DEF WellFormed
<1>10. InBlocks(M) /\ (OneWriter => Ascending(M)) /\ EdgesOf(M) = EdgesOf(L)
  BY <1>2, <1>5, KeepsOrder DEF WellFormed
<1>11. ~IsNull(M.items[0])
  BY <1>1, HalfFirst DEF WellFormed
<1>12. WellFormed(M)
  BY <1>5, <1>9, <1>10, <1>11 DEF WellFormed
<1> QED
  BY <1>1, <1>10, <1>12

\* slide_right and slide_left tell the vertices whose sentinels they move.
LEMMA ShiftRightWell ==
  ASSUME NEW L, WellFormed(L), NEW i \in Slots(L), NEW e \in Slots(L), 0 < i, i < e,
         IsNull(L.items[e])
  PROVE  /\ WellFormed(ShiftRight(L, i, e)) /\ ShiftRight(L, i, e).N = L.N
         /\ Vertices(ShiftRight(L, i, e)) = Vertices(L) /\ EdgesOf(ShiftRight(L, i, e)) = EdgesOf(L)
         /\ \A p \in Slots(L) : ShiftRight(L, i, e).items[p] = IF p = i THEN Null
                                                               ELSE IF p \in i + 1 .. e
                                                               THEN L.items[p - 1] ELSE L.items[p]
<1>1. IsList(L) /\ i \in Nat /\ e \in Nat /\ L.N \in Nat /\ e < L.N
  BY SlotsFound DEF WellFormed, Slots
<1>2. PICK items : items = [p \in Slots(L) |-> IF p = i THEN Null
                                               ELSE IF p \in i + 1 .. e
                                               THEN L.items[p - 1] ELSE L.items[p]]
  OBVIOUS
<1>3. PICK nodes, M, W : /\ W = i + 1 .. e /\ M = ShiftRight(L, i, e)
                         /\ nodes = FixSentinels(L.nodes, SentinelsAt(items, W), L.N)
  OBVIOUS
<1>4. M = [N |-> L.N, items |-> items, nodes |-> nodes]
  <2>1. M = [L EXCEPT !.items = items, !.nodes = nodes]
    BY <1>2, <1>3 DEF ShiftRight
  <2> QED
    BY <1>1, <2>1, Updated, ZenonT(30)
<1>5. Reshaped(L, M, L.N) /\ Keeps(L, M)
  BY <1>1, <1>3, ShiftRightShape, SlidesKeep
<1>6. IsList(M) /\ Vertices(M) = Vertices(L) /\ M.N = L.N /\ Slots(M) = Slots(L)
  BY <1>5 DEF Reshaped, Slots
<1>7. M.items = items /\ M.nodes = FixSentinels(L.nodes, SentinelsAt(M.items, W), M.N)
  BY <1>3, <1>4
<1>8. Sole(M) /\ Slots(L) \subseteq Int
  <2>1. Slots(L) \subseteq Int /\ Sole(L)
    BY <1>1, SlotsFound DEF WellFormed, Placed, PlacedBut
  <2> QED
    BY <1>5, <1>6, <2>1, SoleKept DEF WellFormed
<1>9. ASSUME NEW v \in Vertices(L), NEW p \in Slots(M) \ W, M.items[p] = Sentinel(v)
      PROVE  Noted(L.nodes, M.N, p, v)
  <2>1. p # i
    <3>1. ~IsNull(Sentinel(v)) /\ IsNull(Null)
      BY Kinds DEF WellFormed, IsNull, Null
    <3> QED
      BY <1>2, <1>6, <1>7, <1>9, <3>1
  <2>2. L.items[p] = Sentinel(v) /\ p \in Slots(L)
    BY <1>2, <1>3, <1>6, <1>7, <1>9, <2>1
  <2> QED
    BY <1>6, <2>2 DEF WellFormed, Placed, PlacedBut
<1>10. W \subseteq Slots(M)
  BY <1>1, <1>3, <1>6 DEF Slots
<1>11. Placed(M)
  BY <1>1, <1>6, <1>7, <1>8, <1>9, <1>10, FixSentinelsNotes DEF WellFormed
<1>12. ~IsNull(M.items[0])
  <2>1. 0 \in Slots(L) /\ 0 # i /\ 0 \notin i + 1 .. e
    BY <1>1 DEF Slots
  <2> QED
    BY <1>2, <1>7, <2>1 DEF WellFormed
<1>13. WellFormed(M) /\ EdgesOf(M) = EdgesOf(L)
  BY <1>1, <1>5, <1>6, <1>11, <1>12, KeepsOrder DEF WellFormed
<1> QED
  BY <1>2, <1>3, <1>6, <1>7, <1>13

\* slide_left down to a null, where it tells the vertices of what it carries.
LEMMA ShiftLeftWell ==
  ASSUME NEW L, WellFormed(L), NEW i \in Slots(L), NEW e \in Slots(L), e < i, IsNull(L.items[e])
  PROVE  /\ WellFormed(ShiftLeft(L, i, e)) /\ ShiftLeft(L, i, e).N = L.N
         /\ Vertices(ShiftLeft(L, i, e)) = Vertices(L) /\ EdgesOf(ShiftLeft(L, i, e)) = EdgesOf(L)
         /\ \A p \in Slots(L) : ShiftLeft(L, i, e).items[p] = IF p = i THEN Null
                                                              ELSE IF p \in e .. i - 1
                                                              THEN L.items[p + 1] ELSE L.items[p]
<1>1. IsList(L) /\ i \in Nat /\ e \in Nat /\ L.N \in Nat /\ i < L.N
  BY SlotsFound DEF WellFormed, Slots
<1>2. PICK items : items = [p \in Slots(L) |-> IF p = i THEN Null
                                               ELSE IF p \in e .. i - 1
                                               THEN L.items[p + 1] ELSE L.items[p]]
  OBVIOUS
<1>3. PICK nodes, M, W : /\ W = e .. i - 1 /\ M = ShiftLeft(L, i, e)
                         /\ nodes = FixSentinels(L.nodes, SentinelsAt(items, W), L.N)
  OBVIOUS
<1>4. M = [N |-> L.N, items |-> items, nodes |-> nodes]
  <2>1. M = [L EXCEPT !.items = items, !.nodes = nodes]
    BY <1>2, <1>3 DEF ShiftLeft
  <2> QED
    BY <1>1, <2>1, Updated, ZenonT(60)
<1>5. Reshaped(L, M, L.N) /\ Keeps(L, M)
  BY <1>1, <1>3, ShiftLeftShape, SlidesKeep
<1>6. IsList(M) /\ Vertices(M) = Vertices(L) /\ M.N = L.N /\ Slots(M) = Slots(L)
  BY <1>5 DEF Reshaped, Slots
<1>7. M.items = items /\ M.nodes = FixSentinels(L.nodes, SentinelsAt(M.items, W), M.N)
  BY <1>3, <1>4
<1>8. Sole(M) /\ Slots(L) \subseteq Int
  <2>1. Slots(L) \subseteq Int /\ Sole(L)
    BY <1>1, SlotsFound DEF WellFormed, Placed, PlacedBut
  <2> QED
    BY <1>5, <1>6, <2>1, SoleKept DEF WellFormed
<1>9. ASSUME NEW v \in Vertices(L), NEW p \in Slots(M) \ W, M.items[p] = Sentinel(v)
      PROVE  Noted(L.nodes, M.N, p, v)
  <2>1. p # i
    <3>1. ~IsNull(Sentinel(v)) /\ IsNull(Null)
      BY Kinds DEF WellFormed, IsNull, Null
    <3> QED
      BY <1>2, <1>6, <1>7, <1>9, <3>1
  <2>2. L.items[p] = Sentinel(v) /\ p \in Slots(L)
    BY <1>2, <1>3, <1>6, <1>7, <1>9, <2>1
  <2> QED
    BY <1>6, <2>2 DEF WellFormed, Placed, PlacedBut
<1>10. W \subseteq Slots(M)
  BY <1>1, <1>3, <1>6 DEF Slots
<1>11. Placed(M)
  BY <1>1, <1>6, <1>7, <1>8, <1>9, <1>10, FixSentinelsNotes DEF WellFormed
<1>12. ~IsNull(M.items[0])
  <2>1. 0 \in Slots(L) /\ 0 # i /\ e # 0
    BY <1>1 DEF Slots, WellFormed
  <2>2. 0 \notin e .. i - 1
    BY <1>1, <2>1
  <2> QED
    BY <1>2, <1>7, <2>1, <2>2 DEF WellFormed
<1>13. WellFormed(M) /\ EdgesOf(M) = EdgesOf(L)
  BY <1>1, <1>5, <1>6, <1>11, <1>12, KeepsOrder DEF WellFormed
<1> QED
  BY <1>2, <1>3, <1>6, <1>7, <1>13

\* slide_right that runs off the end changes nothing, unless it meets a sentinel in
\* the last slot.
LEMMA OffTheEndWell ==
  ASSUME NEW L, WellFormed(L), NEW i \in Nat, ~IsSentinel(L.items[L.N - 1])
  PROVE  /\ WellFormed(SlidOffTheEnd(L, i)) /\ SlidOffTheEnd(L, i).N = L.N
         /\ Vertices(SlidOffTheEnd(L, i)) = Vertices(L)
         /\ EdgesOf(SlidOffTheEnd(L, i)) = EdgesOf(L)
         /\ SlidOffTheEnd(L, i).items = L.items
<1>1. IsList(L) /\ L.N \in Nat \ {0} /\ Sole(L)
  BY SlotsFound DEF WellFormed, Placed, PlacedBut
<1>2. PICK nodes, M, W : /\ W = i .. L.N - 2 /\ M = SlidOffTheEnd(L, i)
                         /\ nodes = FixSentinels(L.nodes, SentinelsAt(L.items, W), L.N)
  OBVIOUS
<1>3. M = [N |-> L.N, items |-> L.items, nodes |-> nodes]
  <2>1. M = [L EXCEPT !.nodes = nodes]
    BY <1>2 DEF SlidOffTheEnd
  <2> QED
    BY <1>1, <2>1, Updated
<1>4. Reshaped(L, M, L.N) /\ M.items = L.items
  BY <1>1, <1>2, OffTheEndShape
<1>5. IsList(M) /\ Vertices(M) = Vertices(L) /\ M.N = L.N /\ Slots(M) = Slots(L)
  BY <1>4 DEF Reshaped, Slots
<1>6. M.nodes = FixSentinels(L.nodes, SentinelsAt(M.items, W), M.N)
  BY <1>2, <1>3
<1>7. Sole(M)
  BY <1>1, <1>4, <1>5 DEF Sole
<1>8. ASSUME NEW v \in Vertices(L), NEW p \in Slots(M) \ W, M.items[p] = Sentinel(v)
      PROVE  Noted(L.nodes, M.N, p, v)
  BY <1>4, <1>5, <1>8 DEF WellFormed, Placed, PlacedBut
<1>9. W \subseteq Slots(M)
  BY <1>1, <1>2, <1>5 DEF Slots
<1>10. Placed(M)
  BY <1>1, <1>5, <1>6, <1>7, <1>8, <1>9, FixSentinelsNotes DEF WellFormed
<1>11. InBlocks(M)
  BY <1>4, <1>5 DEF WellFormed, InBlocks, Elements, Occupied
<1>12. OneWriter => Ascending(M)
  BY <1>4, <1>5 DEF WellFormed, Ascending, Elements, Occupied
<1>13. WellFormed(M)
  BY <1>4, <1>5, <1>10, <1>11, <1>12 DEF WellFormed
<1>14. EdgesOf(M) = EdgesOf(L)
  BY <1>4, <1>5 DEF EdgesOf
<1> QED
  BY <1>2, <1>4, <1>5, <1>13, <1>14

----------------------------------------------------------------------------
(* The order of the list.                                                  *)

\* Of two elements in the list the second one is of a later vertex, or it is an
\* edge of the same.
Before(e, f) == Owner(e) < Owner(f) \/ (Owner(e) = Owner(f) /\ IsEdge(f))

\* The blocks, by this order.
LEMMA BlocksFound ==
  ASSUME NEW L, L.N \in Nat
  PROVE  InBlocks(L) <=> \A p, q \in Slots(L) :
           p < q /\ ~IsNull(L.items[p]) /\ ~IsNull(L.items[q]) => Before(L.items[p], L.items[q])
<1>1. Elements(L) = {p \in Slots(L) : ~IsNull(L.items[p])}
  BY DEF Elements, Occupied, Window, Slots
<1>2. InBlocks(L) <=> \A p, q \in Elements(L) : p < q => Before(L.items[p], L.items[q])
  BY DEF InBlocks, Before, Owner
<1> QED
  BY <1>1, <1>2

\* The edges of each vertex, by their destinations.
LEMMA AscendingFound ==
  ASSUME NEW L, L.N \in Nat
  PROVE  Ascending(L) <=> \A p, q \in Slots(L) :
           p < q /\ IsEdge(L.items[p]) /\ IsEdge(L.items[q]) /\ L.items[p].src = L.items[q].src
             => L.items[p].dest < L.items[q].dest
<1>1. Elements(L) = {p \in Slots(L) : ~IsNull(L.items[p])}
  BY DEF Elements, Occupied, Window, Slots
<1> QED
  BY <1>1 DEF Ascending, IsEdge

\* At slot i the edges of src are parted into those whose destinations are below dest
\* and those above.
Parted(L, src, dest, i) ==
  \A p \in Slots(L) : IsEdge(L.items[p]) /\ L.items[p].src = src =>
    IF p < i THEN L.items[p].dest < dest ELSE dest < L.items[p].dest

\* An edge of src may be put at slot i: left of it nothing is of a later vertex, and
\* the sentinel of src is not on the right.
Fits(L, src, i) ==
  \A p \in Slots(L) : ~IsNull(L.items[p]) =>
    IF p < i THEN Owner(L.items[p]) <= src
             ELSE src < Owner(L.items[p]) \/ (src = Owner(L.items[p]) /\ IsEdge(L.items[p]))

\* What a slot of a well-formed list holds.
LEMMA SlotHolds ==
  ASSUME NEW L, WellFormed(L), NEW p \in Slots(L), ~IsNull(L.items[p])
  PROVE  /\ Owner(L.items[p]) \in Vertices(L) /\ Owner(L.items[p]) \in Nat
         /\ IsSentinel(L.items[p]) => L.items[p] = Sentinel(Owner(L.items[p])) /\ ~IsEdge(L.items[p])
         /\ ~IsSentinel(L.items[p]) => L.items[p] \in EdgesFrom(Vertices(L)) /\ IsEdge(L.items[p])
  BY Belongs DEF WellFormed, Placed, PlacedBut, Sole

\* nodes points at the sentinel of a vertex and at that of the next one, or the end
\* of the list.
LEMMA RangeFound ==
  ASSUME NEW L, WellFormed(L), NEW src \in Vertices(L)
  PROVE  LET b == L.nodes[src].beginning
             e == L.nodes[src].end
             last == Cardinality(Vertices(L)) - 1
         IN  /\ b \in Slots(L) /\ e \in Slots(L) /\ L.items[b] = Sentinel(src)
             /\ src \in 0 .. last /\ Vertices(L) = 0 .. last
             /\ src = last => e = L.N - 1
             /\ src # last => src + 1 \in Vertices(L) /\ L.items[e] = Sentinel(src + 1) /\ b < e
<1>1. IsList(L) /\ L.N \in Nat \ {0} /\ Sole(L) /\ Numbered(Vertices(L))
  BY SlotsFound DEF WellFormed, Placed, PlacedBut
<1>2. PICK n \in Nat : Vertices(L) = 0 .. n - 1 /\ Cardinality(Vertices(L)) = n
  BY <1>1, VerticesFound
<1>3. ASSUME NEW v \in Vertices(L)
      PROVE  \E p \in Slots(L) : L.items[p] = Sentinel(v) /\ Noted(L.nodes, L.N, p, v)
  BY <1>1 DEF Sole, WellFormed, Placed, PlacedBut
<1>4. PICK p \in Slots(L) : L.items[p] = Sentinel(src) /\ Noted(L.nodes, L.N, p, src)
  BY <1>3
<1>5. p = L.nodes[src].beginning
  BY <1>4 DEF Noted
<1>6. src \in Nat /\ src <= n - 1 /\ Cardinality(DOMAIN L.nodes) = n
  BY <1>2 DEF Vertices
<1>7. CASE src = n - 1
  <2>1. L.nodes[src].end = L.N - 1 /\ L.N - 1 \in Slots(L)
    BY <1>1, <1>4, <1>6, <1>7 DEF Noted, Slots
  <2> QED
    BY <1>2, <1>4, <1>5, <1>6, <1>7, <2>1
<1>8. CASE src # n - 1
  <2>1. src + 1 \in Vertices(L) /\ src + 1 > 0 /\ (src + 1) - 1 = src
    BY <1>2, <1>6, <1>8
  <2>2. PICK q \in Slots(L) : L.items[q] = Sentinel(src + 1) /\ Noted(L.nodes, L.N, q, src + 1)
    BY <1>3, <2>1
  <2>3. L.nodes[src].end = q
    BY <2>1, <2>2 DEF Noted
  <2>4. /\ ~IsNull(L.items[p]) /\ Owner(L.items[p]) = src
        /\ ~IsNull(L.items[q]) /\ Owner(L.items[q]) = src + 1
    BY <1>1, <1>4, <2>1, <2>2, Kinds
  <2>5. p \in Int /\ q \in Int
    BY <1>1, SlotsFound
  <2>6. ~(q < p)
    <3>1. q < p => Before(L.items[q], L.items[p])
      BY <1>1, <2>4, BlocksFound DEF WellFormed
    <3> QED
      BY <1>6, <2>4, <3>1 DEF Before
  <2>7. p # q
    BY <1>6, <2>4
  <2> QED
    BY <1>2, <1>4, <1>5, <1>6, <1>8, <2>1, <2>2, <2>3, <2>5, <2>6, <2>7
<1> QED
  BY <1>7, <1>8

\* An edge fits everywhere in the range of its source.
LEMMA RangeFits ==
  ASSUME NEW L, WellFormed(L), NEW src \in Vertices(L), NEW i \in Nat,
         L.nodes[src].beginning < i, i <= L.nodes[src].end
  PROVE  Fits(L, src, i)
<1>1. IsList(L) /\ L.N \in Nat \ {0} /\ Slots(L) \subseteq Int /\ Numbered(Vertices(L))
  BY SlotsFound DEF WellFormed
<1>2. PICK b, e, last : /\ b = L.nodes[src].beginning /\ e = L.nodes[src].end
                        /\ last = Cardinality(Vertices(L)) - 1
  OBVIOUS
<1>3. /\ b \in Slots(L) /\ e \in Slots(L) /\ L.items[b] = Sentinel(src)
      /\ src \in 0 .. last /\ Vertices(L) = 0 .. last
      /\ src # last => src + 1 \in Vertices(L) /\ L.items[e] = Sentinel(src + 1)
  BY <1>2, RangeFound
<1>4. ASSUME NEW p \in Slots(L), ~IsNull(L.items[p]), p < i PROVE Owner(L.items[p]) <= src
  <2>1. Owner(L.items[p]) \in 0 .. last /\ p \in Int
    BY <1>1, <1>3, <1>4, SlotHolds
  <2>2. CASE src # last
    <3>1. p < e
      BY <1>1, <1>2, <1>3, <1>4, <2>1
    <3>2. ~IsNull(L.items[e]) /\ Owner(L.items[e]) = src + 1 /\ ~IsEdge(L.items[e])
      <4>1. src + 1 \in Vertices(L) /\ L.items[e] = Sentinel(src + 1) /\ Numbered(Vertices(L))
        BY <1>1, <1>3, <2>2
      <4> QED
        BY <4>1, Kinds
    <3>3. Before(L.items[p], L.items[e])
      BY <1>1, <1>3, <1>4, <3>1, <3>2, BlocksFound DEF WellFormed
    <3> QED
      BY <1>3, <2>1, <3>2, <3>3 DEF Before
  <2> QED
    BY <1>3, <2>1, <2>2
<1>5. ASSUME NEW p \in Slots(L), ~IsNull(L.items[p]), ~(p < i)
      PROVE  src < Owner(L.items[p]) \/ (src = Owner(L.items[p]) /\ IsEdge(L.items[p]))
  <2>1. b < p
    BY <1>1, <1>2, <1>3, <1>5
  <2>2. ~IsNull(L.items[b]) /\ Owner(L.items[b]) = src
    <3>1. L.items[b] = Sentinel(src) /\ Numbered(Vertices(L))
      BY <1>1, <1>3
    <3> QED
      BY <3>1, Kinds
  <2>3. Before(L.items[b], L.items[p])
    BY <1>1, <1>3, <1>5, <2>1, <2>2, BlocksFound DEF WellFormed
  <2> QED
    BY <2>2, <2>3 DEF Before
<1> QED
  BY <1>4, <1>5 DEF Fits

\* Where the search for an edge ends the edge fits, unless its source is the last
\* vertex and has its sentinel in the last slot.
LEMMA FindFits ==
  ASSUME NEW L, WellFormed(L), NEW src \in Vertices(L), NEW dest
  PROVE  LET i == FindEdge(L, src, dest)
         IN  /\ i \in Slots(L)
             /\ Fits(L, src, i) \/ (i = L.N - 1 /\ L.items[i] = Sentinel(src))
<1>1. IsList(L) /\ L.N \in Nat \ {0} /\ Slots(L) = 0 .. L.N - 1
  BY SlotsFound DEF WellFormed, Slots
<1>2. PICK b, e, i, last : /\ b = L.nodes[src].beginning /\ e = L.nodes[src].end
                           /\ i = FindEdge(L, src, dest) /\ last = Cardinality(Vertices(L)) - 1
  OBVIOUS
<1>3. /\ b \in Slots(L) /\ e \in Slots(L) /\ L.items[b] = Sentinel(src)
      /\ src = last => e = L.N - 1
      /\ src # last => b < e
  BY <1>2, RangeFound
<1>4. b + 1 \in Nat /\ e \in Nat
  BY <1>1, <1>3
<1>5. /\ i \in Nat /\ i <= e
      /\ b + 1 <= e => b + 1 <= i
      /\ e < b + 1 => i = e
  BY <1>2, <1>4, SearchFound DEF FindEdge
<1>6. CASE b < e
  <2>1. b < i
    BY <1>1, <1>3, <1>5, <1>6
  <2>2. Fits(L, src, i)
    BY <1>2, <1>5, <2>1, RangeFits
  <2>3. i \in Slots(L)
    BY <1>1, <1>3, <1>5
  <2> QED
    BY <1>2, <2>2, <2>3
<1>7. CASE ~(b < e)
  <2>1. e = L.N - 1 /\ b = e /\ i = e
    BY <1>1, <1>3, <1>5, <1>7
  <2> QED
    BY <1>2, <1>3, <2>1
<1> QED
  BY <1>6, <1>7

\* The first slot holds the sentinel of vertex 0 ...
LEMMA FirstFound ==
  ASSUME NEW L, WellFormed(L)
  PROVE  Vertices(L) # {} /\ IsSentinel(L.items[0]) /\ VertexOf(L.items[0]) = 0
<1>1. /\ IsList(L) /\ L.N \in Nat /\ Slots(L) \subseteq Nat /\ 0 \in Slots(L) /\ Sole(L)
      /\ ~IsNull(L.items[0]) /\ Numbered(Vertices(L))
  BY SlotsFound DEF WellFormed, Placed, PlacedBut, Slots
<1>2. Owner(L.items[0]) \in Vertices(L)
  BY <1>1, SlotHolds
<1>3. 0 \in Vertices(L)
  BY <1>1, <1>2, VerticesFound
<1>4. PICK p \in Slots(L) : L.items[p] = Sentinel(0)
  BY <1>1, <1>3 DEF Sole
<1>5. /\ ~IsNull(Sentinel(0)) /\ IsSentinel(Sentinel(0)) /\ ~IsEdge(Sentinel(0))
      /\ VertexOf(Sentinel(0)) = 0 /\ Owner(Sentinel(0)) = 0
  BY <1>1, <1>3, Kinds
<1>6. p = 0
  <2>1. 0 < p => Before(L.items[0], L.items[p])
    BY <1>1, <1>4, <1>5, BlocksFound DEF WellFormed
  <2>2. Owner(L.items[0]) \in Nat
    BY <1>1, SlotHolds
  <2> QED
    BY <1>1, <1>4, <1>5, <2>1, <2>2 DEF Before
<1> QED
  BY <1>3, <1>4, <1>5, <1>6

\* ... so no edge fits there.
LEMMA FitsBehind ==
  ASSUME NEW L, WellFormed(L), NEW src \in Nat, NEW i \in Nat, Fits(L, src, i)
  PROVE  0 < i
<1>1. 0 \in Slots(L) /\ ~IsNull(L.items[0])
  BY SlotsFound DEF WellFormed, Slots
<1>2. ~IsEdge(L.items[0]) /\ Owner(L.items[0]) = 0
  BY FirstFound DEF IsEdge, Owner
<1> QED
  BY <1>1, <1>2 DEF Fits

----------------------------------------------------------------------------
(* insert, the slot.                                                       *)

\* An edge put into an empty slot where it fits keeps a list well formed.
LEMMA FillWell ==
  ASSUME NEW L, WellFormed(L), NEW i \in Slots(L), IsNull(L.items[i]),
         NEW e \in EdgesFrom(Vertices(L)), Fits(L, e.src, i),
         OneWriter => Parted(L, e.src, e.dest, i), NEW M, Wrote(L, M, i, e)
  PROVE  WellFormed(M)
<1>1. /\ IsList(L) /\ Numbered(Vertices(L)) /\ Sole(L) /\ L.N \in Nat /\ Slots(L) \subseteq Int
  BY SlotsFound DEF WellFormed, Placed, PlacedBut
<1>2. Reshaped(L, M, L.N) /\ \A p \in Slots(L) : M.items[p] = IF p = i THEN e ELSE L.items[p]
  BY <1>1, WriteItems
<1>3. IsList(M) /\ Vertices(M) = Vertices(L) /\ M.N = L.N /\ Slots(M) = Slots(L)
  BY <1>2 DEF Reshaped, Slots
<1>4. M.nodes = L.nodes
  BY <1>1 DEF Wrote, IsList
<1>5. ~IsNull(e) /\ ~IsSentinel(e) /\ IsEdge(e) /\ Owner(e) = e.src /\ Owner(e) \in Nat
  <2>1. Proper(e, Vertices(L))
    BY DEF Proper
  <2> QED
    BY <1>1, <2>1, Kinds, Belongs
<1>6. ASSUME NEW v \in Vertices(L), NEW p \in Slots(L)
      PROVE  M.items[p] = Sentinel(v) <=> L.items[p] = Sentinel(v)
  <2>1. ~IsNull(Sentinel(v)) /\ IsSentinel(Sentinel(v))
    BY <1>1, Kinds
  <2> QED
    BY <1>2, <1>5, <2>1
<1>7. Sole(M)
  BY <1>1, <1>2, <1>3, <1>6 DEF Sole, Proper
<1>8. Placed(M)
  BY <1>3, <1>4, <1>6, <1>7 DEF WellFormed, Placed, PlacedBut
<1>9. ASSUME NEW p \in Slots(M), NEW q \in Slots(M), p < q,
             ~IsNull(M.items[p]), ~IsNull(M.items[q])
      PROVE  Before(M.items[p], M.items[q])
  <2>1. p \in Slots(L) /\ q \in Slots(L) /\ p \in Int /\ q \in Int /\ i \in Int
    BY <1>1, <1>3
  <2>2. CASE p = i
    <3>1. q # i /\ ~(q < i) /\ M.items[q] = L.items[q] /\ M.items[p] = e
      BY <1>2, <1>9, <2>1, <2>2
    <3> QED
      BY <1>5, <1>9, <2>1, <3>1 DEF Fits, Before
  <2>3. CASE q = i
    <3>1. p # i /\ p < i /\ M.items[p] = L.items[p] /\ M.items[q] = e
      BY <1>2, <1>9, <2>1, <2>3
    <3>2. Owner(L.items[p]) <= Owner(e) /\ Owner(L.items[p]) \in Nat
      BY <1>5, <1>9, <2>1, <3>1, SlotHolds DEF Fits
    <3> QED
      BY <1>5, <3>1, <3>2 DEF Before
  <2>4. CASE p # i /\ q # i
    BY <1>1, <1>2, <1>9, <2>1, <2>4, BlocksFound DEF WellFormed
  <2> QED
    BY <2>2, <2>3, <2>4
<1>10. InBlocks(M)
  BY <1>1, <1>3, <1>9, BlocksFound
<1>11. ~IsNull(M.items[0])
  <2>1. 0 \in Slots(L)
    BY <1>1, SlotsFound DEF Slots
  <2> QED
    BY <1>2, <1>5, <2>1 DEF WellFormed
<1>12. ASSUME OneWriter PROVE Ascending(M)
  <2>1. Ascending(L) /\ Parted(L, e.src, e.dest, i)
    BY <1>12 DEF WellFormed
  <2>2. ASSUME NEW p \in Slots(M), NEW q \in Slots(M), p < q,
               IsEdge(M.items[p]), IsEdge(M.items[q]), M.items[p].src = M.items[q].src
        PROVE  M.items[p].dest < M.items[q].dest
    <3>1. p \in Slots(L) /\ q \in Slots(L) /\ p \in Int /\ q \in Int /\ i \in Int
      BY <1>1, <1>3
    <3>2. CASE p = i
      <4>1. q # i /\ ~(q < i) /\ M.items[q] = L.items[q] /\ M.items[p] = e
        BY <1>2, <2>2, <3>1, <3>2
      <4> QED
        BY <2>1, <2>2, <3>1, <4>1 DEF Parted
    <3>3. CASE q = i
      <4>1. p # i /\ p < i /\ M.items[p] = L.items[p] /\ M.items[q] = e
        BY <1>2, <2>2, <3>1, <3>3
      <4> QED
        BY <2>1, <2>2, <3>1, <4>1 DEF Parted
    <3>4. CASE p # i /\ q # i
      BY <1>1, <1>2, <2>1, <2>2, <3>1, <3>4, AscendingFound
    <3> QED
      BY <3>2, <3>3, <3>4
  <2> QED
    BY <1>1, <1>3, <2>2, AscendingFound
<1> QED
  BY <1>1, <1>3, <1>8, <1>10, <1>11, <1>12 DEF WellFormed

\* Each element of M, by its place before or after slot j, is one of L before or after i.
Sides(L, i, M, j) ==
  \A p \in Slots(M) : ~IsNull(M.items[p]) =>
    \E q \in Slots(L) : M.items[p] = L.items[q] /\ (p < j <=> q < i)

\* So what fits at i fits at j.
LEMMA SidesFit ==
  ASSUME NEW L, NEW i, NEW M, NEW j, Sides(L, i, M, j), NEW src, NEW dest
  PROVE  /\ Fits(L, src, i) => Fits(M, src, j)
         /\ Parted(L, src, dest, i) => Parted(M, src, dest, j)
<1>1. ASSUME NEW p \in Slots(M), ~IsNull(M.items[p])
      PROVE  \E q \in Slots(L) : M.items[p] = L.items[q] /\ (p < j <=> q < i)
  BY <1>1 DEF Sides
<1>2. ASSUME Fits(L, src, i), NEW p \in Slots(M), ~IsNull(M.items[p])
      PROVE  IF p < j THEN Owner(M.items[p]) <= src
             ELSE src < Owner(M.items[p]) \/ (src = Owner(M.items[p]) /\ IsEdge(M.items[p]))
  <2>1. PICK q \in Slots(L) : M.items[p] = L.items[q] /\ (p < j <=> q < i)
    BY <1>1, <1>2
  <2> QED
    BY <1>2, <2>1 DEF Fits
<1>3. ASSUME Parted(L, src, dest, i), NEW p \in Slots(M), IsEdge(M.items[p]), M.items[p].src = src
      PROVE  IF p < j THEN M.items[p].dest < dest ELSE dest < M.items[p].dest
  <2>1. PICK q \in Slots(L) : M.items[p] = L.items[q] /\ (p < j <=> q < i)
    BY <1>1, <1>3 DEF IsEdge
  <2> QED
    BY <1>3, <2>1 DEF Parted
<1> QED
  BY <1>2, <1>3 DEF Fits, Parted

\* It makes room there, at a slot where the edge fits.
LEMMA RoomWell ==
  ASSUME NEW L, WellFormed(L), NEW i \in Slots(L), Roomy(L, i), NEW src \in Nat, Fits(L, src, i)
  PROVE  LET room == MakeRoom(L, i)
         IN  /\ WellFormed(room.list) /\ room.list.N = L.N /\ Vertices(room.list) = Vertices(L)
             /\ room.at \in Slots(L) /\ IsNull(room.list.items[room.at])
             /\ Sides(L, i, room.list, room.at) /\ EdgesOf(room.list) = EdgesOf(L)
<1>1. IsList(L) /\ L.N \in Nat \ {0} /\ Slots(L) = 0 .. L.N - 1 /\ i \in Nat
  BY SlotsFound DEF WellFormed, Slots
<1>2. PICK room : room = MakeRoom(L, i)
  OBVIOUS
<1>3. IsNull(Null)
  BY DEF IsNull, Null
<1>4. CASE IsNull(L.items[i])
  <2>1. room.list = L /\ room.at = i
    BY <1>2, <1>4 DEF MakeRoom
  <2>2. Sides(L, i, L, i)
    BY DEF Sides
  <2> QED
    BY <1>2, <1>4, <2>1, <2>2
<1>5. CASE ~IsNull(L.items[i]) /\ NextNull(L, i) < L.N
  <2>1. PICK n, M : n = NextNull(L, i) /\ M = ShiftRight(L, i, n)
    OBVIOUS
  <2>2. room.list = M /\ room.at = i
    BY <1>2, <1>5, <2>1 DEF MakeRoom
  <2>3. n \in Slots(L) /\ i < n /\ IsNull(L.items[n])
    <3>1. n \in Nat /\ i < n /\ IsNull(L.items[n])
      <4>1. L.N \in Nat /\ i \in Nat /\ NextNull(L, i) < L.N
        BY <1>1, <1>5
      <4> QED
        BY <2>1, <4>1, NextNullFound
    <3>2. n < L.N
      BY <1>5, <2>1
    <3> QED
      BY <1>1, <3>1, <3>2
  <2>4. /\ WellFormed(M) /\ M.N = L.N /\ Vertices(M) = Vertices(L) /\ EdgesOf(M) = EdgesOf(L)
        /\ \A p \in Slots(L) : M.items[p] = IF p = i THEN Null
                                            ELSE IF p \in i + 1 .. n THEN L.items[p - 1]
                                            ELSE L.items[p]
    <3>1. 0 < i
      BY <1>1, FitsBehind
    <3> QED
      BY <2>1, <2>3, <3>1, ShiftRightWell
  <2>5. Slots(M) = Slots(L)
    BY <2>4 DEF Slots
  <2>6. ASSUME NEW p \in Slots(M), ~IsNull(M.items[p])
        PROVE  \E q \in Slots(L) : M.items[p] = L.items[q] /\ (p < i <=> q < i)
    <3>1. p \in Int /\ p # i
      BY <1>1, <1>3, <2>4, <2>5, <2>6
    <3>2. CASE p \in i + 1 .. n
      <4>1. p - 1 \in Slots(L) /\ ~(p < i) /\ ~(p - 1 < i)
        BY <1>1, <2>3, <3>2
      <4> QED
        BY <2>4, <2>5, <3>1, <3>2, <4>1
    <3>3. CASE p \notin i + 1 .. n
      BY <2>4, <2>5, <3>1, <3>3
    <3> QED
      BY <3>2, <3>3
  <2>7. Sides(L, i, M, i)
    BY <2>6 DEF Sides
  <2>8. IsNull(M.items[i])
    BY <1>3, <2>4
  <2> QED
    BY <1>2, <2>2, <2>4, <2>7, <2>8
<1>6. CASE ~IsNull(L.items[i]) /\ ~(NextNull(L, i) < L.N)
  <2>1. PICK S : S = SlidOffTheEnd(L, i)
    OBVIOUS
  <2>2. ~IsSentinel(L.items[L.N - 1]) /\ PrevNull(L, i - 1) >= 0
    BY <1>6 DEF Roomy
  <2>3. /\ WellFormed(S) /\ S.N = L.N /\ Vertices(S) = Vertices(L) /\ S.items = L.items
        /\ Slots(S) = Slots(L) /\ EdgesOf(S) = EdgesOf(L)
    BY <1>1, <2>1, <2>2, OffTheEndWell DEF Slots
  <2>4. PrevNull(S, i - 1) = PrevNull(L, i - 1)
    BY <2>3 DEF PrevNull
  <2>5. PICK n, M : n = PrevNull(S, i - 1) /\ M = ShiftLeft(S, i - 1, n)
    OBVIOUS
  <2>6. room.list = M /\ room.at = i - 1
    BY <1>2, <1>6, <2>1, <2>2, <2>4, <2>5 DEF MakeRoom, SlideLeft
  <2>7. n \in 0 .. i - 2 /\ IsNull(S.items[n])
    <3>1. PICK k \in Int : k = i - 1
      BY <1>1
    <3>2. n = PrevNull(S, k) /\ n >= 0
      BY <2>2, <2>4, <2>5, <3>1
    <3>3. n # -1
      BY <3>2
    <3>4. n \in 0 .. k - 1 /\ IsNull(S.items[n])
      BY <3>2, <3>3, PrevNullFound
    <3> QED
      BY <1>1, <3>1, <3>4
  <2>8. n \in Slots(S) /\ i - 1 \in Slots(S) /\ n < i - 1
    BY <1>1, <2>3, <2>7
  <2>9. /\ WellFormed(M) /\ M.N = S.N /\ Vertices(M) = Vertices(S) /\ EdgesOf(M) = EdgesOf(S)
        /\ \A p \in Slots(S) : M.items[p] = IF p = i - 1 THEN Null
                                            ELSE IF p \in n .. (i - 1) - 1 THEN S.items[p + 1]
                                            ELSE S.items[p]
    <3>1. PICK k : k = i - 1
      OBVIOUS
    <3>2. k \in Slots(S) /\ n \in Slots(S) /\ n < k /\ IsNull(S.items[n]) /\ M = ShiftLeft(S, k, n)
      BY <2>5, <2>7, <2>8, <3>1
    <3>3. /\ WellFormed(M) /\ M.N = S.N /\ Vertices(M) = Vertices(S) /\ EdgesOf(M) = EdgesOf(S)
          /\ \A p \in Slots(S) : M.items[p] = IF p = k THEN Null
                                              ELSE IF p \in n .. k - 1 THEN S.items[p + 1]
                                              ELSE S.items[p]
      BY <2>3, <3>2, ShiftLeftWell
    <3> QED
      BY <3>1, <3>3
  <2>10. Slots(M) = Slots(L)
    BY <2>3, <2>9 DEF Slots
  <2>11. ASSUME NEW p \in Slots(M), ~IsNull(M.items[p])
         PROVE  \E q \in Slots(L) : M.items[p] = L.items[q] /\ (p < i - 1 <=> q < i)
    <3>1. p \in Int /\ p # i - 1
      BY <1>1, <1>3, <2>3, <2>9, <2>10, <2>11
    <3>2. CASE p \in n .. (i - 1) - 1
      <4>1. p + 1 \in Slots(L) /\ p < i - 1 /\ p + 1 < i
        BY <1>1, <2>7, <3>2
      <4>2. M.items[p] = L.items[p + 1]
        BY <2>3, <2>9, <2>10, <3>1, <3>2
      <4> QED
        BY <4>1, <4>2
    <3>3. CASE p \notin n .. (i - 1) - 1
      <4>1. M.items[p] = L.items[p] /\ p \in Slots(L)
        BY <2>3, <2>9, <2>10, <3>1, <3>3
      <4>2. p < i - 1 <=> p < i
        BY <1>1, <3>1
      <4> QED
        BY <4>1, <4>2
    <3> QED
      BY <3>2, <3>3
  <2>12. Sides(L, i, M, i - 1)
    BY <2>11 DEF Sides
  <2>13. EdgesOf(M) = EdgesOf(L)
    BY <2>3, <2>9
  <2>14. IsNull(M.items[i - 1])
    BY <1>3, <2>8, <2>9
  <2> QED
    BY <1>2, <2>3, <2>6, <2>8, <2>9, <2>12, <2>13, <2>14
<1> QED
  BY <1>4, <1>5, <1>6

\* An edge written into an empty slot is one more.
LEMMA FillEdges ==
  ASSUME NEW L, WellFormed(L), NEW i \in Slots(L), IsNull(L.items[i]),
         NEW e \in EdgesFrom(Vertices(L)), NEW M, Wrote(L, M, i, e)
  PROVE  EdgesOf(M) = EdgesOf(L) \cup {<<e.src, e.dest, e.value>>}
<1>1. /\ Slots(M) = Slots(L) /\ IsEdge(e)
      /\ \A p \in Slots(L) : M.items[p] = IF p = i THEN e ELSE L.items[p]
  <2>1. Reshaped(L, M, L.N) /\ \A p \in Slots(L) : M.items[p] = IF p = i THEN e ELSE L.items[p]
    BY WriteItems DEF WellFormed
  <2>2. IsEdge(e)
    BY Kinds DEF WellFormed
  <2> QED
    BY <2>1, <2>2 DEF Reshaped, Slots
<1>2. ~IsEdge(L.items[i])
  BY DEF IsEdge
<1>3. ASSUME NEW x \in EdgesOf(M) PROVE x \in EdgesOf(L) \cup {<<e.src, e.dest, e.value>>}
  <2>1. PICK p \in Slots(M) : /\ IsEdge(M.items[p])
                              /\ x = <<M.items[p].src, M.items[p].dest, M.items[p].value>>
    BY <1>3 DEF EdgesOf
  <2>2. CASE p = i
    BY <1>1, <2>1, <2>2
  <2>3. CASE p # i
    BY <1>1, <2>1, <2>3 DEF EdgesOf
  <2> QED
    BY <2>2, <2>3
<1>4. ASSUME NEW x \in EdgesOf(L) PROVE x \in EdgesOf(M)
  <2>1. PICK p \in Slots(L) : /\ IsEdge(L.items[p])
                              /\ x = <<L.items[p].src, L.items[p].dest, L.items[p].value>>
    BY <1>4 DEF EdgesOf
  <2>2. p # i
    BY <1>2, <2>1
  <2> QED
    BY <1>1, <2>1, <2>2 DEF EdgesOf
<1>5. <<e.src, e.dest, e.value>> \in EdgesOf(M)
  BY <1>1 DEF EdgesOf
<1> QED
  BY <1>3, <1>4, <1>5

\* So an edge put where it fits keeps a list well formed.
LEMMA PutWell ==
  ASSUME NEW L, WellFormed(L), NEW i \in Slots(L), Roomy(L, i),
         NEW e \in EdgesFrom(Vertices(L)), Fits(L, e.src, i),
         OneWriter => Parted(L, e.src, e.dest, i)
  PROVE  /\ WellFormed(Put(L, i, e)) /\ Put(L, i, e).N = L.N
         /\ Vertices(Put(L, i, e)) = Vertices(L)
         /\ EdgesOf(Put(L, i, e)) = EdgesOf(L) \cup {<<e.src, e.dest, e.value>>}
<1>1. PICK room, M : room = MakeRoom(L, i) /\ M = Put(L, i, e)
  OBVIOUS
<1>2. PICK R, at : R = room.list /\ at = room.at
  OBVIOUS
<1>3. /\ WellFormed(R) /\ R.N = L.N /\ Vertices(R) = Vertices(L)
      /\ at \in Slots(L) /\ IsNull(R.items[at])
      /\ Sides(L, i, R, at) /\ EdgesOf(R) = EdgesOf(L)
  <2>1. e.src \in Nat
    BY DEF EdgesFrom, WellFormed, Numbered
  <2> QED
    BY <1>1, <1>2, <2>1, RoomWell
<1>4. Slots(R) = Slots(L)
  BY <1>3 DEF Slots
<1>5. Wrote(R, M, at, e)
  BY <1>1, <1>2 DEF Put, Wrote
<1>6. Reshaped(R, M, R.N)
  BY <1>3, <1>5, WriteItems DEF WellFormed
<1>7. Fits(R, e.src, at) /\ (OneWriter => Parted(R, e.src, e.dest, at))
  BY <1>3, SidesFit
<1>8. WellFormed(M)
  BY <1>3, <1>4, <1>5, <1>7, FillWell
<1>9. EdgesOf(M) = EdgesOf(L) \cup {<<e.src, e.dest, e.value>>}
  BY <1>3, <1>4, <1>5, FillEdges
<1> QED
  BY <1>1, <1>3, <1>6, <1>8, <1>9 DEF Reshaped

\* Two elements of the same vertex, both its sentinel or both edges.
Alike(e, f) ==
  ~IsNull(e) /\ Owner(e) = Owner(f) /\ (IsEdge(e) <=> IsEdge(f)) /\ ~IsNull(f)

\* Overwriting an edge by nothing, or by another with its source and destination,
\* keeps a list well formed.
LEMMA ReplaceWell ==
  ASSUME NEW L, WellFormed(L), NEW i \in Slots(L), IsEdge(L.items[i]), NEW e,
         \/ e = Null
         \/ /\ e \in EdgesFrom(Vertices(L))
            /\ e.src = L.items[i].src /\ e.dest = L.items[i].dest,
         NEW M, Wrote(L, M, i, e)
  PROVE  WellFormed(M)
<1>1. /\ IsList(L) /\ Numbered(Vertices(L)) /\ Sole(L) /\ L.N \in Nat /\ Slots(L) \subseteq Int
  BY SlotsFound DEF WellFormed, Placed, PlacedBut
<1>2. Reshaped(L, M, L.N) /\ \A p \in Slots(L) : M.items[p] = IF p = i THEN e ELSE L.items[p]
  BY <1>1, WriteItems
<1>3. IsList(M) /\ Vertices(M) = Vertices(L) /\ M.N = L.N /\ Slots(M) = Slots(L)
  BY <1>2 DEF Reshaped, Slots
<1>4. M.nodes = L.nodes
  BY <1>1 DEF Wrote, IsList
<1>5. IsNull(e) \/ Alike(e, L.items[i])
  <2>1. e = Null => IsNull(e)
    BY DEF IsNull, Null
  <2>2. ~IsNull(L.items[i]) /\ ~IsSentinel(L.items[i]) /\ Owner(L.items[i]) = L.items[i].src
    BY DEF IsEdge, Owner
  <2> QED
    BY <1>1, <2>1, <2>2, Kinds DEF Alike
<1>6. IsNull(e) \/ e \in EdgesFrom(Vertices(L))
  BY DEF IsNull, Null
<1>7. ASSUME NEW v \in Vertices(L), NEW p \in Slots(L)
      PROVE  M.items[p] = Sentinel(v) <=> L.items[p] = Sentinel(v)
  <2>1. ~IsNull(Sentinel(v)) /\ IsSentinel(Sentinel(v))
    BY <1>1, Kinds
  <2>2. e # Sentinel(v) /\ L.items[i] # Sentinel(v)
    BY <1>1, <1>6, <2>1, Kinds DEF IsEdge
  <2> QED
    BY <1>2, <2>2
<1>8. Sole(M)
  BY <1>1, <1>2, <1>3, <1>6, <1>7 DEF Sole, Proper
<1>9. Placed(M)
  BY <1>3, <1>4, <1>7, <1>8 DEF WellFormed, Placed, PlacedBut
<1>10. ASSUME NEW p \in Slots(M), NEW q \in Slots(M), p < q,
              ~IsNull(M.items[p]), ~IsNull(M.items[q])
       PROVE  Before(M.items[p], M.items[q])
  <2>1. /\ ~IsNull(L.items[p]) /\ Owner(M.items[p]) = Owner(L.items[p])
        /\ ~IsNull(L.items[q]) /\ Owner(M.items[q]) = Owner(L.items[q])
        /\ IsEdge(L.items[q]) => IsEdge(M.items[q])
    BY <1>2, <1>3, <1>5, <1>10 DEF Alike
  <2>2. Before(L.items[p], L.items[q])
    BY <1>1, <1>3, <1>10, <2>1, BlocksFound DEF WellFormed
  <2> QED
    BY <2>1, <2>2 DEF Before
<1>11. InBlocks(M)
  BY <1>1, <1>3, <1>10, BlocksFound
<1>12. ~IsNull(M.items[0])
  <2>1. 0 \in Slots(L) /\ i # 0
    <3>1. 0 \in Slots(L)
      BY <1>1, SlotsFound DEF Slots
    <3> QED
      BY <3>1, FirstFound DEF IsEdge
  <2> QED
    BY <1>2, <2>1 DEF WellFormed
<1>13. ASSUME OneWriter PROVE Ascending(M)
  <2>1. Ascending(L)
    BY <1>13 DEF WellFormed
  <2>2. ASSUME NEW p \in Slots(M), IsEdge(M.items[p])
        PROVE  IsEdge(L.items[p]) /\ M.items[p].src = L.items[p].src
                                  /\ M.items[p].dest = L.items[p].dest
    BY <1>2, <1>3, <1>6, <2>2 DEF IsEdge, IsNull, Null
  <2>3. ASSUME NEW p \in Slots(M), NEW q \in Slots(M), p < q,
               IsEdge(M.items[p]), IsEdge(M.items[q]), M.items[p].src = M.items[q].src
        PROVE  M.items[p].dest < M.items[q].dest
    BY <1>1, <1>3, <2>1, <2>2, <2>3, AscendingFound
  <2> QED
    BY <1>1, <1>3, <2>3, AscendingFound
<1> QED
  BY <1>1, <1>3, <1>9, <1>11, <1>12, <1>13 DEF WellFormed

----------------------------------------------------------------------------
(* insert and remove.                                                      *)

\* What insert does to the leaf keeps a list well formed ...
LEMMA EvenOutWell ==
  ASSUME NEW L, WellFormed(L), Height(L.N) > 0, NEW i \in Slots(L)
  PROVE  /\ WellFormed(EvenOut(L, i, LogN(L.N)))
         /\ EdgesOf(EvenOut(L, i, LogN(L.N))) = EdgesOf(L)
         /\ WellFormed(Redistribute(L, FindLeaf(L, i), LogN(L.N)))
         /\ EdgesOf(Redistribute(L, FindLeaf(L, i), LogN(L.N))) = EdgesOf(L)
         /\ SpreadWindow(L, i, LogN(L.N)).start \in Slots(L)
<1>1. PICK len, leaf, parent :
        len = LogN(L.N) /\ leaf = FindNode(i, len) /\ parent = FindNode(leaf, 2 * len)
  OBVIOUS
<1>2. /\ len \in Nat \ {0} /\ leaf \in Nat /\ parent \in Nat /\ leaf \in Slots(L)
      /\ Window(leaf, len) \subseteq Slots(L) /\ Window(parent, 2 * len) \subseteq Slots(L)
  BY <1>1, LeafInside DEF WellFormed
<1>3. /\ EvenOut(L, i, len) \in {Redistribute(L, leaf, len), Redistribute(L, parent, 2 * len)}
      /\ SpreadWindow(L, i, len).start \in {leaf, parent}
  BY <1>1 DEF EvenOut, SpreadWindow
<1>4. WellFormed(Redistribute(L, leaf, len)) /\ EdgesOf(Redistribute(L, leaf, len)) = EdgesOf(L)
  BY <1>2, RedistributeWell
<1>5. 2 * len \in Nat \ {0}
  BY <1>2
<1>6. /\ WellFormed(Redistribute(L, parent, 2 * len))
      /\ EdgesOf(Redistribute(L, parent, 2 * len)) = EdgesOf(L)
  BY <1>2, <1>5, RedistributeWell
<1>7. parent \in Slots(L)
  <2>1. parent \in Window(parent, 2 * len)
    BY <1>2 DEF Window
  <2> QED
    BY <1>2, <2>1
<1> QED
  BY <1>1, <1>2, <1>3, <1>4, <1>6, <1>7 DEF FindLeaf

\* ... what follows, whatever it was told ...
LEMMA SettleWell ==
  ASSUME NEW L, WellFormed(L), Height(L.N) > 0, NEW leaf \in Slots(L), NEW info \in Infos,
         info.kind = "range" => Window(info.start, info.len) \subseteq Slots(L)
  PROVE  WellFormed(Settle(L, leaf, info)) /\ EdgesOf(Settle(L, leaf, info)) = EdgesOf(L)
<1>1. IsList(L) /\ LogN(L.N) \in Nat \ {0} /\ Height(L.N) \in Nat
  <2>1. IsList(L)
    BY DEF WellFormed
  <2> QED
    BY <2>1, LeafLength DEF IsList
<1>2. CASE info = DoubleInfo
  BY <1>2, DoubleWell DEF Settle, DoubleInfo
<1>3. CASE info = NoInfo
  <2>1. PICK j : j = InsertLevel(L, leaf)
    OBVIOUS
  <2>2. j \in 0 .. Height(L.N) + 1 /\ leaf \in Nat
    <3>1. j \in 0 .. Height(L.N) + 1
      BY <1>1, <2>1, InsertLevelFound
    <3> QED
      BY <3>1 DEF Slots
  <2>3. Settle(L, leaf, info) = IF j > Height(L.N) THEN DoubleList(L)
                                ELSE IF j = 0 THEN L
                                ELSE Redistribute(L, StartAt(L, leaf, j), LenAt(L, j))
    BY <1>3, <2>1 DEF Settle, NoInfo, Rebalance
  <2>4. CASE j > Height(L.N)
    BY <2>3, <2>4, DoubleWell
  <2>5. CASE j \in 0 .. Height(L.N)
    <3>1. StartAt(L, leaf, j) \in Nat /\ LenAt(L, j) \in Nat \ {0}
      BY <1>1, <2>2, LevelFound
    <3>2. Window(StartAt(L, leaf, j), LenAt(L, j)) \subseteq Slots(L)
      <4>1. j \in 0 .. j
        BY <2>2
      <4> QED
        BY <1>1, <2>5, <4>1, LevelsNest
    <3>3. /\ WellFormed(Redistribute(L, StartAt(L, leaf, j), LenAt(L, j)))
          /\ EdgesOf(Redistribute(L, StartAt(L, leaf, j), LenAt(L, j))) = EdgesOf(L)
      BY <3>1, <3>2, RedistributeWell
    <3>4. ~(j > Height(L.N))
      BY <1>1, <2>5
    <3> QED
      BY <2>3, <3>3, <3>4
  <2> QED
    BY <1>1, <2>2, <2>4, <2>5
<1>4. CASE info \notin {NoInfo, DoubleInfo}
  <2>1. PICK start \in Nat, len \in Nat : info = RangeInfo(start, len)
    BY <1>4 DEF Infos
  <2>2. info.kind = "range" /\ info.start = start /\ info.len = len
    BY <2>1 DEF RangeInfo
  <2>3. Settle(L, leaf, info) = IF len > LogN(L.N) THEN Redistribute(L, start, len) ELSE L
    BY <2>2 DEF Settle
  <2>4. CASE len > LogN(L.N)
    <3>1. len \in Nat \ {0} /\ Window(start, len) \subseteq Slots(L)
      BY <1>1, <2>2, <2>4
    <3> QED
      BY <2>3, <2>4, <3>1, RedistributeWell
  <2> QED
    BY <2>3, <2>4
<1> QED
  BY <1>2, <1>3, <1>4

\* ... and all of it.
LEMMA DepositWell ==
  ASSUME NEW L, WellFormed(L), Height(L.N) > 0, NEW i \in Slots(L), Roomy(L, i),
         NEW e \in EdgesFrom(Vertices(L)), Fits(L, e.src, i),
         OneWriter => Parted(L, e.src, e.dest, i), NEW info \in {NoInfo, DoubleInfo}
  PROVE  /\ WellFormed(Deposit(L, i, e, info))
         /\ EdgesOf(Deposit(L, i, e, info)) = EdgesOf(L) \cup {<<e.src, e.dest, e.value>>}
<1>1. PICK len, written : len = LogN(L.N) /\ written = Put(L, i, e)
  OBVIOUS
<1>2. PICK even, leaf : /\ even = EvenOut(written, i, len)
                        /\ leaf = SpreadWindow(written, i, len).start
  OBVIOUS
<1>3. Deposit(L, i, e, info) = Settle(even, leaf, info)
  BY <1>1, <1>2 DEF Deposit
<1>4. /\ WellFormed(written) /\ written.N = L.N
      /\ EdgesOf(written) = EdgesOf(L) \cup {<<e.src, e.dest, e.value>>}
  BY <1>1, PutWell
<1>5. Slots(written) = Slots(L) /\ len = LogN(written.N) /\ Height(written.N) > 0
  BY <1>1, <1>4 DEF Slots
<1>6. WellFormed(even) /\ leaf \in Slots(written) /\ EdgesOf(even) = EdgesOf(written)
  BY <1>2, <1>4, <1>5, EvenOutWell
<1>7. even.N = written.N
  <2>1. len \in Nat \ {0} /\ IsList(written) /\ i \in Nat
    <3>1. IsList(L) /\ IsList(written)
      BY <1>4 DEF WellFormed
    <3> QED
      BY <1>1, <3>1, LeafLength DEF IsList, Slots
  <2> QED
    BY <1>2, <2>1, EvenOutShape DEF Reshaped
<1>8. info \in Infos /\ info.kind # "range"
  BY DEF Infos, NoInfo, DoubleInfo
<1>9. leaf \in Slots(even) /\ Height(even.N) > 0
  BY <1>5, <1>6, <1>7 DEF Slots
<1> QED
  BY <1>3, <1>4, <1>6, <1>8, <1>9, SettleWell

\* A doubled list ends with an empty slot.
LEMMA DoubleSpares ==
  ASSUME NEW L, IsList(L)
  PROVE  IsNull(DoubleList(L).items[DoubleList(L).N - 1])
<1> DEFINE wide == [p \in 0 .. 2 * L.N - 1 |-> IF p < L.N THEN L.items[p] ELSE Null]
           D == [N |-> 2 * L.N, items |-> wide, nodes |-> L.nodes]
           W == Window(0, 2 * L.N)
           occ == Occupied(D, 0, 2 * L.N)
           j == Cardinality(occ)
           to == [i \in occ |-> SpreadSlot(0, 2 * L.N, j, Rank(occ, i))]
<1>1. L.N \in Nat \ {0}
  BY SlotsFound
<1>2. occ \subseteq 0 .. L.N - 1
  <2>1. ASSUME NEW p \in occ PROVE p \in 0 .. L.N - 1
    <3>1. p \in 0 .. 2 * L.N - 1 /\ ~IsNull(wide[p])
      BY <1>1 DEF Occupied, Window
    <3>2. p < L.N
      BY <1>1, <3>1 DEF IsNull, Null
    <3> QED
      BY <1>1, <3>1, <3>2
  <2> QED
    BY <2>1
<1>3. IsFiniteSet(occ) /\ occ \subseteq Int /\ j \in Nat /\ j <= L.N
  <2>1. IsFiniteSet(0 .. L.N - 1) /\ Cardinality(0 .. L.N - 1) = L.N
    <3>1. PICK n \in Nat \ {0} : n = L.N
      BY <1>1
    <3>2. IsFiniteSet(0 .. n - 1) /\ Cardinality(0 .. n - 1) = (n - 1) - 0 + 1
      BY FS_Interval
    <3> QED
      BY <3>1, <3>2
  <2>2. IsFiniteSet(occ) /\ j <= L.N
    <3> HIDE DEF occ
    <3> QED
      BY <1>2, <2>1, FS_Subset
  <2>3. j \in Nat
    <3> HIDE DEF occ
    <3> QED
      BY <2>2, FS_CardinalityType
  <2> QED
    BY <1>2, <2>2, <2>3
<1>4. \A i \in occ : Rank(occ, i) \in 0 .. j - 1
  <2> HIDE DEF occ
  <2> QED
    BY <1>3, RankFound
<1>5. ASSUME NEW i \in occ PROVE to[i] # 2 * L.N - 1
  <2>1. PICK k \in Nat, n \in Nat, c \in Nat \ {0} :
          k = Rank(occ, i) /\ n = 2 * L.N /\ c = j /\ k <= c - 1 /\ c + c <= n
    <3>1. Rank(occ, i) \in 0 .. j - 1
      BY <1>4
    <3> HIDE DEF occ, j
    <3> QED
      BY <1>1, <1>3, <3>1
  <2>2. k * n < (n - 1) * c /\ n - 1 \in Nat /\ k * n \in Nat
    <3>1. k * n <= (c - 1) * n
      <4>1. c - 1 \in Nat
        OBVIOUS
      <4>2. \A x, y, z \in Nat : x <= y => x * z <= y * z
        OBVIOUS
      <4> QED
        BY <2>1, <4>1, <4>2
    <3>2. (c - 1) * n = c * n - n /\ (n - 1) * c = n * c - c /\ c * n = n * c
      OBVIOUS
    <3>3. n * c \in Nat /\ k * n \in Nat /\ c < n
      BY <2>1, SMTT(30)
    <3> QED
      BY <3>1, <3>2, <3>3
  <2>3. (k * n) \div c < n - 1 /\ (k * n) \div c \in Nat
    BY <2>2, Division
  <2>4. to[i] = 0 + (k * n) \div c - (IF <<0, n, c, k>> \in RoundsLow THEN 1 ELSE 0)
    BY <2>1 DEF SpreadSlot
  <2>5. to[i] < n - 1
    BY <2>2, <2>3, <2>4
  <2> QED
    BY <2>1, <2>5
<1>6. DoubleList(L).items = Spread(D, 0, 2 * L.N) /\ DoubleList(L).N = 2 * L.N
  BY DEF DoubleList, Redistribute
<1>7. Spread(D, 0, 2 * L.N)[2 * L.N - 1] = Null
  <2>1. 2 * L.N - 1 \in Slots(D) /\ 2 * L.N - 1 \in Window(0, 2 * L.N)
    BY <1>1 DEF Slots, Window
  <2>2. Spread(D, 0, 2 * L.N) = [p \in Slots(D) |->
                                   IF p \notin Window(0, 2 * L.N) THEN D.items[p]
                                   ELSE IF \E i \in occ : to[i] = p
                                        THEN D.items[CHOOSE i \in occ : to[i] = p] ELSE Null]
    BY DEF Spread
  <2> HIDE DEF D, to, occ
  <2> QED
    BY <1>5, <2>1, <2>2
<1> QED
  BY <1>6, <1>7 DEF IsNull, Null

\* The last slot is taken only if the one before it is.
Backed(L) == IsNull(L.items[L.N - 1]) \/ ~IsNull(L.items[L.N - 2])

\* Where a window has a null to spare, redistribute puts its last element left of its
\* last slot.
LEMMA SpreadSlotShort ==
  ASSUME NEW index \in Nat, NEW len \in Nat, NEW j \in Nat, j < len, NEW k \in 0 .. j - 1
  PROVE  /\ (k * len) \div j < len - 1 /\ (k * len) \div j \in Nat
         /\ SpreadSlot(index, len, j, k) # index + len - 1
<1>1. j \in Nat \ {0} /\ len - 1 \in Nat /\ k \in Nat
  OBVIOUS
<1>2. k * len <= (j - 1) * len
  <2>1. j - 1 \in Nat /\ k <= j - 1
    OBVIOUS
  <2>2. \A x, y, z \in Nat : x <= y => x * z <= y * z
    OBVIOUS
  <2> QED
    BY <1>1, <2>1, <2>2
<1>3. (j - 1) * len = j * len - len /\ (len - 1) * j = len * j - j /\ j * len = len * j
  OBVIOUS
<1>4. len * j \in Nat /\ k * len \in Nat
  BY <1>1
<1>5. k * len < (len - 1) * j
  BY <1>2, <1>3, <1>4
<1>6. (k * len) \div j < len - 1 /\ (k * len) \div j \in Nat
  BY <1>1, <1>4, <1>5, Division
<1> QED
  BY <1>6 DEF SpreadSlot

\* So the last slot is empty after the end of the list has been evened out, unless its
\* window is full.
LEMMA RedistributeSpares ==
  ASSUME NEW L, L = [N |-> L.N, items |-> L.items, nodes |-> L.nodes], NEW index \in Nat,
         NEW len \in Nat \ {0}, index + len = L.N, Full(L, index, len) < len
  PROVE  IsNull(Redistribute(L, index, len).items[L.N - 1])
<1> DEFINE occ == Occupied(L, index, len)
           j == Cardinality(occ)
           to == [i \in occ |-> SpreadSlot(index, len, j, Rank(occ, i))]
<1>1. IsFiniteSet(occ) /\ occ \subseteq Int /\ j \in Nat /\ j < len
  <2>1. IsFiniteSet(Window(index, len)) /\ Window(index, len) \subseteq Int
        /\ Occupied(L, index, len) \subseteq Window(index, len)
    <3>1. IsFiniteSet(Window(index, len)) /\ Window(index, len) \subseteq Nat
      BY FullFound
    <3> QED
      BY <3>1 DEF Occupied
  <2>2. IsFiniteSet(occ)
    <3> HIDE DEF occ
    <3> QED
      BY <2>1, FS_Subset DEF occ
  <2>3. j \in Nat
    <3> HIDE DEF occ
    <3> QED
      BY <2>2, FS_CardinalityType
  <2>4. j < len
    BY DEF Full
  <2> QED
    BY <2>1, <2>2, <2>3, <2>4
<1>2. \A i \in occ : Rank(occ, i) \in 0 .. j - 1
  <2> HIDE DEF occ
  <2> QED
    BY <1>1, RankFound
<1>3. ASSUME NEW i \in occ PROVE to[i] # L.N - 1
  <2>1. Rank(occ, i) \in 0 .. j - 1
    BY <1>2
  <2>2. to[i] = SpreadSlot(index, len, j, Rank(occ, i))
    OBVIOUS
  <2> HIDE DEF occ, j, to
  <2> QED
    BY <1>1, <2>1, <2>2, SpreadSlotShort
<1>4. Redistribute(L, index, len).items = Spread(L, index, len)
  <2>1. PICK items, nodes : /\ items = Spread(L, index, len)
                            /\ nodes = FixSentinels(L.nodes, SentinelsAt(items, Window(index, len)), L.N)
    OBVIOUS
  <2>2. Redistribute(L, index, len) = [L EXCEPT !.items = items, !.nodes = nodes]
    BY <2>1 DEF Redistribute
  <2> QED
    BY <2>1, <2>2
<1>5. Spread(L, index, len)[L.N - 1] = Null
  <2>1. L.N - 1 \in Slots(L) /\ L.N - 1 \in Window(index, len)
    BY DEF Slots, Window
  <2>2. Spread(L, index, len) = [p \in Slots(L) |->
                                   IF p \notin Window(index, len) THEN L.items[p]
                                   ELSE IF \E i \in occ : to[i] = p
                                        THEN L.items[CHOOSE i \in occ : to[i] = p] ELSE Null]
    BY DEF Spread
  <2> HIDE DEF to, occ
  <2> QED
    BY <1>3, <2>1, <2>2
<1> QED
  BY <1>4, <1>5 DEF IsNull, Null

\* A window that does not end at the last slot but one.
EndsApart(L, index, len) == index + len = L.N \/ index + len <= L.N - 2

\* The windows of the implicit tree do not, nor does any that ends at an even slot.
LEMMA EvenApart ==
  ASSUME NEW L, IsList(L), Height(L.N) > 0, NEW index \in Nat, NEW len \in Nat \ {0},
         Window(index, len) \subseteq Slots(L), Even(index + len)
  PROVE  EndsApart(L, index, len)
<1>1. L.N \in Nat \ {0} /\ Slots(L) = 0 .. L.N - 1 /\ L.N \in PowersOfTwo
  BY SlotsFound DEF Slots, IsList
<1>2. Even(L.N)
  <2>1. 1 \in Nat \ {0} /\ LogN(L.N) * 1 = LogN(L.N)
    BY <1>1, LeafLength
  <2> QED
    BY <1>1, <2>1, LevelsEven
<1>3. index + len <= L.N
  <2>1. index + len - 1 \in Window(index, len)
    BY DEF Window
  <2> QED
    BY <1>1, <2>1
<1>4. index + len < L.N => (index + len) + 2 <= L.N
  <2>1. index + len \in Nat
    OBVIOUS
  <2> QED
    BY <1>1, <1>2, <2>1, EvenBelow
<1> QED
  BY <1>1, <1>3, <1>4 DEF EndsApart

\* redistribute leaves an element in the last slot only with one before it.
LEMMA RedistributeBacked ==
  ASSUME NEW L, IsList(L), NEW index \in Nat, NEW len \in Nat, len >= 2,
         Window(index, len) \subseteq Slots(L), EndsApart(L, index, len),
         Backed(L) \/ index + len = L.N
  PROVE  Backed(Redistribute(L, index, len))
<1>1. PICK M : M = Redistribute(L, index, len)
  OBVIOUS
<1>2. L.N \in Nat \ {0} /\ Slots(L) = 0 .. L.N - 1 /\ M.N = L.N /\ len \in Nat \ {0} /\ IsList(M)
  BY <1>1, SlotsFound, RedistributeShape DEF Slots, Reshaped
<1>3. CASE index + len # L.N
  <2>1. index + len <= L.N - 2 /\ Backed(L)
    BY <1>3 DEF EndsApart
  <2>2. PICK to : Spreads(L, M, Window(index, len), to)
    BY <1>1, <1>2, RedistributeSpreads
  <2>3. \A p \in Slots(L) \ Window(index, len) : M.items[p] = L.items[p]
    BY <2>2 DEF Spreads
  <2>4. L.N - 1 \in Slots(L) \ Window(index, len) /\ L.N - 2 \in Slots(L) \ Window(index, len)
    BY <1>2, <2>1 DEF Window
  <2>5. M.items[L.N - 1] = L.items[L.N - 1] /\ M.items[L.N - 2] = L.items[L.N - 2]
    BY <2>3, <2>4
  <2> QED
    BY <1>1, <1>2, <2>1, <2>5 DEF Backed
<1>4. CASE index + len = L.N /\ Full(L, index, len) < len
  <2>1. IsNull(M.items[L.N - 1])
    BY <1>1, <1>2, <1>4, RedistributeSpares DEF IsList
  <2> QED
    BY <1>1, <1>2, <2>1 DEF Backed
<1>5. CASE index + len = L.N /\ ~(Full(L, index, len) < len)
  <2>1. PICK W, T : W = Window(index, len) /\ T = Taken(M, W)
    OBVIOUS
  <2>2. IsFiniteSet(W) /\ Cardinality(W) = len /\ Full(L, index, len) \in Nat
        /\ Full(M, index, len) = Cardinality(T)
    BY <1>2, <2>1, FullFound, ZenonT(30)
  <2>3. Full(M, index, len) = Full(L, index, len)
    BY <1>1, <1>2, RedistributeCount
  <2>4. T \subseteq W
    BY <2>1 DEF Taken
  <2>5. T = W
    <3>1. Cardinality(T) <= Cardinality(W) /\ (Cardinality(W) = Cardinality(T) => W = T)
      BY <2>2, <2>4, FS_Subset
    <3>2. Cardinality(T) = Cardinality(W)
      BY <1>2, <1>5, <2>2, <2>3, <3>1
    <3> QED
      BY <3>1, <3>2
  <2>6. L.N - 2 \in W
    BY <1>2, <1>5, <2>1 DEF Window
  <2>7. ~IsNull(M.items[L.N - 2])
    BY <2>1, <2>5, <2>6 DEF Taken
  <2> QED
    BY <1>1, <1>2, <2>7 DEF Backed
<1> QED
  BY <1>3, <1>4, <1>5

\* Where the leaf of slot i is evened out, it is so too: a slot of the last leaf may be
\* the exception before.
LEMMA EvenOutBacked ==
  ASSUME NEW L, IsList(L), Height(L.N) > 0, NEW i \in Slots(L),
         Backed(L) \/ LeafId(L, i) = LeafId(L, L.N - 1)
  PROVE  /\ Backed(EvenOut(L, i, LogN(L.N)))
         /\ Backed(Redistribute(L, FindLeaf(L, i), LogN(L.N)))
<1>1. PICK len, leaf, parent :
        len = LogN(L.N) /\ leaf = FindNode(i, len) /\ parent = FindNode(leaf, 2 * len)
  OBVIOUS
<1>2. /\ len \in Nat \ {0} /\ leaf \in Nat /\ parent \in Nat /\ leaf \in Slots(L)
      /\ Window(leaf, len) \subseteq Slots(L) /\ Window(parent, 2 * len) \subseteq Slots(L)
  BY <1>1, LeafInside
<1>3. L.N \in Nat \ {0} /\ Slots(L) = 0 .. L.N - 1 /\ i \in Nat /\ L.N \in PowersOfTwo
  BY SlotsFound DEF Slots, IsList
<1>4. len >= 2 /\ 2 * len >= 2 /\ 2 * len \in Nat \ {0} /\ Even(leaf + len) /\ Even(parent + 2 * len)
  <2>1. len = LogN(L.N) * 1 /\ 2 * len = LogN(L.N) * 2 /\ 1 \in Nat \ {0} /\ 2 \in Nat \ {0}
    BY <1>1, <1>2
  <2>2. len >= 2 /\ Even(leaf + len)
    BY <1>1, <1>3, <2>1, LevelsEven
  <2>3. Even(parent + 2 * len)
    BY <1>1, <1>2, <1>3, <2>1, LevelsEven
  <2> QED
    BY <1>2, <2>2, <2>3
<1>5. EndsApart(L, leaf, len) /\ EndsApart(L, parent, 2 * len)
  BY <1>2, <1>4, EvenApart
<1>6. ASSUME LeafId(L, i) = LeafId(L, L.N - 1)
      PROVE  leaf + len = L.N /\ parent + 2 * len = L.N
  <2>1. PICK z \in Nat : z = L.N - 1
    BY <1>3
  <2>2. leaf = FindNode(z, len)
    BY <1>1, <1>6, <2>1 DEF LeafId, FindNode
  <2>3. z < leaf + len /\ z < parent + 2 * len
    BY <1>1, <1>2, <2>1, <2>2, NodeFound, ParentFound
  <2>4. leaf + len - 1 \in Slots(L) /\ parent + 2 * len - 1 \in Slots(L)
    <3>1. leaf + len - 1 \in Window(leaf, len) /\ parent + 2 * len - 1 \in Window(parent, 2 * len)
      BY <1>2 DEF Window
    <3> QED
      BY <1>2, <3>1
  <2> QED
    BY <1>2, <1>3, <2>1, <2>3, <2>4
<1>7. Backed(Redistribute(L, leaf, len))
  BY <1>2, <1>4, <1>5, <1>6, RedistributeBacked
<1>8. Backed(Redistribute(L, parent, 2 * len))
  BY <1>2, <1>4, <1>5, <1>6, RedistributeBacked
<1>9. EvenOut(L, i, len) \in {Redistribute(L, leaf, len), Redistribute(L, parent, 2 * len)}
  BY <1>1 DEF EvenOut, SpreadWindow
<1> QED
  BY <1>1, <1>7, <1>8, <1>9 DEF FindLeaf

\* insert in any other slot than the last one leaves it so.
LEMMA PutBacked ==
  ASSUME NEW L, IsList(L), L.N >= 2, NEW i \in Slots(L), i # L.N - 1, NEW elem, ~IsNull(elem),
         Slidable(L, i), Backed(L)
  PROVE  Backed(Put(L, i, elem))
<1>1. PICK M, z, y : M = Put(L, i, elem) /\ z = L.N - 1 /\ y = L.N - 2
  OBVIOUS
<1>2. /\ L.N \in Nat \ {0} /\ Slots(L) = 0 .. L.N - 1 /\ i \in Nat /\ i <= y
      /\ z \in Slots(L) /\ y \in Slots(L) /\ z = y + 1 /\ y \in Nat
  BY <1>1, SlotsFound DEF Slots
<1>3. M.N = L.N
  BY <1>1, PutItems DEF Reshaped
<1>4. CASE IsNull(L.items[i])
  <2>1. \A p \in Slots(L) : M.items[p] = IF p = i THEN elem ELSE L.items[p]
    BY <1>1, <1>4, PutItems
  <2>2. M.items[z] = L.items[z] /\ M.items[y] \in {elem, L.items[y]}
    BY <1>2, <2>1
  <2>3. CASE M.items[y] = elem
    BY <1>1, <1>3, <2>3 DEF Backed
  <2>4. CASE M.items[y] = L.items[y]
    BY <1>1, <1>3, <2>2, <2>4 DEF Backed
  <2> QED
    BY <2>2, <2>3, <2>4
<1>5. CASE ~IsNull(L.items[i]) /\ NextNull(L, i) < L.N
  <2>1. PICK n : n = NextNull(L, i)
    OBVIOUS
  <2>2. /\ n \in Nat /\ i < n /\ n <= z /\ IsNull(L.items[n])
        /\ \A p \in i + 1 .. n - 1 : ~IsNull(L.items[p])
    <3>1. L.N \in Nat
      BY <1>2
    <3>2. /\ n \in Nat
          /\ n < L.N => /\ i < n /\ IsNull(L.items[n])
                        /\ \A p \in i + 1 .. n - 1 : ~IsNull(L.items[p])
      BY <1>2, <2>1, <3>1, NextNullFound
    <3>3. n <= z
      BY <1>1, <1>2, <1>5, <2>1, <3>2, SMTT(30)
    <3> QED
      BY <1>5, <2>1, <3>2, <3>3
  <2>3. \A p \in Slots(L) : M.items[p] = IF p = i THEN elem
                                         ELSE IF p \in i + 1 .. n THEN L.items[p - 1]
                                         ELSE L.items[p]
    BY <1>1, <1>5, <2>1, PutItems
  <2>4. CASE y <= n
    <3>1. CASE y = i
      BY <1>1, <1>2, <1>3, <2>3, <3>1 DEF Backed
    <3>2. CASE y # i
      <4>1. y \in i + 1 .. n /\ (y - 1 = i \/ y - 1 \in i + 1 .. n - 1)
        BY <1>2, <2>2, <2>4, <3>2
      <4>2. M.items[y] = L.items[y - 1]
        BY <1>2, <2>3, <3>2, <4>1
      <4>3. ~IsNull(L.items[y - 1])
        BY <1>5, <2>2, <4>1
      <4> QED
        BY <1>1, <1>3, <4>2, <4>3 DEF Backed
    <3> QED
      BY <3>1, <3>2
  <2>5. CASE n < y
    <3>1. z # i /\ y # i /\ z \notin i + 1 .. n /\ y \notin i + 1 .. n
      BY <1>2, <2>2, <2>5
    <3>2. M.items[z] = L.items[z] /\ M.items[y] = L.items[y]
      BY <1>2, <2>3, <3>1
    <3> QED
      BY <1>1, <1>3, <3>2 DEF Backed
  <2> QED
    BY <1>2, <2>2, <2>4, <2>5
<1>6. CASE ~IsNull(L.items[i]) /\ ~(NextNull(L, i) < L.N)
  <2>1. PICK e : e = PrevNull(L, i - 1)
    OBVIOUS
  <2>2. \A p \in Slots(L) : M.items[p] = IF p = i - 1 THEN elem
                                         ELSE IF p \in e .. i - 2 THEN L.items[p + 1]
                                         ELSE L.items[p]
    BY <1>1, <1>6, <2>1, PutItems
  <2>3. z # i - 1 /\ y # i - 1 /\ z \notin e .. i - 2 /\ y \notin e .. i - 2
    BY <1>2
  <2>4. M.items[z] = L.items[z] /\ M.items[y] = L.items[y]
    BY <1>2, <2>2, <2>3
  <2> QED
    BY <1>1, <1>3, <2>4 DEF Backed
<1> QED
  BY <1>4, <1>5, <1>6

\* double_list leaves the last slot empty, and so does half_list.
LEMMA ResizedBacked ==
  ASSUME NEW L, IsList(L)
  PROVE  /\ Backed(DoubleList(L))
         /\ Height(L.N) > 0 /\ 4 * Full(L, 0, L.N) < L.N => Backed(HalfList(L))
<1>1. Backed(DoubleList(L))
  BY DoubleSpares DEF Backed
<1>2. ASSUME Height(L.N) > 0, 4 * Full(L, 0, L.N) < L.N PROVE Backed(HalfList(L))
  <2> DEFINE N == L.N \div 2
             occ == Occupied(L, 0, L.N)
             packed == [p \in 0 .. N - 1 |->
                          IF p < Cardinality(occ)
                          THEN L.items[CHOOSE i \in occ : Rank(occ, i) = p] ELSE Null]
             D == [N |-> N, items |-> packed, nodes |-> L.nodes]
  <2>1. L.N \in Nat \ {0} /\ L.N >= 8 /\ L.N \in PowersOfTwo
    BY <1>2, SlotsFound, LeafLength DEF IsList
  <2>2. N \in Nat \ {0} /\ 2 * N <= L.N /\ L.N <= 2 * N + 1
    BY <2>1
  <2>3. PICK c : c = Cardinality(occ)
    OBVIOUS
  <2>4. c \in Nat /\ c < N
    <3>1. c = Full(L, 0, L.N) /\ Full(L, 0, L.N) \in Nat
      BY <2>1, <2>3, FullFound DEF Full
    <3> HIDE DEF N
    <3> QED
      BY <1>2, <2>1, <2>2, <3>1
  <2>5. Occupied(D, 0, N) \subseteq 0 .. c - 1
    <3>1. ASSUME NEW p \in Window(0, N), ~(p < c) PROVE IsNull(D.items[p])
      <4>1. p \in 0 .. N - 1
        BY <2>2, <3>1 DEF Window
      <4>2. packed[p] = Null
        BY <2>3, <3>1, <4>1
      <4> QED
        BY <4>2 DEF IsNull, Null
    <3>2. Window(0, N) \subseteq Nat
      BY DEF Window
    <3> HIDE DEF N, D
    <3> QED
      BY <2>4, <3>1, <3>2 DEF Occupied
  <2>6. Full(D, 0, N) < N
    <3>1. IsFiniteSet(0 .. c - 1) /\ Cardinality(0 .. c - 1) = c
      <4>1. PICK m \in Int : m = c - 1
        BY <2>4
      <4>2. c > 0 => IsFiniteSet(0 .. m) /\ Cardinality(0 .. m) = m - 0 + 1
        BY <2>4, <4>1, FS_Interval, SMTT(30)
      <4>3. c = 0 => 0 .. m = {}
        BY <4>1
      <4> QED
        BY <2>4, <4>1, <4>2, <4>3, FS_EmptySet
    <3>2. PICK S : S = Occupied(D, 0, N)
      OBVIOUS
    <3>3. Cardinality(S) <= c
      <4> HIDE DEF D, N
      <4> QED
        BY <2>5, <3>1, <3>2, FS_Subset
    <3>4. Full(D, 0, N) = Cardinality(S) /\ Full(D, 0, N) \in Nat
      <4> HIDE DEF D, N
      <4> QED
        BY <2>2, <3>2, FullFound DEF Full
    <3> HIDE DEF D, N
    <3> QED
      BY <2>2, <2>4, <3>3, <3>4
  <2>7. D = [N |-> D.N, items |-> D.items, nodes |-> D.nodes] /\ D.N = N
    OBVIOUS
  <2>8. HalfList(L) = Redistribute(D, 0, N)
    BY DEF HalfList
  <2>9. Redistribute(D, 0, N).N = N
    <3>1. Redistribute(D, 0, N) = [D EXCEPT !.items = Spread(D, 0, N),
                                            !.nodes = FixSentinels(D.nodes, SentinelsAt(Spread(D, 0, N), Window(0, N)), D.N)]
      BY DEF Redistribute
    <3> HIDE DEF N
    <3> QED
      BY <3>1
  <2>10. IsNull(Redistribute(D, 0, N).items[D.N - 1])
    <3>1. 0 + N = D.N /\ 0 \in Nat
      BY <2>2, <2>7
    <3> HIDE DEF D, N
    <3> QED
      BY <2>2, <2>6, <2>7, <3>1, RedistributeSpares
  <2> HIDE DEF D, N
  <2> QED
    BY <2>7, <2>8, <2>9, <2>10 DEF Backed
<1> QED
  BY <1>1, <1>2

\* The redistributions that follow leave it so.
LEMMA SettleBacked ==
  ASSUME NEW L, IsList(L), Height(L.N) > 0, Backed(L), NEW leaf \in Slots(L)
  PROVE  /\ \A info \in Infos :
              (info.kind = "range" =>
                 Window(info.start, info.len) \subseteq Slots(L) /\ Even(info.start + info.len))
                => Backed(Settle(L, leaf, info))
         /\ Backed(SettleRemoval(L, leaf))
<1>1. /\ LogN(L.N) \in Nat \ {0} /\ LogN(L.N) >= 2 /\ Height(L.N) \in Nat /\ leaf \in Nat
      /\ L.N \in PowersOfTwo
  <2>1. L.N \in PowersOfTwo /\ LogN(L.N) \in Nat \ {0} /\ Height(L.N) \in Nat /\ leaf \in Nat
    BY LeafLength, SlotsFound DEF IsList
  <2>2. 1 \in Nat \ {0} /\ LogN(L.N) = LogN(L.N) * 1
    BY <2>1
  <2>3. LogN(L.N) >= 2
    BY <2>1, <2>2, LevelsEven
  <2> QED
    BY <2>1, <2>3
<1>2. ASSUME NEW j \in 0 .. Height(L.N)
      PROVE  Backed(Redistribute(L, StartAt(L, leaf, j), LenAt(L, j)))
  <2>1. PICK s, n : s = StartAt(L, leaf, j) /\ n = LenAt(L, j)
    OBVIOUS
  <2>2. s \in Nat /\ n \in Nat \ {0}
    BY <1>1, <2>1, LevelFound
  <2>3. Window(s, n) \subseteq Slots(L)
    <3>1. j \in 0 .. j
      BY <1>1
    <3> QED
      BY <2>1, <3>1, LevelsNest
  <2>4. Even(s + n) /\ n >= 2
    <3>1. 2^j \in Nat \ {0}
      BY <1>1, Powers
    <3>2. n = LogN(L.N) * 2^j /\ s = FindNode(leaf, n)
      BY <2>1 DEF LenAt, StartAt
    <3> QED
      BY <1>1, <3>1, <3>2, LevelsEven
  <2>5. EndsApart(L, s, n)
    BY <2>2, <2>3, <2>4, EvenApart
  <2> QED
    BY <2>1, <2>2, <2>3, <2>4, <2>5, RedistributeBacked
<1>3. Backed(SettleRemoval(L, leaf))
  <2>1. PICK j : j = RemoveLevel(L, leaf)
    OBVIOUS
  <2>2. j \in 0 .. Height(L.N) + 1
    BY <2>1, RemoveLevelFound
  <2>3. SettleRemoval(L, leaf) = IF j > Height(L.N) THEN HalfList(L)
                                 ELSE Redistribute(L, StartAt(L, leaf, j), LenAt(L, j))
    BY <2>1 DEF SettleRemoval
  <2>4. CASE j > Height(L.N)
    <3>1. 4 * Full(L, 0, L.N) < L.N
      BY <2>1, <2>4, SparseRoot
    <3> QED
      BY <2>3, <2>4, <3>1, ResizedBacked
  <2>5. CASE j \in 0 .. Height(L.N)
    <3>1. ~(j > Height(L.N))
      BY <1>1, <2>5
    <3> QED
      BY <1>2, <2>3, <2>5, <3>1
  <2> QED
    BY <1>1, <2>2, <2>4, <2>5
<1>4. ASSUME NEW info \in Infos,
             info.kind = "range" =>
               Window(info.start, info.len) \subseteq Slots(L) /\ Even(info.start + info.len)
      PROVE  Backed(Settle(L, leaf, info))
  <2>1. CASE info = DoubleInfo
    BY <2>1, ResizedBacked DEF Settle, DoubleInfo
  <2>2. CASE info = NoInfo
    <3>1. PICK j : j = InsertLevel(L, leaf)
      OBVIOUS
    <3>2. j \in 0 .. Height(L.N) + 1
      BY <3>1, InsertLevelFound
    <3>3. Settle(L, leaf, info) = IF j > Height(L.N) THEN DoubleList(L)
                                  ELSE IF j = 0 THEN L
                                  ELSE Redistribute(L, StartAt(L, leaf, j), LenAt(L, j))
      BY <2>2, <3>1 DEF Settle, NoInfo, Rebalance
    <3>4. j > Height(L.N) \/ (j \in 0 .. Height(L.N) /\ ~(j > Height(L.N)))
      BY <1>1, <3>2
    <3> QED
      BY <1>2, <3>3, <3>4, ResizedBacked
  <2>3. CASE info \notin {NoInfo, DoubleInfo}
    <3>1. PICK start \in Nat, len \in Nat : info = RangeInfo(start, len)
      BY <2>3 DEF Infos
    <3>2. info.kind = "range" /\ info.start = start /\ info.len = len
      BY <3>1 DEF RangeInfo
    <3>3. Settle(L, leaf, info) = IF len > LogN(L.N) THEN Redistribute(L, start, len) ELSE L
      BY <3>2 DEF Settle
    <3>4. CASE len > LogN(L.N)
      <4>1. len \in Nat \ {0} /\ len >= 2
        BY <1>1, <3>4
      <4>2. EndsApart(L, start, len)
        BY <1>4, <3>2, <4>1, EvenApart
      <4>3. Backed(Redistribute(L, start, len))
        BY <1>4, <3>2, <4>1, <4>2, RedistributeBacked
      <4> QED
        BY <3>3, <3>4, <4>3
    <3> QED
      BY <3>3, <3>4
  <2> QED
    BY <2>1, <2>2, <2>3
<1> QED
  BY <1>3, <1>4

\* insert in the exclusive section does, ...
LEMMA DepositBacked ==
  ASSUME NEW L, IsList(L), Height(L.N) > 0, NEW i \in Slots(L), NEW elem, ~IsNull(elem),
         Slidable(L, i), Backed(L), NEW info \in {NoInfo, DoubleInfo}
  PROVE  Backed(Deposit(L, i, elem, info))
<1>1. PICK len, P : len = LogN(L.N) /\ P = Put(L, i, elem)
  OBVIOUS
<1>2. PICK even, leaf : even = EvenOut(P, i, len) /\ leaf = SpreadWindow(P, i, len).start
  OBVIOUS
<1>3. Deposit(L, i, elem, info) = Settle(even, leaf, info)
  BY <1>1, <1>2 DEF Deposit
<1>4. /\ IsList(P) /\ P.N = L.N /\ Slots(P) = Slots(L) /\ len = LogN(P.N) /\ Height(P.N) > 0
      /\ i \in Nat /\ len \in Nat \ {0} /\ L.N >= 8 /\ L.N \in Nat
  <2>1. IsList(P) /\ P.N = L.N
    BY <1>1, PutItems DEF Reshaped
  <2>2. len \in Nat \ {0} /\ L.N >= 8 /\ L.N \in Nat /\ i \in Nat
    BY <1>1, LeafLength, SlotsFound DEF IsList
  <2> QED
    BY <1>1, <2>1, <2>2 DEF Slots
<1>5. Backed(P) \/ LeafId(P, i) = LeafId(P, P.N - 1)
  <2>1. CASE i = L.N - 1
    BY <1>4, <2>1
  <2>2. CASE i # L.N - 1
    BY <1>1, <1>4, <2>2, PutBacked
  <2> QED
    BY <2>1, <2>2
<1>6. Backed(even)
  BY <1>2, <1>4, <1>5, EvenOutBacked
<1>7. IsList(even) /\ even.N = L.N
  BY <1>2, <1>4, EvenOutShape DEF Reshaped
<1>8. leaf \in Slots(even)
  <2>1. PICK first, parent : first = FindNode(i, len) /\ parent = FindNode(first, 2 * len)
    OBVIOUS
  <2>2. leaf \in {first, parent}
    BY <1>2, <2>1 DEF SpreadWindow
  <2>3. /\ first \in Nat /\ parent \in Nat /\ first <= i /\ parent <= i
    <3>1. first \in Nat /\ first <= i
      BY <1>4, <2>1, NodeFound
    <3>2. 2 * len \in Nat \ {0}
      BY <1>4
    <3>3. parent \in Nat /\ parent <= first
      BY <2>1, <3>1, <3>2, NodeFound
    <3> QED
      BY <1>4, <3>1, <3>3
  <2>4. i \in 0 .. L.N - 1
    BY DEF Slots
  <2> QED
    BY <1>4, <1>7, <2>2, <2>3, <2>4 DEF Slots
<1>9. info \in Infos /\ info.kind # "range"
  BY DEF Infos, NoInfo, DoubleInfo
<1> QED
  BY <1>3, <1>4, <1>6, <1>7, <1>8, <1>9, SettleBacked

\* A list whose last slot is empty has room anywhere.
LEMMA SpareRoomy ==
  ASSUME NEW L, IsList(L), IsNull(L.items[L.N - 1]), NEW i \in Slots(L)
  PROVE  Roomy(L, i) /\ Slidable(L, i)
<1>1. L.N \in Nat \ {0} /\ i \in 0 .. L.N - 1
  BY SlotsFound DEF Slots
<1>2. CASE i = L.N - 1
  BY <1>2 DEF Roomy, Slidable
<1>3. CASE i # L.N - 1
  <2>1. L.N - 1 \in i + 1 .. L.N - 1 /\ i \in Nat
    BY <1>1, <1>3
  <2>2. NextNull(L, i) # L.N
    BY <1>1, <2>1, NextNullFound
  <2>3. NextNull(L, i) \in Nat /\ NextNull(L, i) <= L.N
    BY <1>1, <2>1, NextNullFound
  <2> QED
    BY <1>1, <2>2, <2>3 DEF Roomy, Slidable
<1> QED
  BY <1>2, <1>3

\* A doubled list has at least two leaves.
LEMMA DoubledHigh ==
  ASSUME NEW L, IsList(L), Height(L.N) > 0
  PROVE  Height(DoubleList(L).N) > 0
<1>1. L.N \in PowersOfTwo /\ L.N \in Nat /\ L.N >= 8
  BY LeafLength, SlotsFound DEF IsList
<1>2. DoubleList(L).N = 2 * L.N /\ IsList(DoubleList(L))
  BY DoubleShape DEF Reshaped
<1>3. DoubleList(L).N \in PowersOfTwo /\ DoubleList(L).N >= 8
  BY <1>1, <1>2 DEF IsList
<1> QED
  BY <1>3, LeafLength

\* insert at the slot that its search finds leaves it so, ...
LEMMA InsertBacked ==
  ASSUME NEW L, WellFormed(L), Height(L.N) > 0, NEW e \in EdgesFrom(Vertices(L)),
         NEW i \in Slots(L), Present(L, i, e) \/ i = L.N - 1 \/ Roomy(L, i), Backed(L),
         NEW info \in {NoInfo, DoubleInfo}
  PROVE  Backed(Insert(L, i, e, e.src, info))
<1>1. /\ IsList(L) /\ L.N \in Nat \ {0} /\ Slots(L) = 0 .. L.N - 1 /\ e.src \in Vertices(L)
      /\ Numbered(Vertices(L)) /\ L.N >= 8
  BY SlotsFound, LeafLength DEF WellFormed, Slots, EdgesFrom, IsList
<1>2. ~IsNull(e) /\ e.value # 0
  BY <1>1, Kinds DEF IsNull
<1>3. CASE Present(L, i, e)
  <2>1. PICK M, new : M = Insert(L, i, e, e.src, info) /\ new = [L.items[i] EXCEPT !.value = e.value]
    OBVIOUS
  <2>2. M = [L EXCEPT !.items[i] = new]
    <3>1. M = [L EXCEPT !.items[i].value = e.value]
      BY <1>3, <2>1 DEF Insert
    <3>2. DOMAIN L.items = Slots(L)
      BY <1>1 DEF IsList
    <3> QED
      BY <1>1, <2>1, <3>1, <3>2 DEF IsList
  <2>3. M.N = L.N /\ \A p \in Slots(L) : M.items[p] = IF p = i THEN new ELSE L.items[p]
    <3>1. Wrote(L, M, i, new)
      BY <2>2 DEF Wrote
    <3>2. Reshaped(L, M, L.N) /\ \A p \in Slots(L) : M.items[p] = IF p = i THEN new ELSE L.items[p]
      BY <1>1, <3>1, WriteItems
    <3> QED
      BY <3>2 DEF Reshaped
  <2>4. ~IsNull(new) /\ ~IsNull(L.items[i])
    <3>1. "value" \in DOMAIN L.items[i]
      <4>1. ~IsNull(L.items[i])
        BY <1>3 DEF Present
      <4>2. Proper(L.items[i], Vertices(L))
        BY DEF WellFormed, Placed, PlacedBut, Sole
      <4> QED
        BY <4>1, <4>2 DEF Proper, EdgesFrom, Sentinel
    <3> QED
      BY <1>2, <1>3, <2>1, <3>1 DEF IsNull, Present
  <2>5. \A p \in Slots(L) : IsNull(M.items[p]) <=> IsNull(L.items[p])
    BY <2>3, <2>4
  <2>6. L.N - 1 \in Slots(L) /\ L.N - 2 \in Slots(L)
    BY <1>1
  <2> QED
    BY <2>1, <2>3, <2>5, <2>6 DEF Backed
<1>4. CASE ~Present(L, i, e) /\ ~IsNull(L.items[i]) /\ i = L.N - 1
  <2>1. PICK D, k : D = DoubleList(L) /\ k = FindEdge(D, e.src, e.dest)
    OBVIOUS
  <2>2. Insert(L, i, e, e.src, info) = Deposit(D, k, e, NoInfo)
    BY <1>4, <2>1 DEF Insert
  <2>3. /\ WellFormed(D) /\ IsList(D) /\ IsNull(D.items[D.N - 1]) /\ Height(D.N) > 0
        /\ Vertices(D) = Vertices(L) /\ Backed(D)
    BY <1>1, <2>1, DoubleWell, DoubleSpares, DoubleShape, DoubledHigh DEF WellFormed, Reshaped, Backed
  <2>4. k \in Slots(D)
    BY <1>1, <2>1, <2>3, FindFits
  <2>5. Slidable(D, k)
    BY <2>3, <2>4, SpareRoomy
  <2> QED
    BY <1>2, <2>2, <2>3, <2>4, <2>5, DepositBacked
<1>5. CASE ~Present(L, i, e) /\ ~(~IsNull(L.items[i]) /\ i = L.N - 1)
  <2>1. Insert(L, i, e, e.src, info) = Deposit(L, i, e, info)
    BY <1>5 DEF Insert
  <2>2. Slidable(L, i)
    BY <1>5 DEF Roomy, Slidable
  <2> QED
    BY <1>1, <1>2, <2>1, <2>2, DepositBacked
<1> QED
  BY <1>3, <1>4, <1>5

\* An edge that is erased, if not in the last leaf, leaves it so ...
LEMMA EraseBacked ==
  ASSUME NEW L, IsList(L), Height(L.N) > 0, Backed(L), NEW i \in Slots(L)
  PROVE  Backed(Erase(L, i)) \/ LeafId(L, i) = LeafId(L, L.N - 1)
<1>1. /\ L.N \in Nat \ {0} /\ Slots(L) = 0 .. L.N - 1 /\ L.N \in PowersOfTwo /\ L.N >= 8
      /\ LogN(L.N) \in Nat \ {0}
  BY SlotsFound, LeafLength DEF Slots, IsList
<1>2. PICK M : M = Erase(L, i)
  OBVIOUS
<1>3. M.N = L.N /\ \A p \in Slots(L) : M.items[p] = IF p = i THEN Null ELSE L.items[p]
  <2>1. Wrote(L, M, i, Null)
    BY <1>2 DEF Wrote, Erase
  <2>2. Reshaped(L, M, L.N) /\ \A p \in Slots(L) : M.items[p] = IF p = i THEN Null ELSE L.items[p]
    BY <2>1, WriteItems
  <2> QED
    BY <2>2 DEF Reshaped
<1>4. L.N - 1 \in Slots(L) /\ L.N - 2 \in Slots(L) /\ IsNull(Null)
  BY <1>1 DEF IsNull, Null
<1>5. CASE i # L.N - 2
  <2>1. M.items[L.N - 2] = L.items[L.N - 2] /\ M.items[L.N - 1] \in {Null, L.items[L.N - 1]}
    BY <1>3, <1>4, <1>5
  <2> QED
    BY <1>2, <1>3, <1>4, <2>1 DEF Backed
<1>6. CASE i = L.N - 2
  <2>1. PICK len \in Nat \ {0}, m \in Nat \ {0} : len = LogN(L.N) /\ L.N = len * m
    <3>1. 2^Height(L.N) \in Nat \ {0} /\ LogN(L.N) * 2^Height(L.N) = L.N
      BY <1>1, LeafLength, Powers
    <3> QED
      BY <1>1, <3>1
  <2>2. len >= 2
    <3>1. 1 \in Nat \ {0} /\ LogN(L.N) = LogN(L.N) * 1
      BY <1>1
    <3>2. LogN(L.N) >= 2
      BY <1>1, <3>1, LevelsEven
    <3> QED
      BY <2>1, <3>2
  <2>3. PICK q \in Nat : q = m - 1
    OBVIOUS
  <2>4. q * len + len = L.N /\ q * len \in Nat
    BY <2>1, <2>3
  <2>5. PICK x \in Nat : x = q * len
    BY <2>4
  <2>6. /\ L.N - 1 \in Nat /\ x <= L.N - 1 /\ L.N - 1 < x + len
        /\ L.N - 2 \in Nat /\ x <= L.N - 2 /\ L.N - 2 < x + len
    BY <1>1, <2>2, <2>4, <2>5, SMTT(30)
  <2>7. (L.N - 1) \div len = q /\ (L.N - 2) \div len = q
    BY <2>5, <2>6, Division
  <2> QED
    BY <1>6, <2>1, <2>7 DEF LeafId
<1> QED
  BY <1>5, <1>6

\* ... and remove in the exclusive section does.
LEMMA RemoveBacked ==
  ASSUME NEW L, IsList(L), Height(L.N) > 0, Backed(L), NEW i \in Slots(L), NEW dest
  PROVE  Backed(Remove(L, i, dest))
<1>1. CASE IsNull(L.items[i]) \/ L.items[i].dest # dest
  BY <1>1 DEF Remove
<1>2. CASE ~(IsNull(L.items[i]) \/ L.items[i].dest # dest)
  <2>1. PICK E, leaf : E = Erase(L, i) /\ leaf = FindLeaf(L, i)
    OBVIOUS
  <2>2. PICK R : R = Redistribute(E, leaf, LogN(L.N))
    OBVIOUS
  <2>3. Remove(L, i, dest) = SettleRemoval(R, leaf)
    BY <1>2, <2>1, <2>2 DEF Remove
  <2>4. IsList(E) /\ E.N = L.N
    BY <2>1, WriteItems DEF Wrote, Erase, Reshaped
  <2>5. Slots(E) = Slots(L) /\ FindLeaf(E, i) = leaf /\ LeafId(E, i) = LeafId(L, i)
        /\ LeafId(E, E.N - 1) = LeafId(L, L.N - 1)
    BY <2>1, <2>4 DEF Slots, FindLeaf, LeafId
  <2>6. Backed(E) \/ LeafId(E, i) = LeafId(E, E.N - 1)
    BY <2>1, <2>5, EraseBacked
  <2>7. Backed(R)
    BY <2>2, <2>4, <2>5, <2>6, EvenOutBacked
  <2>8. leaf \in Slots(L) /\ leaf \in Nat
    BY <2>1, LeafInside DEF FindLeaf
  <2>9. IsList(R) /\ R.N = L.N
    BY <2>2, <2>4, <2>8, RedistributeShape DEF Reshaped
  <2>10. leaf \in Slots(R) /\ Height(R.N) > 0
    BY <2>8, <2>9 DEF Slots
  <2> QED
    BY <2>3, <2>7, <2>9, <2>10, SettleBacked
<1> QED
  BY <1>1, <1>2

\* The elements in the range of a vertex are its edges, and its edges are there, unless
\* it is the last vertex and one is in the last slot.
LEMMA RangeHolds ==
  ASSUME NEW L, WellFormed(L), NEW src \in Vertices(L), NEW p \in Slots(L), ~IsNull(L.items[p])
  PROVE  LET b == L.nodes[src].beginning
             e == L.nodes[src].end
         IN  /\ b < p /\ p < e => IsEdge(L.items[p]) /\ L.items[p].src = src
             /\ IsEdge(L.items[p]) /\ L.items[p].src = src =>
                  b < p /\ (p < e \/ (p = e /\ e = L.N - 1))
<1>1. IsList(L) /\ L.N \in Nat \ {0} /\ Slots(L) = 0 .. L.N - 1 /\ Numbered(Vertices(L))
  BY SlotsFound DEF WellFormed, Slots
<1>2. PICK b, e, last : /\ b = L.nodes[src].beginning /\ e = L.nodes[src].end
                        /\ last = Cardinality(Vertices(L)) - 1
  OBVIOUS
<1>3. /\ b \in Slots(L) /\ e \in Slots(L) /\ L.items[b] = Sentinel(src)
      /\ src \in 0 .. last /\ Vertices(L) = 0 .. last
      /\ src = last => e = L.N - 1
      /\ src # last => src + 1 \in Vertices(L) /\ L.items[e] = Sentinel(src + 1) /\ b < e
  BY <1>2, RangeFound
<1>4. PICK o \in Nat : o = Owner(L.items[p]) /\ o \in Vertices(L)
  BY SlotHolds
<1>5. /\ IsSentinel(L.items[p]) => ~IsEdge(L.items[p])
      /\ ~IsSentinel(L.items[p]) => IsEdge(L.items[p]) /\ L.items[p].src = o
  BY <1>4, SlotHolds DEF Owner
<1>6. ASSUME b < p, p < e PROVE IsEdge(L.items[p]) /\ L.items[p].src = src
  <2>1. b + 1 \in Nat /\ b < p + 1 /\ p \in Nat /\ p + 1 \in Nat /\ p <= e /\ p + 1 <= e
    BY <1>1, <1>3, <1>6
  <2>2. Fits(L, src, p)
    BY <1>2, <1>6, <2>1, RangeFits
  <2>3. Fits(L, src, p + 1)
    BY <1>2, <2>1, RangeFits
  <2>4. src < o \/ (src = o /\ IsEdge(L.items[p]))
    BY <1>4, <2>1, <2>2 DEF Fits
  <2>5. o <= src
    BY <1>4, <2>1, <2>3 DEF Fits
  <2> QED
    BY <1>3, <1>4, <1>5, <2>4, <2>5 DEF IsEdge
<1>7. ASSUME IsEdge(L.items[p]), L.items[p].src = src PROVE b < p /\ (p < e \/ (p = e /\ e = L.N - 1))
  <2>1. Owner(L.items[p]) = src
    BY <1>7 DEF Owner, IsEdge
  <2>2. \A q \in Slots(L) : /\ p < q /\ ~IsNull(L.items[q]) => Before(L.items[p], L.items[q])
                            /\ q < p /\ ~IsNull(L.items[q]) => Before(L.items[q], L.items[p])
    BY <1>1, BlocksFound DEF WellFormed
  <2>3. \A v \in Vertices(L) : /\ ~IsNull(Sentinel(v)) /\ Owner(Sentinel(v)) = v
                               /\ ~IsEdge(Sentinel(v))
    BY <1>1, Kinds
  <2>4. b < p
    <3>1. p # b
      BY <1>3, <1>7, <2>3
    <3>2. ~(p < b)
      BY <1>3, <2>1, <2>2, <2>3 DEF Before
    <3> QED
      BY <1>1, <1>3, <3>1, <3>2
  <2>5. CASE src = last
    BY <1>1, <1>3, <2>4, <2>5
  <2>6. CASE src # last
    <3>1. p # e
      BY <1>3, <1>7, <2>3, <2>6
    <3>2. ~(e < p)
      <4>1. src + 1 \in Vertices(L) /\ L.items[e] = Sentinel(src + 1) /\ e \in Slots(L)
        BY <1>3, <2>6
      <4>2. e < p => Before(L.items[e], L.items[p])
        BY <2>2, <2>3, <4>1
      <4>3. Owner(L.items[e]) = src + 1 /\ src \in Nat
        BY <1>3, <2>3, <4>1
      <4> QED
        BY <2>1, <4>2, <4>3 DEF Before
    <3> QED
      BY <1>1, <1>3, <2>4, <3>1, <3>2
  <2> QED
    BY <2>5, <2>6
<1> QED
  BY <1>2, <1>6, <1>7

\* The slot to which an edge of src is to go: as Parted, but the edge itself may be there
\* already, and of the last slot, which binary_search does not read, nothing is known.
Splits(L, src, dest, i) ==
  \A p \in Slots(L) : IsEdge(L.items[p]) /\ L.items[p].src = src =>
    /\ p < i => L.items[p].dest < dest
    /\ p = i /\ i # L.N - 1 => dest <= L.items[p].dest
    /\ i < p => dest < L.items[p].dest

\* The search for an edge ends at such a slot.
LEMMA FindSplits ==
  ASSUME NEW L, WellFormed(L), Ascending(L), NEW src \in Vertices(L), NEW dest \in Int,
         L.nodes[src].beginning # L.N - 1 /\ L.nodes[src].end = L.N - 1 => Backed(L)
  PROVE  Splits(L, src, dest, FindEdge(L, src, dest))
<1>1. IsList(L) /\ L.N \in Nat \ {0} /\ Slots(L) = 0 .. L.N - 1 /\ Numbered(Vertices(L))
  BY SlotsFound DEF WellFormed, Slots
<1>2. PICK b, e, i : /\ b = L.nodes[src].beginning /\ e = L.nodes[src].end
                     /\ i = FindEdge(L, src, dest)
  OBVIOUS
<1>3. b \in Slots(L) /\ e \in Slots(L)
  BY <1>2, RangeFound
<1>4. PICK lo \in Nat, hi \in Nat : lo = b + 1 /\ hi = e
  BY <1>1, <1>3
<1>5. i = BinarySearch(L, dest, lo, hi)
  BY <1>2, <1>4 DEF FindEdge
<1>6. i \in Nat /\ i <= hi /\ (lo <= hi => lo <= i) /\ (hi < lo => i = hi)
  BY <1>5, SearchFound
<1>7. ASSUME NEW p \in lo .. hi - 1, ~IsNull(L.items[p])
      PROVE  p \in Slots(L) /\ IsEdge(L.items[p]) /\ L.items[p].src = src /\ L.items[p].dest \in Int
  <2>1. p \in Slots(L) /\ b < p /\ p < e
    BY <1>1, <1>3, <1>4
  <2>2. IsEdge(L.items[p]) /\ L.items[p].src = src
    BY <1>2, <1>7, <2>1, RangeHolds
  <2>3. L.items[p] \in EdgesFrom(Vertices(L))
    BY <1>7, <2>1, <2>2, SlotHolds DEF IsEdge
  <2> QED
    BY <2>1, <2>2, <2>3, MaxU32Assumption DEF EdgesFrom
<1>8. \A p, q \in Slots(L) :
        p < q /\ IsEdge(L.items[p]) /\ IsEdge(L.items[q]) /\ L.items[p].src = L.items[q].src
          => L.items[p].dest < L.items[q].dest
  BY <1>1, AscendingFound
<1>9. lo < hi => Parts(L, dest, lo, hi, i)
  <2>1. \A p \in lo .. hi - 1 : ~IsNull(L.items[p]) => L.items[p].dest \in Int
    BY <1>7
  <2>2. \A p, q \in lo .. hi - 1 :
          p < q /\ ~IsNull(L.items[p]) /\ ~IsNull(L.items[q]) => L.items[p].dest < L.items[q].dest
    BY <1>7, <1>8
  <2> QED
    BY <1>5, <2>1, <2>2, SearchParts
<1>10. ASSUME NEW p \in Slots(L), IsEdge(L.items[p]), L.items[p].src = src
       PROVE  /\ p < i => L.items[p].dest < dest
              /\ p = i /\ i # L.N - 1 => dest <= L.items[p].dest
              /\ i < p => dest < L.items[p].dest
  <2>1. lo <= p /\ (p < hi \/ (p = hi /\ hi = L.N - 1)) /\ p \in Int /\ ~IsNull(L.items[p])
    <3>1. ~IsNull(L.items[p])
      BY <1>10 DEF IsEdge
    <3>2. b < p /\ (p < e \/ (p = e /\ e = L.N - 1))
      BY <1>2, <1>10, <3>1, RangeHolds
    <3> QED
      BY <1>1, <1>3, <1>4, <3>1, <3>2
  <2>2. CASE p < hi
    <3>1. p \in lo .. hi - 1 /\ lo < hi
      BY <2>1, <2>2
    <3> QED
      BY <1>9, <2>1, <3>1 DEF Parts
  <2>3. CASE p = hi /\ hi = L.N - 1
    <3>1. CASE i = hi
      BY <1>6, <2>3, <3>1
    <3>2. CASE i # hi
      <4>1. i < hi /\ lo <= i /\ lo < hi
        BY <1>6, <2>1, <2>3, <3>2
      <4>2. PICK r \in Int : r = hi - 1 /\ r = L.N - 2
        BY <1>1, <2>3
      <4>3. ~IsNull(L.items[r]) /\ r \in lo .. hi - 1
        <5>1. b # L.N - 1
          BY <1>3, <1>4, <2>1, <2>3
        <5>2. Backed(L)
          BY <1>2, <1>4, <2>3, <5>1
        <5> QED
          BY <2>1, <2>3, <4>1, <4>2, <5>2 DEF Backed
      <4>4. /\ r \in Slots(L) /\ IsEdge(L.items[r]) /\ L.items[r].src = src
            /\ L.items[r].dest \in Int
        BY <1>7, <4>3
      <4>5. L.items[r].dest < L.items[p].dest
        BY <1>8, <1>10, <2>3, <4>2, <4>4
      <4>6. dest <= L.items[r].dest
        <5>1. r = i \/ i < r
          BY <1>6, <4>1, <4>2
        <5>2. /\ r = i => dest <= L.items[r].dest
              /\ i < r => dest < L.items[r].dest
          BY <1>9, <4>1, <4>3 DEF Parts
        <5> QED
          BY <4>4, <5>1, <5>2
      <4>7. L.items[p].dest \in Int
        <5>1. L.items[p] \in EdgesFrom(Vertices(L))
          BY <1>10, <2>1, SlotHolds DEF IsEdge
        <5> QED
          BY <5>1, MaxU32Assumption DEF EdgesFrom
      <4> QED
        BY <1>6, <2>3, <4>1, <4>4, <4>5, <4>6, <4>7
    <3> QED
      BY <3>1, <3>2
  <2> QED
    BY <2>1, <2>2, <2>3
<1> QED
  BY <1>2, <1>10 DEF Splits

\* An edge that is not there yet parts the others where it splits them.
LEMMA SplitsParted ==
  ASSUME NEW L, WellFormed(L), NEW src, NEW dest \in Int, NEW i \in Slots(L), Splits(L, src, dest, i),
         i # L.N - 1 \/ IsNull(L.items[i]),
         ~(IsEdge(L.items[i]) /\ L.items[i].src = src /\ L.items[i].dest = dest)
  PROVE  Parted(L, src, dest, i)
<1>1. IsList(L) /\ L.N \in Nat \ {0} /\ Slots(L) = 0 .. L.N - 1
  BY SlotsFound DEF WellFormed, Slots
<1>2. ASSUME NEW p \in Slots(L), IsEdge(L.items[p]), L.items[p].src = src
      PROVE  IF p < i THEN L.items[p].dest < dest ELSE dest < L.items[p].dest
  <2>1. /\ p < i => L.items[p].dest < dest
        /\ p = i /\ i # L.N - 1 => dest <= L.items[p].dest
        /\ i < p => dest < L.items[p].dest
    BY <1>2 DEF Splits
  <2>2. L.items[p].dest \in Int /\ ~IsNull(L.items[p])
    <3>1. L.items[p] \in EdgesFrom(Vertices(L))
      BY <1>2, SlotHolds DEF IsEdge
    <3> QED
      BY <1>2, <3>1, MaxU32Assumption DEF EdgesFrom, IsEdge
  <2>3. p = i => i # L.N - 1 /\ L.items[p].dest # dest
    BY <1>2, <2>2
  <2> QED
    BY <1>1, <2>1, <2>2, <2>3
<1> QED
  BY <1>2 DEF Parted

\* Where a search ends and its edge can be put, or where its edge would go behind
\* the sentinel in the last slot: there acquire_insert_locks gives up.
FitsOrEnds(L, src, i) == Fits(L, src, i) \/ (i = L.N - 1 /\ L.items[i] = Sentinel(src))

\* An edge that is found where an edge of src fits is one of src.
LEMMA OwnEdge ==
  ASSUME NEW L, WellFormed(L), NEW src \in Vertices(L), NEW i \in Slots(L), FitsOrEnds(L, src, i),
         IsEdge(L.items[i])
  PROVE  L.items[i].src = src
<1>1. /\ L.N \in Nat /\ Slots(L) \subseteq Nat /\ Sole(L) /\ InBlocks(L) /\ Numbered(Vertices(L))
      /\ Vertices(L) \subseteq Nat
  BY SlotsFound, MaxU32Assumption DEF WellFormed, Placed, PlacedBut, Slots, Numbered
<1>2. /\ ~IsNull(L.items[i]) /\ ~IsSentinel(L.items[i]) /\ Owner(L.items[i]) = L.items[i].src
      /\ Owner(L.items[i]) \in Vertices(L)
  BY SlotHolds DEF IsEdge, Owner
<1>3. PICK w \in Vertices(L) : w = L.items[i].src
  BY <1>2
<1>4. IsSentinel(Sentinel(src))
  BY <1>1, Kinds
<1>5. Fits(L, src, i)
  BY <1>2, <1>4 DEF FitsOrEnds
<1>6. src < w \/ src = w
  BY <1>1, <1>2, <1>3, <1>5 DEF Fits
<1>7. ~(src < w)
  <2> SUFFICES ASSUME src < w PROVE FALSE
    OBVIOUS
  <2>1. PICK q \in Slots(L) : L.items[q] = Sentinel(w)
    BY <1>1 DEF Sole
  <2>2. ~IsNull(L.items[q]) /\ ~IsEdge(L.items[q]) /\ Owner(L.items[q]) = w
    BY <1>1, <2>1, Kinds
  <2>3. ~(i < q)
    <3>1. i < q => Before(L.items[i], L.items[q])
      BY <1>1, <1>2, <2>2, BlocksFound
    <3> QED
      BY <1>1, <1>2, <1>3, <2>2, <3>1 DEF Before
  <2>4. q < i
    BY <1>1, <2>2, <2>3
  <2>5. w <= src
    BY <1>5, <2>2, <2>4 DEF Fits
  <2> QED
    BY <1>1, <2>5
<1> QED
  BY <1>1, <1>3, <1>6, <1>7

\* The stored edges but the one from src to dest.
Without(L, src, dest) == {x \in EdgesOf(L) : <<x[1], x[2]>> # <<src, dest>>}

\* Where a slot parts the edges of src, the edge from src to dest is not there.
LEMMA PartedWithout ==
  ASSUME NEW L, WellFormed(L), NEW src, NEW dest \in Int, NEW i \in Slots(L), Parted(L, src, dest, i)
  PROVE  Without(L, src, dest) = EdgesOf(L)
<1>1. ASSUME NEW x \in EdgesOf(L), <<x[1], x[2]>> = <<src, dest>> PROVE FALSE
  <2>1. PICK p \in Slots(L) : /\ IsEdge(L.items[p])
                              /\ x = <<L.items[p].src, L.items[p].dest, L.items[p].value>>
    BY DEF EdgesOf
  <2>2. L.items[p].src = src /\ L.items[p].dest = dest
    BY <1>1, <2>1
  <2> QED
    BY <2>1, <2>2 DEF Parted
<1> QED
  BY <1>1 DEF Without

\* Where the slot that splits the edges of src does not hold the one to dest, that
\* edge is not there.
LEMMA SplitsWithout ==
  ASSUME NEW L, WellFormed(L), NEW src, NEW dest \in Int, NEW i \in Slots(L), Splits(L, src, dest, i),
         IsNull(L.items[i]) \/ L.items[i].dest # dest
  PROVE  Without(L, src, dest) = EdgesOf(L)
<1>1. ASSUME NEW x \in EdgesOf(L), <<x[1], x[2]>> = <<src, dest>> PROVE FALSE
  <2>1. PICK p \in Slots(L) : /\ IsEdge(L.items[p])
                              /\ x = <<L.items[p].src, L.items[p].dest, L.items[p].value>>
    BY DEF EdgesOf
  <2>2. L.items[p].src = src /\ L.items[p].dest = dest
    BY <1>1, <2>1
  <2>3. p # i
    BY <2>1, <2>2 DEF IsEdge
  <2>4. p \in Nat /\ i \in Nat
    BY SlotsFound DEF Slots, WellFormed
  <2>5. (p < i => dest < dest) /\ (i < p => dest < dest)
    BY <2>1, <2>2 DEF Splits
  <2> QED
    BY <2>3, <2>4, <2>5
<1> QED
  BY <1>1 DEF Without

\* An edge that is overwritten is no longer there.
LEMMA ReplaceEdges ==
  ASSUME NEW L, WellFormed(L), Ascending(L), NEW i \in Slots(L), IsEdge(L.items[i]),
         NEW src, src = L.items[i].src, NEW dest, dest = L.items[i].dest, NEW e, NEW M,
         Wrote(L, M, i, e)
  PROVE  /\ e = Null => EdgesOf(M) = Without(L, src, dest)
         /\ e \in EdgesFrom(Vertices(L)) /\ e.src = src /\ e.dest = dest =>
              EdgesOf(M) = Without(L, src, dest) \cup {<<src, dest, e.value>>}
<1>1. /\ Slots(M) = Slots(L) /\ L.N \in Nat /\ Slots(L) \subseteq Nat
      /\ \A p \in Slots(L) : M.items[p] = IF p = i THEN e ELSE L.items[p]
  <2>1. Reshaped(L, M, L.N) /\ \A p \in Slots(L) : M.items[p] = IF p = i THEN e ELSE L.items[p]
    BY WriteItems DEF WellFormed
  <2> QED
    BY <2>1, SlotsFound DEF Reshaped, Slots, WellFormed
<1>2. ASSUME NEW p \in Slots(L), IsEdge(L.items[p]), L.items[p].src = src, L.items[p].dest = dest
      PROVE  p = i
  <2>1. L.items[p] \in EdgesFrom(Vertices(L))
    BY <1>2, SlotHolds DEF IsEdge
  <2>2. dest \in Int
    BY <1>2, <2>1, MaxU32Assumption DEF EdgesFrom
  <2>3. ~(p < i) /\ ~(i < p)
    BY <1>1, <1>2, <2>2, AscendingFound
  <2> QED
    BY <1>1, <2>3
<1>3. ASSUME NEW x \in Without(L, src, dest) PROVE x \in EdgesOf(M)
  <2>1. PICK p \in Slots(L) : /\ IsEdge(L.items[p])
                              /\ x = <<L.items[p].src, L.items[p].dest, L.items[p].value>>
    BY <1>3 DEF EdgesOf, Without
  <2>2. p # i
    BY <1>3, <2>1 DEF Without
  <2> QED
    BY <1>1, <2>1, <2>2 DEF EdgesOf
<1>4. ASSUME NEW x \in EdgesOf(M)
      PROVE  x \in Without(L, src, dest) \/ (IsEdge(e) /\ x = <<e.src, e.dest, e.value>>)
  <2>1. PICK p \in Slots(M) : /\ IsEdge(M.items[p])
                              /\ x = <<M.items[p].src, M.items[p].dest, M.items[p].value>>
    BY <1>4 DEF EdgesOf
  <2>2. CASE p = i
    BY <1>1, <2>1, <2>2
  <2>3. CASE p # i
    <3>1. p \in Slots(L) /\ IsEdge(L.items[p]) /\ M.items[p] = L.items[p]
      BY <1>1, <2>1, <2>3
    <3>2. x \in EdgesOf(L)
      BY <2>1, <3>1 DEF EdgesOf
    <3>3. ~(L.items[p].src = src /\ L.items[p].dest = dest)
      BY <1>2, <2>3, <3>1
    <3>4. <<x[1], x[2]>> # <<src, dest>>
      BY <2>1, <3>1, <3>3
    <3> QED
      BY <3>2, <3>4 DEF Without
  <2> QED
    BY <2>2, <2>3
<1>5. ASSUME e = Null PROVE EdgesOf(M) = Without(L, src, dest)
  <2>1. ~IsEdge(e)
    BY <1>5 DEF IsEdge, IsNull, Null
  <2> QED
    BY <1>3, <1>4, <2>1
<1>6. ASSUME e \in EdgesFrom(Vertices(L)) /\ e.src = src /\ e.dest = dest
      PROVE  EdgesOf(M) = Without(L, src, dest) \cup {<<src, dest, e.value>>}
  <2>1. IsEdge(e)
    BY <1>6, Kinds DEF WellFormed
  <2>2. M.items[i] = e /\ i \in Slots(M)
    BY <1>1
  <2>3. <<src, dest, e.value>> \in EdgesOf(M)
    BY <1>6, <2>1, <2>2 DEF EdgesOf
  <2>4. \A x : x \in EdgesOf(M) <=> x \in Without(L, src, dest) \cup {<<src, dest, e.value>>}
    BY <1>3, <1>4, <1>6, <2>3
  <2> QED
    BY <2>4
<1> QED
  BY <1>5, <1>6

\* insert in the exclusive section, at the slot that its search finds.
LEMMA InsertWell ==
  ASSUME NEW L, WellFormed(L), Height(L.N) > 0, NEW e \in EdgesFrom(Vertices(L)),
         NEW i, i = FindEdge(L, e.src, e.dest),
         Present(L, i, e) \/ i = L.N - 1 \/ Roomy(L, i), OneWriter => Backed(L),
         NEW info \in {NoInfo, DoubleInfo}
  PROVE  /\ WellFormed(Insert(L, i, e, e.src, info))
         /\ OneWriter => EdgesOf(Insert(L, i, e, e.src, info))
                           = Without(L, e.src, e.dest) \cup {<<e.src, e.dest, e.value>>}
<1>1. /\ IsList(L) /\ L.N \in Nat \ {0} /\ Slots(L) = 0 .. L.N - 1 /\ e.src \in Vertices(L)
      /\ Numbered(Vertices(L))
  BY SlotsFound DEF WellFormed, Slots, EdgesFrom
<1>2. /\ i \in Slots(L)
      /\ Fits(L, e.src, i) \/ (i = L.N - 1 /\ L.items[i] = Sentinel(e.src))
  BY <1>1, FindFits
<1>3. (\A v \in Vertices(L) : ~IsNull(Sentinel(v))) /\ ~IsSentinel(e) /\ e.dest \in Int
  BY <1>1, Kinds, MaxU32Assumption DEF EdgesFrom
<1>4. CASE Present(L, i, e)
  <2>1. Insert(L, i, e, e.src, info) = [L EXCEPT !.items[i].value = e.value]
    BY <1>4 DEF Insert
  <2>2. PICK old, new : old = L.items[i] /\ new = [old EXCEPT !.value = e.value]
    OBVIOUS
  <2>3. ~IsNull(old) /\ old.dest = e.dest /\ old.dest # MaxU32
    <3>1. e.dest \in 0 .. MaxU32 - 1 /\ MaxU32 \in Nat
      BY MaxU32Assumption DEF EdgesFrom
    <3>2. e.dest # MaxU32
      BY <3>1
    <3> QED
      BY <1>4, <2>2, <3>2 DEF Present
  <2>4. old \in EdgesFrom(Vertices(L)) /\ IsEdge(old)
    <3>1. \A v \in Vertices(L) : Sentinel(v).dest = MaxU32
      BY DEF Sentinel
    <3>2. Proper(old, Vertices(L))
      BY <1>2, <2>2 DEF WellFormed, Placed, PlacedBut, Sole
    <3>3. old \in EdgesFrom(Vertices(L))
      BY <2>3, <3>1, <3>2 DEF Proper
    <3> QED
      BY <1>1, <3>3, Kinds
  <2>5. /\ new \in EdgesFrom(Vertices(L)) /\ new.src = old.src /\ new.dest = old.dest
        /\ new.value = e.value
    BY <2>2, <2>4 DEF EdgesFrom
  <2>6. [L EXCEPT !.items[i].value = e.value] = [L EXCEPT !.items[i] = new]
    <3>1. DOMAIN L.items = Slots(L)
      BY <1>1 DEF IsList
    <3> QED
      BY <1>1, <1>2, <2>2, <3>1 DEF IsList
  <2>7. Wrote(L, Insert(L, i, e, e.src, info), i, new)
    BY <2>1, <2>6 DEF Wrote
  <2>8. old.src = e.src
    BY <1>1, <1>2, <2>2, <2>4, OwnEdge, SMTT(30) DEF FitsOrEnds
  <2>9. ASSUME OneWriter
        PROVE  EdgesOf(Insert(L, i, e, e.src, info))
                 = Without(L, e.src, e.dest) \cup {<<e.src, e.dest, e.value>>}
    <3>1. Ascending(L)
      BY <2>9 DEF WellFormed
    <3>2. new.src = e.src /\ new.dest = e.dest /\ e.src = L.items[i].src /\ e.dest = L.items[i].dest
      BY <2>2, <2>3, <2>5, <2>8
    <3>3. PICK M : M = Insert(L, i, e, e.src, info)
      OBVIOUS
    <3>4. PICK src : src = e.src
      OBVIOUS
    <3>5. PICK dest : dest = e.dest
      OBVIOUS
    <3>6. IsEdge(L.items[i]) /\ Wrote(L, M, i, new) /\ src = L.items[i].src /\ dest = L.items[i].dest
      BY <2>2, <2>4, <2>7, <3>2, <3>3, <3>4, <3>5
    <3>7. new \in EdgesFrom(Vertices(L)) /\ new.src = src /\ new.dest = dest =>
            EdgesOf(M) = Without(L, src, dest) \cup {<<src, dest, new.value>>}
      BY <1>2, <3>1, <3>6, ReplaceEdges
    <3>8. new.src = src /\ new.dest = dest /\ new.value = e.value
      BY <2>5, <3>2, <3>4, <3>5
    <3>9. EdgesOf(M) = Without(L, src, dest) \cup {<<src, dest, e.value>>}
      BY <2>5, <3>7, <3>8
    <3> QED
      BY <3>3, <3>4, <3>5, <3>9
  <2> QED
    BY <1>2, <2>2, <2>4, <2>5, <2>7, <2>9, ReplaceWell
<1>5. CASE ~Present(L, i, e) /\ ~IsNull(L.items[i]) /\ i = L.N - 1
  <2>1. PICK D, k : D = DoubleList(L) /\ k = FindEdge(D, e.src, e.dest)
    OBVIOUS
  <2>2. Insert(L, i, e, e.src, info) = Deposit(D, k, e, NoInfo)
    BY <1>5, <2>1 DEF Insert
  <2>3. WellFormed(D) /\ IsNull(D.items[D.N - 1]) /\ EdgesOf(D) = EdgesOf(L)
    BY <1>1, <2>1, DoubleWell, DoubleSpares
  <2>4. Vertices(D) = Vertices(L) /\ D.N = 2 * L.N
    BY <1>1, <2>1, DoubleShape DEF Reshaped
  <2>5. Height(D.N) > 0
    BY <1>1, <2>1, DoubledHigh
  <2>6. /\ k \in Slots(D)
        /\ Fits(D, e.src, k) \/ (k = D.N - 1 /\ D.items[k] = Sentinel(e.src))
    BY <1>1, <2>1, <2>3, <2>4, FindFits
  <2>7. Fits(D, e.src, k)
    BY <1>1, <1>3, <2>3, <2>6
  <2>8. Roomy(D, k)
    BY <2>3, <2>6, SpareRoomy DEF WellFormed
  <2>9. ASSUME OneWriter PROVE Parted(D, e.src, e.dest, k)
    <3>1. Splits(L, e.src, e.dest, i)
      BY <1>1, <1>3, <2>9, FindSplits DEF WellFormed
    <3>2. ASSUME NEW p \in Slots(L), IsEdge(L.items[p]), L.items[p].src = e.src
          PROVE  L.items[p].dest # e.dest
      <4>1. p < i => L.items[p].dest < e.dest
        BY <3>1, <3>2 DEF Splits
      <4>2. CASE p = i
        BY <1>3, <1>5, <3>2, <4>2 DEF Present
      <4>3. CASE p # i
        <5>1. p < i
          BY <1>1, <1>5, <4>3
        <5> QED
          BY <1>3, <4>1, <5>1
      <4> QED
        BY <4>2, <4>3
    <3>3. ~(IsEdge(D.items[k]) /\ D.items[k].src = e.src /\ D.items[k].dest = e.dest)
      <4>2. ASSUME IsEdge(D.items[k]), D.items[k].src = e.src, D.items[k].dest = e.dest PROVE FALSE
        <5>1. <<D.items[k].src, D.items[k].dest, D.items[k].value>> \in EdgesOf(D)
          BY <2>6, <4>2 DEF EdgesOf
        <5>2. PICK p \in Slots(L) :
                     /\ IsEdge(L.items[p])
                     /\ <<D.items[k].src, D.items[k].dest, D.items[k].value>>
                           = <<L.items[p].src, L.items[p].dest, L.items[p].value>>
          BY <2>3, <5>1 DEF EdgesOf
        <5>3. L.items[p].src = e.src /\ L.items[p].dest = e.dest
          BY <4>2, <5>2
        <5> QED
          BY <3>2, <5>2, <5>3
      <4> QED
        BY <4>2
    <3>4. Splits(D, e.src, e.dest, k)
      BY <1>1, <1>3, <2>1, <2>3, <2>4, <2>9, FindSplits DEF Backed, WellFormed
    <3>5. k # D.N - 1 \/ IsNull(D.items[k])
      BY <2>3
    <3> QED
      BY <1>3, <2>3, <2>6, <3>3, <3>4, <3>5, SplitsParted
  <2>10. /\ WellFormed(Deposit(D, k, e, NoInfo))
         /\ EdgesOf(Deposit(D, k, e, NoInfo)) = EdgesOf(D) \cup {<<e.src, e.dest, e.value>>}
    BY <2>3, <2>4, <2>5, <2>6, <2>7, <2>8, <2>9, DepositWell
  <2>11. OneWriter => Without(L, e.src, e.dest) = EdgesOf(L)
    <3>1. OneWriter => Without(D, e.src, e.dest) = EdgesOf(D)
      BY <1>3, <2>3, <2>6, <2>9, PartedWithout
    <3> QED
      BY <2>3, <3>1 DEF Without
  <2> QED
    BY <2>2, <2>3, <2>10, <2>11
<1>6. CASE ~Present(L, i, e) /\ ~(~IsNull(L.items[i]) /\ i = L.N - 1)
  <2>1. Insert(L, i, e, e.src, info) = Deposit(L, i, e, info)
    BY <1>6 DEF Insert
  <2>2. Fits(L, e.src, i)
    BY <1>1, <1>2, <1>3, <1>6
  <2>3. Roomy(L, i)
    BY <1>6 DEF Roomy
  <2>4. OneWriter => Parted(L, e.src, e.dest, i)
    <3>1. ~(IsEdge(L.items[i]) /\ L.items[i].src = e.src /\ L.items[i].dest = e.dest)
      BY <1>3, <1>6 DEF Present, IsEdge
    <3> QED
      BY <1>1, <1>2, <1>3, <1>6, <3>1, FindSplits, SplitsParted DEF WellFormed
  <2>5. OneWriter => Without(L, e.src, e.dest) = EdgesOf(L)
    BY <1>2, <1>3, <2>4, PartedWithout
  <2>6. /\ WellFormed(Deposit(L, i, e, info))
        /\ EdgesOf(Deposit(L, i, e, info)) = EdgesOf(L) \cup {<<e.src, e.dest, e.value>>}
    BY <1>2, <2>2, <2>3, <2>4, DepositWell
  <2> QED
    BY <2>1, <2>5, <2>6
<1> QED
  BY <1>4, <1>5, <1>6

\* Where a removal ends: even where it halves the list.
LEMMA SettleRemovalWell ==
  ASSUME NEW L, WellFormed(L), Height(L.N) > 0, NEW leaf \in Slots(L)
  PROVE  WellFormed(SettleRemoval(L, leaf)) /\ EdgesOf(SettleRemoval(L, leaf)) = EdgesOf(L)
<1>1. IsList(L) /\ Height(L.N) \in Nat /\ leaf \in Nat /\ L.N \in Nat \ {0}
  <2>1. IsList(L)
    BY DEF WellFormed
  <2> QED
    BY <2>1, LeafLength, SlotsFound DEF IsList, Slots
<1>2. PICK j : j = RemoveLevel(L, leaf)
  OBVIOUS
<1>3. j \in 0 .. Height(L.N) + 1
  BY <1>1, <1>2, RemoveLevelFound
<1>4. CASE j > Height(L.N)
  <2>1. SettleRemoval(L, leaf) = HalfList(L)
    BY <1>2, <1>4 DEF SettleRemoval
  <2>2. 4 * Full(L, 0, L.N) < L.N /\ Full(L, 0, L.N) \in Nat
    BY <1>1, <1>2, <1>4, SparseRoot, SpaciousFound
  <2>3. 2 * Cardinality(Elements(L)) <= L.N
    <3>1. Cardinality(Elements(L)) = Full(L, 0, L.N)
      BY DEF Elements, Full
    <3> QED
      BY <1>1, <2>2, <3>1
  <2> QED
    BY <2>1, <2>3, HalfWell
<1>5. CASE j \in 0 .. Height(L.N)
  <2>1. SettleRemoval(L, leaf) = Redistribute(L, StartAt(L, leaf, j), LenAt(L, j))
    BY <1>1, <1>2, <1>5 DEF SettleRemoval
  <2>2. StartAt(L, leaf, j) \in Nat /\ LenAt(L, j) \in Nat \ {0}
    BY <1>1, <1>5, LevelFound
  <2>3. Window(StartAt(L, leaf, j), LenAt(L, j)) \subseteq Slots(L)
    <3>1. j \in 0 .. j
      BY <1>1, <1>5
    <3> QED
      BY <1>1, <1>5, <3>1, LevelsNest
  <2> QED
    BY <2>1, <2>2, <2>3, RedistributeWell
<1> QED
  BY <1>1, <1>3, <1>4, <1>5

\* Erasing an edge keeps a list well formed.
LEMMA EraseWell ==
  ASSUME NEW L, WellFormed(L), NEW i \in Slots(L), IsEdge(L.items[i])
  PROVE  /\ WellFormed(Erase(L, i)) /\ Erase(L, i).N = L.N
         /\ Ascending(L) => EdgesOf(Erase(L, i)) = Without(L, L.items[i].src, L.items[i].dest)
<1>1. Wrote(L, Erase(L, i), i, Null)
  BY DEF Erase, Wrote
<1>2. WellFormed(Erase(L, i))
  BY <1>1, ReplaceWell
<1>3. Reshaped(L, Erase(L, i), L.N)
  BY <1>1, WriteItems DEF WellFormed
<1>4. Ascending(L) => EdgesOf(Erase(L, i)) = Without(L, L.items[i].src, L.items[i].dest)
  BY <1>1, ReplaceEdges
<1> QED
  BY <1>2, <1>3, <1>4 DEF Reshaped

\* remove in the exclusive section: where an element has the destination looked
\* for, it is no sentinel.
LEMMA RemoveWell ==
  ASSUME NEW L, WellFormed(L), Height(L.N) > 0, NEW i \in Slots(L), NEW dest \in 0 .. MaxU32 - 1
  PROVE  /\ WellFormed(Remove(L, i, dest))
         /\ \A src \in Vertices(L) :
              OneWriter /\ FitsOrEnds(L, src, i) /\ Splits(L, src, dest, i)
                => EdgesOf(Remove(L, i, dest)) = Without(L, src, dest)
<1>1. CASE IsNull(L.items[i]) \/ L.items[i].dest # dest
  <2>1. Remove(L, i, dest) = L
    BY <1>1 DEF Remove
  <2>2. ASSUME NEW src \in Vertices(L), OneWriter, FitsOrEnds(L, src, i), Splits(L, src, dest, i)
        PROVE  EdgesOf(L) = Without(L, src, dest)
    BY <1>1, <2>2, SplitsWithout
  <2> QED
    BY <2>1, <2>2
<1>2. CASE ~IsNull(L.items[i]) /\ L.items[i].dest = dest
  <2>1. PICK E, leaf : E = Erase(L, i) /\ leaf = FindLeaf(L, i)
    OBVIOUS
  <2>2. PICK R : R = Redistribute(E, leaf, LogN(L.N))
    OBVIOUS
  <2>3. Remove(L, i, dest) = SettleRemoval(R, leaf)
    BY <1>2, <2>1, <2>2 DEF Remove
  <2>4. IsEdge(L.items[i])
    <3>1. dest # MaxU32
      BY MaxU32Assumption
    <3>2. \A v \in Vertices(L) : Sentinel(v).dest = MaxU32
      BY DEF Sentinel
    <3> QED
      BY <1>2, <3>1, <3>2, SlotHolds
  <2>5. /\ WellFormed(E) /\ E.N = L.N
        /\ Ascending(L) => EdgesOf(E) = Without(L, L.items[i].src, L.items[i].dest)
    BY <2>1, <2>4, EraseWell
  <2>6. Slots(E) = Slots(L) /\ FindLeaf(E, i) = leaf
    BY <2>1, <2>5 DEF Slots, FindLeaf
  <2>7. WellFormed(R) /\ EdgesOf(R) = EdgesOf(E)
    BY <2>2, <2>5, <2>6, EvenOutWell
  <2>8. leaf \in Slots(L) /\ leaf \in Nat
    BY <2>1, LeafInside DEF FindLeaf, WellFormed
  <2>9. R.N = L.N
    BY <2>2, <2>5, <2>8, RedistributeShape DEF WellFormed, Reshaped
  <2>10. leaf \in Slots(R)
    BY <2>8, <2>9 DEF Slots
  <2>11. WellFormed(SettleRemoval(R, leaf)) /\ EdgesOf(SettleRemoval(R, leaf)) = EdgesOf(R)
    BY <2>7, <2>9, <2>10, SettleRemovalWell
  <2>12. ASSUME NEW src \in Vertices(L), OneWriter, FitsOrEnds(L, src, i)
         PROVE  EdgesOf(Remove(L, i, dest)) = Without(L, src, dest)
    <3>1. L.items[i].src = src /\ L.items[i].dest = dest
      BY <1>2, <2>4, <2>12, OwnEdge
    <3>2. Ascending(L)
      BY <2>12 DEF WellFormed
    <3> QED
      BY <2>3, <2>5, <2>7, <2>11, <3>1, <3>2
  <2> QED
    BY <2>3, <2>11, <2>12
<1> QED
  BY <1>1, <1>2

\* add_node keeps a list well formed, where the last slot is empty: the new
\* sentinel goes there.
LEMMA AddNodeWell ==
  ASSUME NEW L, WellFormed(L), Height(L.N) > 0, Vertices(L) # {},
         Numbered(0 .. Cardinality(Vertices(L))), IsNull(L.items[L.N - 1])
  PROVE  /\ WellFormed(AddNode(L)) /\ Vertices(AddNode(L)) = 0 .. Cardinality(Vertices(L))
         /\ Backed(AddNode(L)) /\ EdgesOf(AddNode(L)) = EdgesOf(L)
<1>1. /\ IsList(L) /\ L.N \in Nat \ {0} /\ Slots(L) = 0 .. L.N - 1 /\ Sole(L)
      /\ Numbered(Vertices(L)) /\ LogN(L.N) \in Nat \ {0}
  <2>1. IsList(L)
    BY DEF WellFormed
  <2> QED
    BY <2>1, SlotsFound, LeafLength DEF WellFormed, Slots, Placed, PlacedBut, IsList
<1>2. PICK n \in Nat : /\ Vertices(L) = 0 .. n - 1 /\ Cardinality(Vertices(L)) = n
                       /\ L.nodes \in [0 .. n - 1 -> Ranges]
  BY <1>1, VerticesFound
<1>3. n > 0
  BY <1>2
<1>4. PICK z : z = L.N - 1
  OBVIOUS
<1>5. z \in Slots(L) /\ z \in Nat /\ z + 1 = L.N /\ IsNull(L.items[z])
  BY <1>1, <1>4
<1>6. L.nodes[n - 1].end = z
  <2>1. n - 1 \in Vertices(L) /\ n - 1 = Cardinality(Vertices(L)) - 1
    BY <1>2, <1>3
  <2> QED
    BY <1>4, <2>1, RangeFound
<1>7. PICK nodes, M, e, len : /\ nodes = [v \in 0 .. n |-> IF v < n THEN L.nodes[v]
                                                 ELSE [beginning |-> z, end |-> z + 1]]
                              /\ M = [L EXCEPT !.nodes = nodes]
                              /\ e = Sentinel(n) /\ len = LogN(L.N)
  OBVIOUS
<1>8. M = [N |-> L.N, items |-> L.items, nodes |-> nodes]
  BY <1>1, <1>7, Updated
<1>9. /\ IsList(M) /\ Vertices(M) = 0 .. n /\ M.N = L.N /\ Slots(M) = Slots(L)
      /\ M.items = L.items
  <2>1. 0 .. n = 0 .. (n + 1) - 1 /\ n + 1 \in Nat
    OBVIOUS
  <2>2. nodes \in [0 .. n -> Ranges]
    BY <1>2, <1>5, <1>7 DEF Ranges
  <2> QED
    BY <1>1, <1>8, <2>1, <2>2 DEF IsList, Slots, Vertices
<1>10. AddNode(L) = Insert(M, z, e, n, NoInfo)
  <2>1. z = IF n > 0 THEN L.nodes[n - 1].end ELSE 0
    BY <1>3, <1>6
  <2> QED
    BY <1>2, <1>7, <2>1, Zenon DEF AddNode
<1>11. AddNode(L) = Deposit(M, z, e, NoInfo)
  BY <1>5, <1>9, <1>10 DEF Insert, Present
<1>12. PICK P : P = Put(M, z, e)
  OBVIOUS
<1>13. Wrote(M, P, z, e)
  BY <1>5, <1>9, <1>12 DEF Put, MakeRoom, Wrote
<1>14. /\ IsList(P) /\ P.N = L.N /\ Vertices(P) = 0 .. n /\ Slots(P) = Slots(L)
       /\ \A p \in Slots(L) : P.items[p] = IF p = z THEN e ELSE L.items[p]
       /\ P.nodes = nodes
  <2>1. Reshaped(M, P, M.N) /\ \A p \in Slots(M) : P.items[p] = IF p = z THEN e ELSE M.items[p]
    BY <1>9, <1>13, WriteItems
  <2>2. P.nodes = M.nodes
    BY <1>9, <1>13 DEF Wrote, IsList
  <2> QED
    BY <1>8, <1>9, <2>1, <2>2 DEF Reshaped, Slots
<1>15. PICK w : w = SpreadWindow(P, z, len)
  OBVIOUS
<1>16. AddNode(L) = Settle(Redistribute(P, w.start, w.len), w.start, NoInfo)
  BY <1>7, <1>9, <1>11, <1>12, <1>15 DEF Deposit, EvenOut
<1>17. /\ w.start \in Nat /\ w.len \in Nat \ {0} /\ Window(w.start, w.len) \subseteq Slots(P)
       /\ w.start \in Slots(P) /\ z \in Window(w.start, w.len)
  <2>1. PICK leaf, parent : leaf = FindNode(z, len) /\ parent = FindNode(leaf, 2 * len)
    OBVIOUS
  <2>2. /\ leaf \in Nat /\ parent \in Nat /\ Window(leaf, len) \subseteq Slots(L)
        /\ Window(parent, 2 * len) \subseteq Slots(L)
    BY <1>1, <1>5, <1>7, <2>1, LeafInside
  <2>3. /\ leaf <= z /\ z < leaf + len
        /\ parent <= leaf /\ leaf < parent + 2 * len /\ z < parent + 2 * len
    <3>1. leaf <= z /\ z < leaf + len /\ len \in Nat \ {0}
      BY <1>1, <1>5, <1>7, <2>1, NodeFound
    <3>2. z < parent + 2 * len
      BY <1>1, <1>5, <1>7, <2>1, ParentFound
    <3>3. parent <= leaf /\ leaf < parent + 2 * len
      BY <2>1, <2>2, <3>1, NodeFound
    <3> QED
      BY <3>1, <3>2, <3>3
  <2>4. \/ w.start = leaf /\ w.len = len
        \/ w.start = parent /\ w.len = 2 * len
    BY <1>15, <2>1 DEF SpreadWindow
  <2>5. len \in Nat \ {0} /\ 2 * len \in Nat \ {0}
    BY <1>1, <1>7
  <2>6. z \in Window(leaf, len) /\ z \in Window(parent, 2 * len)
    BY <1>5, <2>2, <2>3, <2>5 DEF Window
  <2>7. leaf \in Window(leaf, len) /\ parent \in Window(parent, 2 * len)
    BY <2>2, <2>5 DEF Window
  <2> QED
    BY <1>14, <2>2, <2>4, <2>5, <2>6, <2>7
<1>18. Numbered(0 .. n)
  BY <1>2
<1>19. /\ ~IsNull(e) /\ IsSentinel(e) /\ Owner(e) = n
       /\ \A v \in 0 .. n : e = Sentinel(v) => v = n
  BY <1>7, <1>18, Kinds
<1>20. Sole(P)
  <2>1. ASSUME NEW p \in Slots(P) PROVE Proper(P.items[p], Vertices(P))
    <3>1. CASE p = z
      BY <1>7, <1>14, <3>1 DEF Proper
    <3>2. CASE p # z
      <4>1. P.items[p] = L.items[p] /\ Proper(L.items[p], Vertices(L)) /\ Vertices(L) \subseteq Vertices(P)
        BY <1>1, <1>2, <1>14, <3>2 DEF Sole
      <4> QED
        BY <4>1 DEF Proper, EdgesFrom
    <3> QED
      BY <3>1, <3>2
  <2>2. ASSUME NEW v \in Vertices(P), v # n
        PROVE  /\ v \in Vertices(L)
               /\ \A p \in Slots(P) : P.items[p] = Sentinel(v) <=> L.items[p] = Sentinel(v)
    <3>1. v \in Vertices(L) /\ v \in 0 .. n
      BY <1>2, <1>14, <2>2
    <3>2. e # Sentinel(v)
      BY <1>19, <2>2, <3>1
    <3>3. L.items[z] # Sentinel(v)
      BY <1>1, <1>5, <3>1, Kinds
    <3> QED
      BY <1>14, <3>1, <3>2, <3>3
  <2>3. ASSUME NEW p \in Slots(P), P.items[p] = Sentinel(n) PROVE p = z
    <3>1. p # z => L.items[p] = e
      BY <1>7, <1>14, <2>3
    <3>2. n \notin Vertices(L)
      BY <1>2
    <3>3. p # z => Owner(L.items[p]) \in Vertices(L)
      BY <1>14, <1>19, <3>1, SlotHolds
    <3> QED
      BY <1>19, <3>1, <3>2, <3>3
  <2>4. P.items[z] = Sentinel(n)
    BY <1>5, <1>7, <1>14
  <2> QED
    BY <1>1, <1>5, <1>14, <2>1, <2>2, <2>3, <2>4 DEF Sole
<1>21. PlacedBut(P, Window(w.start, w.len))
  <2>1. ASSUME NEW v \in Vertices(P), NEW p \in Slots(P) \ Window(w.start, w.len),
               P.items[p] = Sentinel(v)
        PROVE  Noted(P.nodes, P.N, p, v)
    <3>1. p # z /\ P.items[p] = L.items[p] /\ p \in Slots(L)
      BY <1>14, <1>17
    <3>2. v # n
      <4>1. P.items[z] = Sentinel(n) /\ z \in Slots(P) /\ n \in Vertices(P)
        BY <1>5, <1>7, <1>14
      <4> QED
        BY <1>20, <2>1, <3>1, <4>1 DEF Sole
    <3>3. v \in Vertices(L) /\ v \in Nat /\ v < n
      BY <1>2, <1>14, <3>2
    <3>4. Noted(L.nodes, L.N, p, v)
      BY <2>1, <3>1, <3>3 DEF WellFormed, Placed, PlacedBut
    <3>5. nodes[v] = L.nodes[v] /\ (v > 0 => nodes[v - 1] = L.nodes[v - 1])
      <4>1. v > 0 => v - 1 \in 0 .. n /\ v - 1 < n
        BY <3>3
      <4> QED
        BY <1>7, <1>14, <3>3, <4>1
    <3>6. v # Cardinality(DOMAIN P.nodes) - 1
      <4>1. Cardinality(0 .. n) = n + 1
        <5>1. Cardinality(0 .. n) = n - 0 + 1
          BY FS_Interval
        <5> QED
          BY <5>1
      <4> QED
        BY <1>14, <3>3, <4>1 DEF Vertices
    <3> QED
      BY <1>14, <3>4, <3>5, <3>6 DEF Noted
  <2> QED
    BY <1>20, <2>1 DEF PlacedBut
<1>22. InBlocks(P)
  <2>1. ASSUME NEW p \in Slots(P), NEW q \in Slots(P), p < q,
               ~IsNull(P.items[p]), ~IsNull(P.items[q])
        PROVE  Before(P.items[p], P.items[q])
    <3>1. p # z /\ P.items[p] = L.items[p] /\ p \in Slots(L) /\ q \in Slots(L)
      BY <1>1, <1>4, <1>14, <2>1
    <3>2. CASE q = z
      <4>1. Owner(P.items[p]) \in 0 .. n - 1
        BY <1>2, <2>1, <3>1, SlotHolds
      <4> QED
        BY <1>14, <1>19, <3>1, <3>2, <4>1 DEF Before
    <3>3. CASE q # z
      BY <1>1, <1>14, <2>1, <3>1, <3>3, BlocksFound DEF WellFormed
    <3> QED
      BY <3>2, <3>3
  <2> QED
    BY <1>1, <1>14, <2>1, BlocksFound
<1>30. ASSUME NEW p \in Slots(P), IsEdge(P.items[p])
       PROVE  p \in Slots(L) /\ P.items[p] = L.items[p]
  BY <1>14, <1>19, <1>30 DEF IsEdge
<1>31. ASSUME OneWriter PROVE Ascending(P)
  <2>2. \A p, q \in Slots(P) :
          p < q /\ IsEdge(P.items[p]) /\ IsEdge(P.items[q]) /\ P.items[p].src = P.items[q].src
            => P.items[p].dest < P.items[q].dest
    BY <1>1, <1>30, <1>31, AscendingFound DEF WellFormed
  <2> QED
    BY <1>1, <1>14, <2>2, AscendingFound
<1>32. EdgesOf(P) = EdgesOf(L)
  <2>1. ASSUME NEW p \in Slots(L), IsEdge(L.items[p])
        PROVE  p \in Slots(P) /\ P.items[p] = L.items[p]
    BY <1>5, <1>14, <2>1 DEF IsEdge
  <2>2. \A x \in EdgesOf(P) : x \in EdgesOf(L)
    BY <1>30 DEF EdgesOf
  <2>3. \A x \in EdgesOf(L) : x \in EdgesOf(P)
    BY <2>1 DEF EdgesOf
  <2> QED
    BY <2>2, <2>3
<1>23. PICK R : R = Redistribute(P, w.start, w.len)
  OBVIOUS
<1>24. WellFormed(R) /\ R.N = L.N /\ Vertices(R) = 0 .. n /\ EdgesOf(R) = EdgesOf(L)
  <2>1. Placed(R)
    BY <1>14, <1>17, <1>18, <1>21, <1>23, RedistributePlaces
  <2>2. Reshaped(P, R, P.N) /\ Keeps(P, R)
    BY <1>14, <1>17, <1>23, RedistributeShape, RedistributeKeeps
  <2>3. IsList(R) /\ R.N = L.N /\ Vertices(R) = 0 .. n
    BY <1>14, <2>2 DEF Reshaped
  <2>4. InBlocks(R) /\ (OneWriter => Ascending(R)) /\ EdgesOf(R) = EdgesOf(L)
    BY <1>14, <1>22, <1>31, <1>32, <2>2, <2>3, KeepsOrder
  <2>5. ~IsNull(R.items[0])
    <3>1. 0 \in Slots(L) /\ ~IsNull(L.items[0])
      BY <1>1 DEF WellFormed
    <3>2. ~IsNull(P.items[0])
      BY <1>14, <1>19, <3>1
    <3> QED
      BY <1>14, <1>17, <1>23, <3>2, RedistributeFirst
  <2> QED
    BY <1>18, <2>1, <2>3, <2>4, <2>5 DEF WellFormed
<1>25. WellFormed(AddNode(L)) /\ EdgesOf(AddNode(L)) = EdgesOf(L)
  <2>1. NoInfo \in Infos /\ NoInfo.kind # "range"
    BY DEF Infos, NoInfo
  <2>2. w.start \in Slots(R)
    BY <1>14, <1>17, <1>24 DEF Slots
  <2> QED
    BY <1>16, <1>23, <1>24, <2>1, <2>2, SettleWell
<1>26. Vertices(AddNode(L)) = Vertices(M)
  <2>1. NoInfo \in Infos
    BY DEF Infos
  <2> QED
    BY <1>5, <1>9, <1>11, <2>1, DepositShape DEF Grown
<1>27. Backed(AddNode(L))
  <2>1. Backed(M) /\ Slidable(M, z)
    BY <1>4, <1>5, <1>9 DEF Backed, Slidable
  <2>2. NoInfo \in {NoInfo, DoubleInfo} /\ Height(M.N) > 0 /\ z \in Slots(M)
    BY <1>5, <1>9
  <2> QED
    BY <1>9, <1>11, <1>19, <2>1, <2>2, DepositBacked
<1> QED
  BY <1>2, <1>9, <1>25, <1>26, <1>27

=============================================================================
