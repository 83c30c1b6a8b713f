-------------------------- MODULE FastLockProofs --------------------------
(***************************************************************************)
(* FastLock is safe for any finite set of threads.  MutualExclusion alone  *)
(* is not inductive: why a writer may trust a comparison of two counters   *)
(* is explained by Inv, which says what the counters count, who owns mtx   *)
(* and that a loaded value of arrived_threads can only be too small.       *)
(***************************************************************************)
EXTENDS FastLock, FiniteSetTheorems, TLAPS

\* mtx_readers is exactly the threads between taking and dropping mtx shared.
ReadersInv == mtx_readers = {t \in Threads : pc[t] \in {"depart", "drop"}}

\* mtx is owned by the thread whose pc says so, and never shared meanwhile.
WriterInv ==
  /\ \A t \in Threads : pc[t] \in HoldsExclusive <=> mtx_writer = t
  /\ mtx_writer # NoThread => mtx_readers = {}

\* While a writer compares, nobody can leave its safe point, so the value it
\* loaded is a lower bound of the counter.
SeenInv == \A t \in Threads : pc[t] = "test" => seen[t] <= arrived_threads

\* Behind a writer that left the loop nobody is inside a shared section.
Excluded ==
  \A t, u \in Threads :
    pc[t] \in {"enter", "exclusive"} => pc[u] # "shared"

Inv == /\ TypeOK
       /\ CountersExact
       /\ ReadersInv
       /\ WriterInv
       /\ RequestFollowsOwner
       /\ SeenInv
       /\ Excluded

----------------------------------------------------------------------------
(* What a set of threads defined by their pc's counts.                     *)

\* A set of threads that gains exactly one member counts one more.
LEMMA CountPlusOne ==
  ASSUME NEW S \in SUBSET Threads, NEW S2 \in SUBSET Threads, NEW t \in Threads,
         t \notin S, S2 = S \cup {t}
  PROVE  Cardinality(S2) = Cardinality(S) + 1
<1>1. IsFiniteSet(S)
  BY FS_Subset, ThreadsAssumption
<1> QED
  BY <1>1, FS_AddElement

\* A set of threads that loses exactly one member counts one less.
LEMMA CountMinusOne ==
  ASSUME NEW S \in SUBSET Threads, NEW S2 \in SUBSET Threads, NEW t \in Threads,
         t \in S, S2 = S \ {t}
  PROVE  Cardinality(S2) = Cardinality(S) - 1
<1>1. IsFiniteSet(S)
  BY FS_Subset, ThreadsAssumption
<1> QED
  BY <1>1, FS_RemoveElement

\* The test of lock(): if at least as many threads are parked as are
\* registered, then every registered thread is parked.
LEMMA AllParked ==
  ASSUME TypeOK, Cardinality(Registered) <= Cardinality(Parked)
  PROVE  Registered = Parked
<1>1. IsFiniteSet(Registered) /\ Parked \subseteq Registered
  BY FS_Subset, ThreadsAssumption DEF Registered, Parked, Arrived
<1>2. Cardinality(Parked) <= Cardinality(Registered)
  BY <1>1, FS_Subset
<1>3. Cardinality(Parked) = Cardinality(Registered)
  BY <1>1, <1>2, FS_CardinalityType, FS_Subset
<1> QED
  BY <1>1, <1>3, FS_Subset

----------------------------------------------------------------------------
(* The counters.                                                           *)

\* How a thread's move from one pc to another changes the set Counted of pcs.
Delta(n, Counted, from, to) ==
  IF from \notin Counted /\ to \in Counted THEN n + 1
  ELSE IF from \in Counted /\ to \notin Counted THEN n - 1
  ELSE n

\* A counter that follows Delta stays the number of threads at Counted pcs.
LEMMA CountFollows ==
  ASSUME NEW Counted, NEW t \in Threads, NEW to, TypeOK,
         pc' = [pc EXCEPT ![t] = to]
  PROVE  Cardinality({u \in Threads : pc'[u] \in Counted})
           = Delta(Cardinality({u \in Threads : pc[u] \in Counted}),
                   Counted, pc[t], to)
<1> DEFINE S  == {u \in Threads : pc[u] \in Counted}
           S2 == {u \in Threads : pc'[u] \in Counted}
<1>1. pc'[t] = to /\ \A u \in Threads : u # t => pc'[u] = pc[u]
  BY DEF TypeOK
<1>2. CASE pc[t] \notin Counted /\ to \in Counted
  <2>1. t \notin S /\ S2 = S \cup {t}
    BY <1>1, <1>2
  <2>2. Cardinality(S2) = Cardinality(S) + 1
    BY <2>1, CountPlusOne
  <2> QED
    BY <2>2, <1>2 DEF Delta
<1>3. CASE pc[t] \in Counted /\ to \notin Counted
  <2>1. t \in S /\ S2 = S \ {t}
    BY <1>1, <1>3
  <2>2. Cardinality(S2) = Cardinality(S) - 1
    BY <2>1, CountMinusOne
  <2> QED
    BY <2>2, <1>3 DEF Delta
<1>4. CASE pc[t] \in Counted <=> to \in Counted
  <2>1. S2 = S
    BY <1>1, <1>4
  <2> QED
    BY <2>1, <1>4 DEF Delta
<1> QED
  BY <1>2, <1>3, <1>4

\* CountersExact survives a move of one thread that does the right arithmetic.
LEMMA CountersStep ==
  ASSUME TypeOK, CountersExact, NEW t \in Threads, NEW to \in PCs,
         pc' = [pc EXCEPT ![t] = to],
         thread_counter' = Delta(thread_counter, PCs \ {"out"}, pc[t], to),
         arrived_threads' = Delta(arrived_threads, Arrived, pc[t], to)
  PROVE  CountersExact'
<1>1. Registered = {u \in Threads : pc[u] \in PCs \ {"out"}}
  BY DEF Registered, TypeOK
<1>2. Registered' = {u \in Threads : pc'[u] \in PCs \ {"out"}}
  <2>1. \A u \in Threads : pc'[u] \in PCs
    BY DEF TypeOK
  <2> QED
    BY <2>1 DEF Registered
<1>3. Cardinality(Registered') = thread_counter'
  BY <1>1, <1>2, CountFollows DEF CountersExact
<1>4. Cardinality(Parked') = arrived_threads'
  BY CountFollows DEF CountersExact, Parked
<1> QED
  BY <1>3, <1>4 DEF CountersExact

\* Each count is at least one while some thread is counted.
LEMMA CountersPositive ==
  ASSUME TypeOK, CountersExact, NEW t \in Threads
  PROVE  /\ pc[t] # "out" => thread_counter >= 1
         /\ pc[t] \in Arrived => arrived_threads >= 1
<1>1. \A S \in SUBSET Threads : t \in S => Cardinality(S) \in Nat /\ Cardinality(S) >= 1
  <2> SUFFICES ASSUME NEW S \in SUBSET Threads, t \in S
               PROVE  Cardinality(S) \in Nat /\ Cardinality(S) >= 1
    OBVIOUS
  <2>1. IsFiniteSet(S)
    BY FS_Subset, ThreadsAssumption
  <2>2. Cardinality(S) \in Nat /\ Cardinality(S \ {t}) \in Nat
        /\ Cardinality(S \ {t}) = Cardinality(S) - 1
    BY <2>1, FS_RemoveElement, FS_CardinalityType
  <2> QED
    BY <2>2
<1>2. pc[t] # "out" => t \in Registered
  BY DEF Registered
<1>3. pc[t] \in Arrived => t \in Parked
  BY DEF Parked
<1>4. Registered \in SUBSET Threads /\ Parked \in SUBSET Threads
  BY DEF Registered, Parked
<1> QED
  BY <1>1, <1>2, <1>3, <1>4 DEF CountersExact

----------------------------------------------------------------------------
(* Inv is inductive.                                                       *)

\* The initial state satisfies Inv: nobody is registered, nothing is held.
LEMMA InitInv == Init => Inv
<1> SUFFICES ASSUME Init PROVE Inv
  OBVIOUS
<1>1. TypeOK
  BY DEF Init, TypeOK, PCs
<1>2. CountersExact
  <2>1. Registered = {} /\ Parked = {}
    BY DEF Init, Registered, Parked, Arrived
  <2> QED
    BY <2>1, FS_EmptySet DEF Init, CountersExact
<1>3. ReadersInv /\ WriterInv /\ RequestFollowsOwner /\ SeenInv /\ Excluded
  BY ThreadsAssumption
     DEF Init, ReadersInv, WriterInv, HoldsExclusive, RequestFollowsOwner,
         SeenInv, Excluded
<1> QED
  BY <1>1, <1>2, <1>3 DEF Inv

\* Every step keeps the types.
LEMMA StepTypeOK == Inv /\ [Next]_vars => TypeOK'
<1> SUFFICES ASSUME Inv, [Next]_vars PROVE TypeOK'
  OBVIOUS
<1> USE DEF Inv
<1>1. CASE UNCHANGED vars
  BY <1>1 DEF vars, TypeOK
<1>2. ASSUME NEW t \in Threads, Step(t) PROVE TypeOK'
  <2> USE <1>2
  <2>0. /\ pc[t] # "out" => thread_counter >= 1
        /\ pc[t] \in Arrived => arrived_threads >= 1
    BY CountersPositive
  <2>1. CASE RegisterThread(t)
    BY <2>0, <2>1 DEF RegisterThread, Goto, TypeOK, PCs
  <2>2. CASE UnregisterThread(t)
    BY <2>0, <2>2 DEF UnregisterThread, Goto, Arrived, TypeOK, PCs
  <2>3. CASE LockShared(t)
    BY <2>0, <2>3 DEF LockShared, PassOrPark, TypeOK, PCs
  <2>4. CASE UnlockShared(t)
    BY <2>0, <2>4 DEF UnlockShared, PassOrPark, TypeOK, PCs
  <2>5. CASE SharedArrive(t)
    BY <2>0, <2>5 DEF SharedArrive, Goto, TypeOK, PCs
  <2>6. CASE SharedAcquire(t)
    BY <2>0, <2>6 DEF SharedAcquire, Goto, TypeOK, PCs
  <2>7. CASE SharedDepart(t)
    BY <2>0, <2>7 DEF SharedDepart, Goto, Arrived, TypeOK, PCs
  <2>8. CASE SharedDrop(t)
    BY <2>0, <2>8 DEF SharedDrop, Goto, TypeOK, PCs
  <2>9. CASE LockArrive(t)
    BY <2>0, <2>9 DEF LockArrive, Goto, TypeOK, PCs
  <2>10. CASE LockAcquire(t)
    BY <2>0, <2>10 DEF LockAcquire, Goto, TypeOK, PCs
  <2>11. CASE LockRequest(t)
    BY <2>0, <2>11 DEF LockRequest, Goto, TypeOK, PCs
  <2>12. CASE SpinLoad(t)
    BY <2>0, <2>12 DEF SpinLoad, Goto, TypeOK, PCs
  <2>13. CASE SpinAgain(t)
    BY <2>0, <2>13 DEF SpinAgain, Goto, TypeOK, PCs
  <2>14. CASE SpinDone(t)
    BY <2>0, <2>14 DEF SpinDone, Goto, TypeOK, PCs
  <2>15. CASE LockEnter(t)
    BY <2>0, <2>15 DEF LockEnter, Goto, Arrived, TypeOK, PCs
  <2>16. CASE UnlockRequest(t)
    BY <2>0, <2>16 DEF UnlockRequest, Goto, TypeOK, PCs
  <2>17. CASE UnlockMutex(t)
    BY <2>0, <2>17 DEF UnlockMutex, Goto, TypeOK, PCs
  <2>18. CASE BeginRead(t)
    BY <2>0, <2>18 DEF BeginRead, Goto, TypeOK, PCs
  <2>19. CASE EndRead(t)
    BY <2>0, <2>19 DEF EndRead, Goto, TypeOK, PCs
  <2> QED
    BY <2>1, <2>2, <2>3, <2>4, <2>5, <2>6, <2>7, <2>8, <2>9, <2>10, <2>11, <2>12, <2>13, <2>14, <2>15, <2>16, <2>17, <2>18, <2>19
       DEF Step, SharedCall, ExclusiveCall, Spin, Unlock
<1> QED
  BY <1>1, <1>2 DEF Next

\* Every step does the arithmetic the counters need.
LEMMA StepCounters == Inv /\ [Next]_vars => CountersExact'
<1> SUFFICES ASSUME Inv, [Next]_vars PROVE CountersExact'
  OBVIOUS
<1> USE DEF Inv
<1>1. CASE UNCHANGED vars
  BY <1>1 DEF vars, CountersExact, Registered, Parked
<1>2. ASSUME NEW t \in Threads, Step(t) PROVE CountersExact'
  <2> USE <1>2
  <2> DEFINE Follows(to) ==
        /\ pc' = [pc EXCEPT ![t] = to]
        /\ thread_counter' = Delta(thread_counter, PCs \ {"out"}, pc[t], to)
        /\ arrived_threads' = Delta(arrived_threads, Arrived, pc[t], to)
  <2>0. ASSUME NEW to \in PCs, Follows(to) PROVE CountersExact'
    BY <2>0, CountersStep
  <2> HIDE DEF Inv
  <2>1. CASE RegisterThread(t)
    <3>1. Follows("idle") /\ "idle" \in PCs
      BY <2>1 DEF RegisterThread, Goto, Delta, Arrived, PCs
    <3> QED
      BY <2>0, <3>1
  <2>2. CASE UnregisterThread(t)
    <3>1. Follows("out") /\ "out" \in PCs
      BY <2>2 DEF UnregisterThread, Goto, Delta, Arrived, PCs
    <3> QED
      BY <2>0, <3>1
  <2>3. CASE LockShared(t)
    <3>1. \/ Follows("arrive") /\ "arrive" \in PCs
          \/ Follows("shared") /\ "shared" \in PCs
      BY <2>3 DEF LockShared, PassOrPark, Delta, Arrived, PCs
    <3> QED
      BY <2>0, <3>1
  <2>4. CASE UnlockShared(t)
    <3>1. \/ Follows("arrive") /\ "arrive" \in PCs
          \/ Follows("idle") /\ "idle" \in PCs
      BY <2>4 DEF UnlockShared, PassOrPark, Delta, Arrived, PCs
    <3> QED
      BY <2>0, <3>1
  <2>5. CASE SharedArrive(t)
    <3>1. Follows("park") /\ "park" \in PCs
      BY <2>5 DEF SharedArrive, Goto, Delta, Arrived, PCs
    <3> QED
      BY <2>0, <3>1
  <2>6. CASE SharedAcquire(t)
    <3>1. Follows("depart") /\ "depart" \in PCs
      BY <2>6 DEF SharedAcquire, Goto, Delta, Arrived, PCs
    <3> QED
      BY <2>0, <3>1
  <2>7. CASE SharedDepart(t)
    <3>1. Follows("drop") /\ "drop" \in PCs
      BY <2>7 DEF SharedDepart, Goto, Delta, Arrived, PCs
    <3> QED
      BY <2>0, <3>1
  <2>8. CASE SharedDrop(t)
    <3>1. after[t] \in {"shared", "idle"}
      BY DEF Inv, TypeOK
    <3>2. Follows(after[t]) /\ after[t] \in PCs
      BY <2>8, <3>1 DEF SharedDrop, Goto, Delta, Arrived, PCs
    <3> QED
      BY <2>0, <3>2
  <2>9. CASE LockArrive(t)
    <3>1. Follows("lock") /\ "lock" \in PCs
      BY <2>9 DEF LockArrive, Goto, Delta, Arrived, PCs
    <3> QED
      BY <2>0, <3>1
  <2>10. CASE LockAcquire(t)
    <3>1. Follows("flag") /\ "flag" \in PCs
      BY <2>10 DEF LockAcquire, Goto, Delta, Arrived, PCs
    <3> QED
      BY <2>0, <3>1
  <2>11. CASE LockRequest(t)
    <3>1. Follows("spin") /\ "spin" \in PCs
      BY <2>11 DEF LockRequest, Goto, Delta, Arrived, PCs
    <3> QED
      BY <2>0, <3>1
  <2>12. CASE SpinLoad(t)
    <3>1. Follows("test") /\ "test" \in PCs
      BY <2>12 DEF SpinLoad, Goto, Delta, Arrived, PCs
    <3> QED
      BY <2>0, <3>1
  <2>13. CASE SpinAgain(t)
    <3>1. Follows("spin") /\ "spin" \in PCs
      BY <2>13 DEF SpinAgain, Goto, Delta, Arrived, PCs
    <3> QED
      BY <2>0, <3>1
  <2>14. CASE SpinDone(t)
    <3>1. Follows("enter") /\ "enter" \in PCs
      BY <2>14 DEF SpinDone, Goto, Delta, Arrived, PCs
    <3> QED
      BY <2>0, <3>1
  <2>15. CASE LockEnter(t)
    <3>1. Follows("exclusive") /\ "exclusive" \in PCs
      BY <2>15 DEF LockEnter, Goto, Delta, Arrived, PCs
    <3> QED
      BY <2>0, <3>1
  <2>16. CASE UnlockRequest(t)
    <3>1. Follows("release") /\ "release" \in PCs
      BY <2>16 DEF UnlockRequest, Goto, Delta, Arrived, PCs
    <3> QED
      BY <2>0, <3>1
  <2>17. CASE UnlockMutex(t)
    <3>1. Follows("idle") /\ "idle" \in PCs
      BY <2>17 DEF UnlockMutex, Goto, Delta, Arrived, PCs
    <3> QED
      BY <2>0, <3>1
  <2>18. CASE BeginRead(t)
    <3>1. Follows("reading") /\ "reading" \in PCs
      BY <2>18 DEF BeginRead, Goto, Delta, Arrived, PCs
    <3> QED
      BY <2>0, <3>1
  <2>19. CASE EndRead(t)
    <3>1. Follows("idle") /\ "idle" \in PCs
      BY <2>19 DEF EndRead, Goto, Delta, Arrived, PCs
    <3> QED
      BY <2>0, <3>1
  <2> QED
    BY <2>1, <2>2, <2>3, <2>4, <2>5, <2>6, <2>7, <2>8, <2>9, <2>10, <2>11, <2>12, <2>13, <2>14, <2>15, <2>16, <2>17, <2>18, <2>19
       DEF Step, SharedCall, ExclusiveCall, Spin, Unlock
<1> QED
  BY <1>1, <1>2 DEF Next

\* Every step keeps mtx consistent with the pcs and the flag with its owner.
LEMMA StepOwnership ==
  Inv /\ [Next]_vars => ReadersInv' /\ WriterInv' /\ RequestFollowsOwner'
<1> DEFINE Ownership == ReadersInv /\ WriterInv /\ RequestFollowsOwner
<1> SUFFICES ASSUME Inv, [Next]_vars PROVE Ownership'
  OBVIOUS
<1> USE DEF Inv
<1>1. CASE UNCHANGED vars
  BY <1>1 DEF vars, ReadersInv, WriterInv, RequestFollowsOwner
<1>2. ASSUME NEW t \in Threads, Step(t) PROVE Ownership'
  <2> USE <1>2, ThreadsAssumption
          DEF TypeOK, ReadersInv, WriterInv, RequestFollowsOwner, HoldsExclusive
  <2>1. CASE RegisterThread(t)
    BY <2>1 DEF RegisterThread, Goto
  <2>2. CASE UnregisterThread(t)
    BY <2>2 DEF UnregisterThread, Goto
  <2>3. CASE LockShared(t)
    BY <2>3 DEF LockShared, PassOrPark
  <2>4. CASE UnlockShared(t)
    BY <2>4 DEF UnlockShared, PassOrPark
  <2>5. CASE SharedArrive(t)
    BY <2>5 DEF SharedArrive, Goto
  <2>6. CASE SharedAcquire(t)
    BY <2>6 DEF SharedAcquire, Goto
  <2>7. CASE SharedDepart(t)
    BY <2>7 DEF SharedDepart, Goto
  <2>8. CASE SharedDrop(t)
    BY <2>8 DEF SharedDrop, Goto
  <2>9. CASE LockArrive(t)
    BY <2>9 DEF LockArrive, Goto
  <2>10. CASE LockAcquire(t)
    BY <2>10 DEF LockAcquire, Goto
  <2>11. CASE LockRequest(t)
    BY <2>11 DEF LockRequest, Goto
  <2>12. CASE SpinLoad(t)
    BY <2>12 DEF SpinLoad, Goto
  <2>13. CASE SpinAgain(t)
    BY <2>13 DEF SpinAgain, Goto
  <2>14. CASE SpinDone(t)
    BY <2>14 DEF SpinDone, Goto
  <2>15. CASE LockEnter(t)
    BY <2>15 DEF LockEnter, Goto
  <2>16. CASE UnlockRequest(t)
    BY <2>16 DEF UnlockRequest, Goto
  <2>17. CASE UnlockMutex(t)
    BY <2>17 DEF UnlockMutex, Goto
  <2>18. CASE BeginRead(t)
    BY <2>18 DEF BeginRead, Goto
  <2>19. CASE EndRead(t)
    BY <2>19 DEF EndRead, Goto
  <2> QED
    BY <2>1, <2>2, <2>3, <2>4, <2>5, <2>6, <2>7, <2>8, <2>9, <2>10, <2>11, <2>12, <2>13, <2>14, <2>15, <2>16, <2>17, <2>18, <2>19
       DEF Step, SharedCall, ExclusiveCall, Spin, Unlock
<1> QED
  BY <1>1, <1>2 DEF Next

\* A thread that passes the test of lock() finds every registered thread parked.
LEMMA TestMeansParked ==
  ASSUME Inv, NEW t \in Threads, SpinDone(t)
  PROVE  Registered = Parked
<1>1. thread_counter <= arrived_threads
  BY DEF Inv, TypeOK, SeenInv, SpinDone, Goto
<1> QED
  BY <1>1, AllParked DEF Inv, CountersExact

\* Every step keeps loaded values low and shared sections behind the writer shut.
LEMMA StepExclusion == Inv /\ [Next]_vars => SeenInv' /\ Excluded'
<1> DEFINE Exclusion == SeenInv /\ Excluded
<1> SUFFICES ASSUME Inv, [Next]_vars PROVE Exclusion'
  OBVIOUS
<1> USE DEF Inv
<1>1. CASE UNCHANGED vars
  BY <1>1 DEF vars, SeenInv, Excluded
<1>2. ASSUME NEW t \in Threads, Step(t) PROVE Exclusion'
  <2> USE <1>2, ThreadsAssumption
          DEF TypeOK, ReadersInv, WriterInv, RequestFollowsOwner, HoldsExclusive,
              SeenInv, Excluded
  <2>1. CASE RegisterThread(t)
    BY <2>1 DEF RegisterThread, Goto
  <2>2. CASE UnregisterThread(t)
    BY <2>2 DEF UnregisterThread, Goto
  <2>3. CASE LockShared(t)
    BY <2>3 DEF LockShared, PassOrPark
  <2>4. CASE UnlockShared(t)
    BY <2>4 DEF UnlockShared, PassOrPark
  <2>5. CASE SharedArrive(t)
    BY <2>5 DEF SharedArrive, Goto
  <2>6. CASE SharedAcquire(t)
    BY <2>6 DEF SharedAcquire, Goto
  <2>7. CASE SharedDepart(t)
    BY <2>7 DEF SharedDepart, Goto
  <2>8. CASE SharedDrop(t)
    BY <2>8 DEF SharedDrop, Goto
  <2>9. CASE LockArrive(t)
    BY <2>9 DEF LockArrive, Goto
  <2>10. CASE LockAcquire(t)
    BY <2>10 DEF LockAcquire, Goto
  <2>11. CASE LockRequest(t)
    BY <2>11 DEF LockRequest, Goto
  <2>12. CASE SpinLoad(t)
    BY <2>12 DEF SpinLoad, Goto
  <2>13. CASE SpinAgain(t)
    BY <2>13 DEF SpinAgain, Goto
  <2>14. CASE SpinDone(t)
    <3>1. \A u \in Threads : pc[u] # "shared"
      BY <2>14, TestMeansParked DEF Registered, Parked, Arrived
    <3> QED
      BY <2>14, <3>1 DEF SpinDone, Goto
  <2>15. CASE LockEnter(t)
    BY <2>15 DEF LockEnter, Goto
  <2>16. CASE UnlockRequest(t)
    BY <2>16 DEF UnlockRequest, Goto
  <2>17. CASE UnlockMutex(t)
    BY <2>17 DEF UnlockMutex, Goto
  <2>18. CASE BeginRead(t)
    BY <2>18 DEF BeginRead, Goto
  <2>19. CASE EndRead(t)
    BY <2>19 DEF EndRead, Goto
  <2> QED
    BY <2>1, <2>2, <2>3, <2>4, <2>5, <2>6, <2>7, <2>8, <2>9, <2>10, <2>11, <2>12, <2>13, <2>14, <2>15, <2>16, <2>17, <2>18, <2>19
       DEF Step, SharedCall, ExclusiveCall, Spin, Unlock
<1> QED
  BY <1>1, <1>2 DEF Next

\* Inv is preserved by every step.
LEMMA StepInv == Inv /\ [Next]_vars => Inv'
BY StepTypeOK, StepCounters, StepOwnership, StepExclusion DEF Inv

\* Inv holds in every reachable state.
THEOREM InvCorrect == Spec => []Inv
BY InitInv, StepInv, PTL DEF Spec

----------------------------------------------------------------------------
(* The properties of FastLock, for every finite set of threads.            *)

\* The variables keep their types: in particular no counter goes below zero.
THEOREM TypeCorrect == Spec => []TypeOK
<1>1. Inv => TypeOK
  BY DEF Inv
<1> QED
  BY <1>1, InvCorrect, PTL

\* fastLock.h's two atomics count registered and parked threads exactly.
THEOREM CountersCorrect == Spec => []CountersExact
<1>1. Inv => CountersExact
  BY DEF Inv
<1> QED
  BY <1>1, InvCorrect, PTL

\* An exclusive section overlaps no other section.
THEOREM MutualExclusionCorrect == Spec => []MutualExclusion
<1>1. Inv => MutualExclusion
  <2> SUFFICES ASSUME Inv, NEW t \in Threads, NEW u \in Threads,
                      t # u, pc[t] = "exclusive"
               PROVE  pc[u] \notin {"shared", "exclusive"}
    BY DEF MutualExclusion
  <2>1. pc[u] # "shared"
    BY DEF Inv, Excluded
  <2>2. pc[u] # "exclusive"
    BY DEF Inv, WriterInv, HoldsExclusive
  <2> QED
    BY <2>1, <2>2
<1> QED
  BY <1>1, InvCorrect, PTL

\* The flag announces exactly the writer that owns mtx.
THEOREM RequestFollowsOwnerCorrect == Spec => []RequestFollowsOwner
<1>1. Inv => RequestFollowsOwner
  BY DEF Inv
<1> QED
  BY <1>1, InvCorrect, PTL

\* A writer leaves its loop only when every registered thread is parked.
THEOREM RendezvousCorrect == Spec => RendezvousComplete
<1> DEFINE Rendezvous == \A t \in Threads :
             pc[t] = "test" /\ pc'[t] = "enter" => Registered \subseteq Parked
<1>1. Inv /\ [Next]_vars => [Rendezvous]_vars
  <2> SUFFICES ASSUME Inv, NEW u \in Threads, Step(u),
                      NEW t \in Threads, pc[t] = "test", pc'[t] = "enter"
               PROVE  Registered \subseteq Parked
    BY DEF Next
  <2>1. SpinDone(t)
    BY DEF Inv, TypeOK, Step, SharedCall, ExclusiveCall, Spin, Unlock,
           RegisterThread, UnregisterThread, LockShared, UnlockShared,
           PassOrPark, SharedArrive, SharedAcquire, SharedDepart, SharedDrop,
           LockArrive, LockAcquire, LockRequest, SpinLoad, SpinAgain, SpinDone,
           LockEnter, UnlockRequest, UnlockMutex, BeginRead, EndRead, Goto
  <2> QED
    BY <2>1, TestMeansParked
<1> QED
  BY <1>1, InvCorrect, PTL DEF Spec, RendezvousComplete

\* The threads a writer waited for stay parked through its exclusive section.
THEOREM ParkedStayParkedCorrect == Spec => ParkedStayParked
<1> DEFINE Stay == \A t, u \in Threads :
             t # u /\ pc[t] = "exclusive" /\ pc[u] \in Arrived => pc'[u] = pc[u]
<1>1. Inv /\ [Next]_vars => [Stay]_vars
  <2> SUFFICES ASSUME Inv, NEW v \in Threads, Step(v),
                      NEW t \in Threads, NEW u \in Threads,
                      t # u, pc[t] = "exclusive", pc[u] \in Arrived
               PROVE  pc'[u] = pc[u]
    BY DEF Next
  <2>1. /\ mtx_writer = t
        /\ mtx_readers = {}
        /\ u \notin mtx_readers
        /\ pc[u] \notin HoldsExclusive
    BY ThreadsAssumption DEF Inv, WriterInv, HoldsExclusive
  <2>2. pc[u] \in {"park", "lock"}
    BY <2>1 DEF Inv, ReadersInv, Arrived, HoldsExclusive
  <2> QED
    BY <2>1, <2>2, ThreadsAssumption
       DEF Inv, TypeOK, Step, SharedCall, ExclusiveCall, Spin, Unlock,
           RegisterThread, UnregisterThread, LockShared, UnlockShared,
           PassOrPark, SharedArrive, SharedAcquire, SharedDepart, SharedDrop,
           LockArrive, LockAcquire, LockRequest, SpinLoad, SpinAgain, SpinDone,
           LockEnter, UnlockRequest, UnlockMutex, BeginRead, EndRead, Goto
<1> QED
  BY <1>1, InvCorrect, PTL DEF Spec, ParkedStayParked

----------------------------------------------------------------------------
(* Refinement.                                                             *)

\* Moving between two pcs outside the sections is invisible to RWLock.
LEMMA HiddenMove ==
  ASSUME TypeOK, NEW t \in Threads, NEW to,
         pc' = [pc EXCEPT ![t] = to],
         pc[t] \notin {"shared", "exclusive"}, to \notin {"shared", "exclusive"}
  PROVE  Mode' = Mode
BY DEF Mode, TypeOK

\* Every step of the protocol is a step of RWLock or leaves it unchanged.
LEMMA StepRefines == Inv /\ [Next]_vars => [RW!RWNext]_Mode
<1> SUFFICES ASSUME Inv, [Next]_vars PROVE RW!RWNext \/ Mode' = Mode
  OBVIOUS
<1>1. CASE UNCHANGED vars
  BY <1>1 DEF vars, Mode
<1>2. ASSUME NEW t \in Threads, Step(t) PROVE RW!RWNext \/ Mode' = Mode
  <2>0. TypeOK
    BY DEF Inv
  <2> DEFINE Enter(m) == Mode' = [Mode EXCEPT ![t] = m]
  <2>a. ASSUME NEW to \in PCs, pc' = [pc EXCEPT ![t] = to], to \in {"shared", "exclusive"}
        PROVE  Enter(to)
    BY <2>0, <2>a DEF Mode, TypeOK
  <2>b. ASSUME NEW to \in PCs, pc' = [pc EXCEPT ![t] = to], to \notin {"shared", "exclusive"}
        PROVE  Enter("none")
    BY <2>0, <2>b DEF PCs, Mode, TypeOK
  <2> HIDE DEF Enter
  <2>1. CASE RegisterThread(t)
    BY <2>0, <2>1, HiddenMove DEF RegisterThread, Goto
  <2>2. CASE UnregisterThread(t)
    BY <2>0, <2>2, HiddenMove DEF UnregisterThread, Goto
  <2>3. CASE LockShared(t)
    <3>1. CASE lockRequested
      BY <2>0, <2>3, <3>1, HiddenMove DEF LockShared, PassOrPark
    <3>2. CASE ~lockRequested
      <4>1. Enter("shared")
        BY <2>3, <2>a, <3>2 DEF PCs, LockShared, PassOrPark
      <4>2. \A u \in Threads : pc[u] # "exclusive"
        BY <3>2 DEF Inv, RequestFollowsOwner, WriterInv, HoldsExclusive
      <4>3. Mode[t] = "none" /\ \A u \in Threads : Mode[u] # "exclusive"
        BY <2>3, <4>2 DEF Mode, LockShared, PassOrPark
      <4> QED
        BY <4>1, <4>3 DEF Enter, RW!RWNext, RW!AcquireShared
    <3> QED
      BY <3>1, <3>2
  <2>4. CASE UnlockShared(t)
    <3>1. Enter("none")
      BY <2>4, <2>b DEF PCs, UnlockShared, PassOrPark
    <3>2. Mode[t] # "none"
      BY <2>4 DEF Mode, UnlockShared, PassOrPark
    <3> QED
      BY <3>1, <3>2 DEF Enter, RW!RWNext, RW!Release
  <2>5. CASE SharedArrive(t)
    BY <2>0, <2>5, HiddenMove DEF SharedArrive, Goto
  <2>6. CASE SharedAcquire(t)
    BY <2>0, <2>6, HiddenMove DEF SharedAcquire, Goto
  <2>7. CASE SharedDepart(t)
    BY <2>0, <2>7, HiddenMove DEF SharedDepart, Goto
  <2>8. CASE SharedDrop(t)
    <3>1. CASE after[t] = "idle"
      BY <2>0, <2>8, <3>1, HiddenMove DEF SharedDrop, Goto
    <3>2. CASE after[t] = "shared"
      <4>1. Enter("shared")
        BY <2>8, <2>a, <3>2 DEF PCs, SharedDrop, Goto
      <4>2. \A u \in Threads : pc[u] # "exclusive"
        BY <2>8, ThreadsAssumption
           DEF SharedDrop, Goto, Inv, ReadersInv, WriterInv, HoldsExclusive
      <4>3. Mode[t] = "none" /\ \A u \in Threads : Mode[u] # "exclusive"
        BY <2>8, <4>2 DEF Mode, SharedDrop, Goto
      <4> QED
        BY <4>1, <4>3 DEF Enter, RW!RWNext, RW!AcquireShared
    <3> QED
      BY <2>0, <3>1, <3>2 DEF TypeOK
  <2>9. CASE LockArrive(t)
    BY <2>0, <2>9, HiddenMove DEF LockArrive, Goto
  <2>10. CASE LockAcquire(t)
    BY <2>0, <2>10, HiddenMove DEF LockAcquire, Goto
  <2>11. CASE LockRequest(t)
    BY <2>0, <2>11, HiddenMove DEF LockRequest, Goto
  <2>12. CASE SpinLoad(t)
    BY <2>0, <2>12, HiddenMove DEF SpinLoad, Goto
  <2>13. CASE SpinAgain(t)
    BY <2>0, <2>13, HiddenMove DEF SpinAgain, Goto
  <2>14. CASE SpinDone(t)
    BY <2>0, <2>14, HiddenMove DEF SpinDone, Goto
  <2>15. CASE LockEnter(t)
    <3>1. Enter("exclusive")
      BY <2>15, <2>a DEF PCs, LockEnter, Goto
    <3>2. \A u \in Threads : pc[u] \notin {"shared", "exclusive"}
      BY <2>15 DEF LockEnter, Goto, Inv, Excluded, WriterInv, HoldsExclusive
    <3>3. \A u \in Threads : Mode[u] = "none"
      BY <3>2 DEF Mode
    <3> QED
      BY <3>1, <3>3 DEF Enter, RW!RWNext, RW!AcquireExclusive
  <2>16. CASE UnlockRequest(t)
    <3>1. Enter("none")
      BY <2>16, <2>b DEF PCs, UnlockRequest, Goto
    <3>2. Mode[t] # "none"
      BY <2>16 DEF Mode, UnlockRequest, Goto
    <3> QED
      BY <3>1, <3>2 DEF Enter, RW!RWNext, RW!Release
  <2>17. CASE UnlockMutex(t)
    BY <2>0, <2>17, HiddenMove DEF UnlockMutex, Goto
  <2>18. CASE BeginRead(t)
    BY <2>0, <2>18, HiddenMove DEF BeginRead, Goto
  <2>19. CASE EndRead(t)
    BY <2>0, <2>19, HiddenMove DEF EndRead, Goto
  <2> QED
    BY <1>2, <2>1, <2>2, <2>3, <2>4, <2>5, <2>6, <2>7, <2>8, <2>9, <2>10, <2>11, <2>12, <2>13, <2>14, <2>15, <2>16, <2>17, <2>18, <2>19
       DEF Step, SharedCall, ExclusiveCall, Spin, Unlock
<1> QED
  BY <1>1, <1>2 DEF Next

\* FastLock implements the abstract lock that PCSR is written against.
THEOREM Refinement == Spec => ImplementsRWLock
<1>1. Init => RW!RWInit
  BY DEF Init, RW!RWInit, Mode
<1> QED
  BY <1>1, StepRefines, InvCorrect, PTL DEF Spec, ImplementsRWLock, RW!RWSpec

============================================================================
