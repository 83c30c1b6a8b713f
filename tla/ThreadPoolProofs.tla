-------------------------- MODULE ThreadPoolProofs --------------------------
(***************************************************************************)
(* The workers of the pool use the global lock as FastLock.tla assumes, so *)
(* what is proved of the lock holds in the pool: for any number of threads *)
(* and any batches of tasks.  And every task is run exactly once.          *)
(***************************************************************************)
EXTENDS ThreadPool, Arithmetic

LockProofs == INSTANCE FastLockProofs

Places == {"off", "loop", "register", "run", "ended"}

\* A thread is registered when it runs an operation, and not when it does not
\* work; one that has ended has left no task behind; between two batches nothing
\* is left at all.
QuietInv ==
  \A t \in Threads :
    /\ place[t] \in {"off", "ended", "register"} => pc[t] = "out"
    /\ place[t] = "ended" => tasks[t] = <<>>
    /\ main = "submit" => place[t] = "off" /\ tasks[t] = <<>>
    /\ place[t] = "run" => pc[t] # "out"

\* stop() has joined the threads before next.
JoinInv ==
  main = "join" => \A t \in Threads : t < next => place[t] = "off" /\ tasks[t] = <<>>

PoolInv ==
  /\ place \in [Threads -> Places]
  /\ tasks = [t \in Threads |-> tasks[t]]
  /\ next \in Nat
  /\ QuietInv
  /\ JoinInv

----------------------------------------------------------------------------
\* The assumption about the threads of the lock
LEMMA PoolThreads == IsFiniteSet(Threads) /\ NoThread \notin Threads
<1>1. IsFiniteSet(0 .. NumThreads - 1)
  BY FS_Interval, PoolAssumption
<1> QED
  BY <1>1, PoolAssumption DEF Threads

\* Whatever a worker or the main thread does is a step of the lock, or none.
LEMMA LockStep == [Next]_vars => [FL!Next]_lockvars
  BY DEF Next, vars, Main, Submit, Spawn, Stop, Join, Work, Take, Register,
         SharedSection, ExclusiveSection, Read, Rest, Leave, FL!Next, FL!Step

\* The same, of the lock the proofs are about.
LEMMA SameLock == [Next]_vars => [LockProofs!Next]_(LockProofs!vars)
<1>1. [FL!Next]_lockvars => [LockProofs!Next]_(LockProofs!vars)
  BY DEF lockvars, LockProofs!vars, FL!Next, FL!Step, LockProofs!Next, LockProofs!Step,
    FL!SharedCall, FL!ExclusiveCall, LockProofs!SharedCall, LockProofs!ExclusiveCall,
    FL!RegisterThread, LockProofs!RegisterThread, FL!UnregisterThread,
    LockProofs!UnregisterThread, FL!Goto, LockProofs!Goto, FL!PassOrPark,
    LockProofs!PassOrPark, FL!LockShared, LockProofs!LockShared, FL!UnlockShared,
    LockProofs!UnlockShared, FL!SharedArrive, LockProofs!SharedArrive,
    FL!SharedAcquire, LockProofs!SharedAcquire, FL!SharedDepart,
    LockProofs!SharedDepart, FL!SharedDrop, LockProofs!SharedDrop, FL!LockArrive,
    LockProofs!LockArrive, FL!LockAcquire, LockProofs!LockAcquire, FL!LockRequest,
    LockProofs!LockRequest, FL!Spin, LockProofs!Spin, FL!SpinLoad, LockProofs!SpinLoad,
    FL!SpinAgain, LockProofs!SpinAgain, FL!SpinDone, LockProofs!SpinDone,
    FL!LockEnter, LockProofs!LockEnter, FL!Unlock, LockProofs!Unlock,
    FL!UnlockRequest, LockProofs!UnlockRequest, FL!UnlockMutex, LockProofs!UnlockMutex,
    FL!BeginRead, LockProofs!BeginRead, FL!EndRead, LockProofs!EndRead
<1> QED
  BY <1>1, LockStep

\* The pool drives the lock through no other steps than those of FastLock.tla,
\* from which its safety is proved.
THEOREM PoolUsesLock == Spec => LockProofs!Spec
<1>1. Init => LockProofs!Init
  BY DEF Init, FL!Init, LockProofs!Init
<1> QED
  BY <1>1, SameLock, PTL DEF Spec, LockProofs!Spec

\* So the counters of the lock are exact, and nobody's request outlives its section.
LEMMA LockSafe ==
  Spec => [](LockProofs!TypeOK /\ LockProofs!CountersExact /\ LockProofs!RequestFollowsOwner)
<1>1. LockProofs!ThreadsAssumption
  BY PoolThreads DEF LockProofs!ThreadsAssumption, IsFiniteSet, LockProofs!IsFiniteSet
<1>2. LockProofs!Spec => []LockProofs!TypeOK
  BY <1>1, LockProofs!TypeCorrect, PTL
<1>3. LockProofs!Spec => []LockProofs!CountersExact
  BY <1>1, LockProofs!CountersCorrect, PTL
<1>4. LockProofs!Spec => []LockProofs!RequestFollowsOwner
  BY <1>1, LockProofs!RequestFollowsOwnerCorrect, PTL
<1> QED
  BY <1>2, <1>3, <1>4, PoolUsesLock, PTL

\* No forced insertion, no double_list and no half_list of the pool overlaps
\* another operation's section, for any number of threads and any batches.
THEOREM PoolExcludes == Spec => []LockProofs!MutualExclusion
<1>1. LockProofs!ThreadsAssumption
  BY PoolThreads DEF LockProofs!ThreadsAssumption, IsFiniteSet, LockProofs!IsFiniteSet
<1>2. LockProofs!Spec => []LockProofs!MutualExclusion
  BY <1>1, LockProofs!MutualExclusionCorrect, PTL
<1> QED
  BY <1>2, PoolUsesLock, PTL

----------------------------------------------------------------------------
\* A thread moves nobody else through the lock.
LEMMA MovesAlone ==
  ASSUME pc = [t \in Threads |-> pc[t]], NEW t \in Threads, FL!Step(t)
  PROVE  \A u \in Threads \ {t} : pc'[u] = pc[u]
<1>1. CASE FL!SharedCall(t)
  BY <1>1 DEF FL!SharedCall, FL!Goto, FL!PassOrPark, FL!LockShared, FL!UnlockShared,
              FL!SharedArrive, FL!SharedAcquire, FL!SharedDepart, FL!SharedDrop
<1>2. CASE FL!ExclusiveCall(t)
  BY <1>2 DEF FL!ExclusiveCall, FL!Goto, FL!LockArrive, FL!LockAcquire, FL!LockRequest,
              FL!Spin, FL!SpinLoad, FL!SpinAgain, FL!SpinDone, FL!LockEnter,
              FL!Unlock, FL!UnlockRequest, FL!UnlockMutex
<1>3. CASE ~FL!SharedCall(t) /\ ~FL!ExclusiveCall(t)
  BY <1>3 DEF FL!Step, FL!RegisterThread, FL!UnregisterThread, FL!BeginRead,
              FL!EndRead, FL!Goto
<1> QED
  BY <1>1, <1>2, <1>3

\* Inside an operation a thread stays registered.
LEMMA StaysRegistered ==
  ASSUME LockProofs!TypeOK, NEW t \in Threads,
         FL!SharedCall(t) \/ FL!ExclusiveCall(t) \/ FL!BeginRead(t) \/ FL!EndRead(t)
  PROVE  pc'[t] # "out"
<1>1. t \in DOMAIN pc /\ after[t] # "out"
  BY DEF LockProofs!TypeOK
<1>2. CASE FL!SharedCall(t)
  BY <1>1, <1>2
     DEF FL!SharedCall, FL!Goto, FL!PassOrPark, FL!LockShared, FL!UnlockShared,
         FL!SharedArrive, FL!SharedAcquire, FL!SharedDepart, FL!SharedDrop
<1>3. CASE FL!ExclusiveCall(t)
  BY <1>1, <1>3
     DEF FL!ExclusiveCall, FL!Goto, FL!LockArrive, FL!LockAcquire, FL!LockRequest,
         FL!Spin, FL!SpinLoad, FL!SpinAgain, FL!SpinDone, FL!LockEnter,
         FL!Unlock, FL!UnlockRequest, FL!UnlockMutex
<1>4. CASE FL!BeginRead(t) \/ FL!EndRead(t)
  BY <1>1, <1>4 DEF FL!BeginRead, FL!EndRead, FL!Goto
<1> QED
  BY <1>2, <1>3, <1>4

\* The main thread keeps PoolInv: it submits only when every thread is off, and
\* leaves stop() only after all of them have ended.
LEMMA MainKeeps == PoolInv /\ Main => PoolInv'
<1> SUFFICES ASSUME PoolInv, Main PROVE PoolInv'
  OBVIOUS
<1> USE PoolAssumption DEF PoolInv, QuietInv, JoinInv, Places, Threads, lockvars
<1>1. CASE Submit
  BY <1>1 DEF Submit
<1>2. CASE Spawn
  BY <1>2 DEF Spawn
<1>3. CASE Stop
  BY <1>3 DEF Stop
<1>4. CASE Join
  <2>1. CASE next < NumThreads
    <3>1. next \in Threads /\ place[next] = "ended" /\ main' = "join" /\ next' = next + 1
      BY <1>4, <2>1 DEF Join
    <3>2. place' = [place EXCEPT ![next] = "off"] /\ tasks' = tasks /\ pc' = pc
      BY <1>4, <2>1 DEF Join
    <3>3. \A t \in Threads : t < next + 1 => t = next \/ t < next
      OBVIOUS
    <3>4. \A t \in Threads : t < next => place[t] = "off" /\ tasks[t] = <<>>
      BY <1>4 DEF Join
    <3>5. JoinInv'
      BY <3>1, <3>2, <3>3, <3>4
    <3>6. QuietInv'
      BY <3>1, <3>2
    <3> QED
      BY <3>1, <3>2, <3>5, <3>6
  <2>2. CASE ~(next < NumThreads)
    <3>1. \A t \in Threads : place[t] = "off" /\ tasks[t] = <<>>
      BY <1>4, <2>2 DEF Join
    <3> QED
      BY <1>4, <2>2, <3>1 DEF Join
  <2> QED
    BY <2>1, <2>2
<1> QED
  BY <1>1, <1>2, <1>3, <1>4 DEF Main

\* A worker keeps PoolInv: it is off or has ended only after it has unregistered.
LEMMA WorkKeeps ==
  ASSUME PoolInv, LockProofs!TypeOK, NEW t \in Threads, Work(t)
  PROVE  PoolInv'
<1> USE DEF PoolInv, QuietInv, JoinInv, Places, mainvars, lockvars
<1>0. pc = [u \in Threads |-> pc[u]]
  BY DEF LockProofs!TypeOK
<1>1. CASE Take(t)
  BY <1>1 DEF Take
<1>2. CASE Register(t)
  <2>1. \A u \in Threads \ {t} : pc'[u] = pc[u]
    BY <1>0, <1>2, MovesAlone DEF Register, FL!Step
  <2> QED
    BY <1>0, <1>2, <2>1 DEF Register, FL!RegisterThread, FL!Goto
<1>3. CASE SharedSection(t) \/ ExclusiveSection(t) \/ Read(t)
  <2>1. \A u \in Threads \ {t} : pc'[u] = pc[u]
    BY <1>0, <1>3, MovesAlone DEF SharedSection, ExclusiveSection, Read, FL!Step
  <2>2. place[t] = "run" /\ Advance(t)
    BY <1>3 DEF SharedSection, ExclusiveSection, Read
  <2>3. pc'[t] # "out"
    BY <1>0, <1>3, StaysRegistered DEF SharedSection, ExclusiveSection, Read
  <2> QED
    BY <2>1, <2>2, <2>3 DEF Advance
<1>4. CASE Rest(t)
  <2>1. \A u \in Threads \ {t} : pc'[u] = pc[u]
    BY <1>0, <1>4, MovesAlone DEF Rest, FL!Step
  <2> QED
    BY <1>4, <2>1 DEF Rest, workvars
<1>5. CASE Leave(t)
  <2>1. \A u \in Threads \ {t} : pc'[u] = pc[u]
    BY <1>0, <1>5, MovesAlone DEF Leave, FL!Step
  <2>2. pc'[t] = "out"
    BY <1>0, <1>5 DEF Leave, FL!UnregisterThread, FL!Goto
  <2> QED
    BY <1>5, <2>1, <2>2 DEF Leave
<1> QED
  BY <1>1, <1>2, <1>3, <1>4, <1>5 DEF Work

\* PoolInv is inductive, given the types of the lock's variables.
LEMMA PoolInvStep == PoolInv /\ LockProofs!TypeOK /\ [Next]_vars => PoolInv'
<1> SUFFICES ASSUME PoolInv, LockProofs!TypeOK, [Next]_vars PROVE PoolInv'
  OBVIOUS
<1>1. CASE Main
  BY <1>1, MainKeeps
<1>2. CASE \E t \in Threads : Work(t)
  BY <1>2, WorkKeeps DEF LockProofs!TypeOK
<1>3. CASE UNCHANGED vars
  BY <1>3 DEF vars, workvars, mainvars, lockvars, PoolInv, QuietInv, JoinInv
<1> QED
  BY <1>1, <1>2, <1>3 DEF Next

\* So PoolInv always holds.
LEMMA PoolInvCorrect == Spec => []PoolInv
<1>1. Init => PoolInv
  BY DEF Init, FL!Init, PoolInv, QuietInv, JoinInv, Places
<1> QED
  BY <1>1, LockSafe, PoolInvStep, PTL DEF Spec

\* However often a worker has rested, it is registered with the lock whenever it
\* runs an operation, so every writer waits for it.
THEOREM RunsRegisteredCorrect == Spec => []RunsRegistered
<1>1. PoolInv => RunsRegistered
  BY DEF PoolInv, QuietInv, RunsRegistered
<1> QED
  BY <1>1, PoolInvCorrect, PTL

\* For any number of threads and any batches, nothing of a batch is left when the
\* next one starts: no task in a queue, no registered thread, no request for the
\* lock, so its first writer waits for nobody of the batch before.
THEOREM QuietBetweenBatchesCorrect == Spec => []QuietBetweenBatches
<1>1. PoolInv /\ LockProofs!CountersExact /\ LockProofs!RequestFollowsOwner
        => QuietBetweenBatches
  <2> SUFFICES ASSUME PoolInv, LockProofs!CountersExact, LockProofs!RequestFollowsOwner,
                      main = "submit"
               PROVE  /\ \A t \in Threads : tasks[t] = <<>> /\ place[t] = "off" /\ pc[t] = "out"
                      /\ thread_counter = 0 /\ arrived_threads = 0 /\ ~lockRequested
    BY DEF QuietBetweenBatches
  <2>1. \A t \in Threads : tasks[t] = <<>> /\ place[t] = "off" /\ pc[t] = "out"
    BY DEF PoolInv, QuietInv
  <2>2. LockProofs!Registered = {} /\ LockProofs!Parked = {}
    BY <2>1 DEF LockProofs!Registered, LockProofs!Parked, LockProofs!Arrived
  <2>3. thread_counter = 0 /\ arrived_threads = 0
    <3>1. LockProofs!Cardinality({}) = 0
      BY LockProofs!FS_EmptySet DEF LockProofs!Cardinality, LockProofs!IsFiniteSet
    <3> QED
      BY <2>2, <3>1 DEF LockProofs!CountersExact
  <2>4. ~lockRequested
    BY <2>1 DEF LockProofs!RequestFollowsOwner
  <2> QED
    BY <2>1, <2>3, <2>4
<1> QED
  BY <1>1, LockSafe, PoolInvCorrect, PTL

----------------------------------------------------------------------------
(* Types.                                                                  *)

Items == Kinds \X Sources

\* The ways through the lock and what is left of them: an attempt that starts
\* again is followed by another, one that goes on alone by the exclusive section.
Marks == {"retry", "done", "escalate", "exclusive", "forced", "read"}

Way(s, kind) ==
  /\ s \in Seq(Marks)
  /\ \A i \in 1 .. Len(s) :
       /\ s[i] = "read" <=> kind = "read"
       /\ s[i] = "forced" => kind = "add"
       /\ s[i] = "retry" => i < Len(s) /\ s[i + 1] \in {"retry", "done", "escalate", "forced"}
       /\ s[i] = "escalate" => i < Len(s) /\ s[i + 1] = "exclusive"
       /\ s[i] \in {"done", "exclusive", "forced", "read"} => i = Len(s)

\* A thread has sections to pass exactly while it runs a task.
SectionsTyped ==
  /\ DOMAIN sections = Threads
  /\ \A t \in Threads :
       IF place[t] \in {"register", "run"}
       THEN task[t] \in Items /\ sections[t] # <<>> /\ Way(sections[t], task[t][1])
       ELSE sections[t] = <<>>

\* start() has yet to spawn the threads from next on, and the master.
SpawnInv ==
  main = "spawn" => \A t \in Threads : t >= next \/ t = 0 => place[t] = "off"

Typed ==
  /\ tasks \in [Threads -> Seq(Items)]
  /\ finished \in BOOLEAN
  /\ place \in [Threads -> Places]
  /\ task \in [Threads -> Items \cup {NoTask}]
  /\ num_neighbors \in [Sources -> 0 .. Width - 1]
  /\ main \in {"submit", "spawn", "execute", "join"}
  /\ batch \in 1 .. Len(Batches) + 1
  /\ main # "submit" => batch <= Len(Batches)
  /\ next \in 1 .. NumThreads + 1
  /\ main \in {"spawn", "join"} => next <= NumThreads
  /\ SectionsTyped /\ SpawnInv

\* The tasks of a batch name its sources.
LEMMA BatchTyped ==
  ASSUME NEW b \in 1 .. Len(Batches)
  PROVE  /\ Batches[b] \in Seq(Items) /\ Len(Batches[b]) \in Nat
         /\ \A i \in 1 .. Len(Batches[b]) : Batches[b][i] \in Items
<1>1. Batches \in Seq(Seq(Kinds \X Nat))
  BY PoolAssumption
<1>2. Batches[b] \in Seq(Kinds \X Nat) /\ b \in DOMAIN Batches
  BY <1>1
<1>3. Len(Batches[b]) \in Nat /\ DOMAIN Batches[b] = 1 .. Len(Batches[b])
  BY <1>2
<1>4. ASSUME NEW i \in 1 .. Len(Batches[b]) PROVE Batches[b][i] \in Items
  <2>1. Batches[b][i] \in Kinds \X Nat
    BY <1>2, <1>3
  <2>2. Batches[b][i][2] \in Sources
    BY <1>2, <1>3 DEF Sources
  <2> QED
    BY <2>1, <2>2 DEF Items
<1>5. Batches[b] = [i \in 1 .. Len(Batches[b]) |-> Batches[b][i]]
  BY <1>2, <1>3
<1>6. Batches[b] \in Seq(Items)
  BY <1>3, <1>4, <1>5
<1> QED
  BY <1>3, <1>4, <1>6

\* Task number i of a batch goes to thread i % NumThreads: the share of t.
LEMMA ShareFound ==
  ASSUME NEW b \in Seq(Items), NEW t \in Threads
  PROVE  LET n == (Len(b) - t + NumThreads - 1) \div NumThreads
         IN  /\ n \in Nat /\ Len(Share(b, t)) = n /\ Share(b, t) \in Seq(Items)
             /\ \A k \in 1 .. n : /\ t + 1 + (k - 1) * NumThreads \in 1 .. Len(b)
                                  /\ Share(b, t)[k] = b[t + 1 + (k - 1) * NumThreads]
<1> DEFINE N == NumThreads
           m == Len(b) - t + N - 1
           n == m \div N
<1>1. N \in Nat \ {0} /\ t \in 0 .. N - 1 /\ Len(b) \in Nat
  BY PoolAssumption DEF Threads
<1>2. m \in Nat
  BY <1>1
<1>3. n \in Nat /\ n * N <= m
  BY <1>1, <1>2, Division
<1>4. ASSUME NEW k \in 1 .. n PROVE t + 1 + (k - 1) * N \in 1 .. Len(b)
  <2>1. \A x, y, z \in Nat : x <= y => x * z <= y * z
    <3> SUFFICES ASSUME NEW x \in Nat, NEW y \in Nat, NEW z \in Nat, x <= y
                 PROVE  x * z <= y * z
      OBVIOUS
    <3>1. PICK d \in Nat : y = x + d
      BY y - x \in Nat
    <3>2. y * z = x * z + d * z /\ d * z \in Nat /\ x * z \in Nat
      BY <3>1
    <3> QED
      BY <3>2
  <2>2. k * N <= n * N /\ k * N = (k - 1) * N + N /\ (k - 1) * N \in Nat /\ n * N \in Nat
    <3>1. k \in Nat /\ k - 1 \in Nat /\ k <= n
      BY <1>3
    <3>2. \A x \in Nat : x * N \in Nat /\ (x + 1) * N = x * N + N
      BY <1>1
    <3>3. k = (k - 1) + 1
      BY <3>1
    <3>4. k * N = (k - 1) * N + N
      BY <3>1, <3>2, <3>3
    <3> QED
      BY <1>1, <1>3, <2>1, <3>1, <3>2, <3>4
  <2> QED
    BY <1>1, <1>3, <2>2
<1>5. Share(b, t) = [k \in 1 .. n |-> b[t + 1 + (k - 1) * N]]
  BY DEF Share
<1>6. \A k \in 1 .. n : Share(b, t)[k] = b[t + 1 + (k - 1) * N] /\ Share(b, t)[k] \in Items
  BY <1>4, <1>5
<1> HIDE DEF n
<1>7. Share(b, t) \in Seq(Items)
  BY <1>3, <1>5, <1>6
<1>8. Len(Share(b, t)) = n
  BY <1>3, <1>5, <1>7
<1> QED
  BY <1>3, <1>4, <1>6, <1>7, <1>8 DEF n

\* The ways of an operation are of that form and begin in the shared section, unless
\* the insertion is forced ...
LEMMA WaysFound ==
  ASSUME NEW kind \in Kinds, NEW w \in Ways(kind)
  PROVE  w # <<>> /\ Way(w, kind) /\ w[1] # "exclusive"
<1>1. ASSUME NEW k \in Nat, NEW rest \in Seq(Marks), Way(rest, kind), rest # <<>>,
             k = 0 \/ rest[1] \in {"done", "escalate", "forced"}, kind # "read" \/ k = 0,
             rest[1] # "exclusive"
      PROVE  After(k, rest) # <<>> /\ Way(After(k, rest), kind) /\ After(k, rest)[1] # "exclusive"
  <2> DEFINE retries == [i \in 1 .. k |-> "retry"]
             s == After(k, rest)
  <2>1. retries \in Seq(Marks) /\ Len(retries) = k
    BY DEF Marks
  <2>2. s = retries \o rest
    BY DEF After
  <2> HIDE DEF retries
  <2>3. Len(rest) \in Nat \ {0} /\ Len(s) = k + Len(rest) /\ s \in Seq(Marks)
    <3>1. Len(rest) \in Nat \ {0}
      BY <1>1
    <3>2. s \in Seq(Marks)
      BY <2>1, <2>2
    <3>3. Len(s) = k + Len(rest)
      BY <2>1, <2>2
    <3> QED
      BY <3>1, <3>2, <3>3
  <2>4. \A i \in 1 .. Len(s) : s[i] = IF i <= k THEN retries[i] ELSE rest[i - k]
    BY <2>1, <2>2, <2>3
  <2>5. \A i \in 1 .. k : retries[i] = "retry"
    BY DEF retries
  <2> HIDE DEF s
  <2>6. \A i \in 1 .. Len(rest) :
          /\ rest[i] = "read" <=> kind = "read"
          /\ rest[i] = "forced" => kind = "add"
          /\ rest[i] = "retry" => i < Len(rest) /\ rest[i + 1] \in {"retry", "done", "escalate", "forced"}
          /\ rest[i] = "escalate" => i < Len(rest) /\ rest[i + 1] = "exclusive"
          /\ rest[i] \in {"done", "exclusive", "forced", "read"} => i = Len(rest)
    BY <1>1 DEF Way
  <2>7. ASSUME NEW i \in 1 .. Len(s)
        PROVE  /\ s[i] = "read" <=> kind = "read"
               /\ s[i] = "forced" => kind = "add"
               /\ s[i] = "retry" => i < Len(s) /\ s[i + 1] \in {"retry", "done", "escalate", "forced"}
               /\ s[i] = "escalate" => i < Len(s) /\ s[i + 1] = "exclusive"
               /\ s[i] \in {"done", "exclusive", "forced", "read"} => i = Len(s)
    <3>1. CASE i > k
      <4>1. i - k \in 1 .. Len(rest) /\ s[i] = rest[i - k] /\ ~(i <= k)
        BY <2>3, <2>4, <3>1
      <4>2. i - k < Len(rest) => i < Len(s) /\ s[i + 1] = rest[(i - k) + 1]
        <5> SUFFICES ASSUME i - k < Len(rest) PROVE i < Len(s) /\ s[i + 1] = rest[(i - k) + 1]
          OBVIOUS
        <5>1. i + 1 \in 1 .. Len(s) /\ ~(i + 1 <= k) /\ (i + 1) - k = (i - k) + 1
          BY <2>3, <3>1
        <5> QED
          BY <2>3, <2>4, <5>1
      <4>3. i - k = Len(rest) => i = Len(s)
        BY <2>3
      <4> QED
        BY <2>6, <4>1, <4>2, <4>3
    <3>2. CASE i = k
      <4>1. s[i] = "retry" /\ i < Len(s) /\ s[i + 1] = rest[1] /\ kind # "read"
        <5>1. i \in 1 .. k /\ i + 1 \in 1 .. Len(s) /\ ~(i + 1 <= k) /\ (i + 1) - k = 1
          BY <2>3, <3>2
        <5> QED
          BY <1>1, <2>3, <2>4, <2>5, <3>2, <5>1
      <4>2. rest[1] \in {"done", "escalate", "forced"}
        BY <1>1, <3>2, <2>3
      <4> QED
        BY <4>1, <4>2
    <3>3. CASE i < k
      <4>1. i \in 1 .. k /\ i + 1 \in 1 .. k /\ i + 1 \in 1 .. Len(s) /\ i < Len(s) /\ kind # "read"
        BY <1>1, <2>3, <3>3
      <4>2. s[i] = "retry" /\ s[i + 1] = "retry"
        BY <2>4, <2>5, <4>1
      <4> QED
        BY <4>1, <4>2
    <3> QED
      BY <2>3, <3>1, <3>2, <3>3
  <2>8. s # <<>>
    BY <2>3
  <2>9. s[1] # "exclusive"
    <3>1. 1 \in 1 .. Len(s) /\ 1 - 0 = 1
      BY <2>3
    <3>2. CASE k = 0
      BY <1>1, <2>4, <3>1, <3>2
    <3>3. CASE k # 0
      <4>1. 1 <= k /\ 1 \in 1 .. k
        BY <3>3
      <4> QED
        BY <2>4, <2>5, <3>1, <4>1
    <3> QED
      BY <3>2, <3>3
  <2> QED
    BY <2>3, <2>7, <2>8, <2>9 DEF Way, s
<1>2. Retries \in Nat /\ Retries + 1 \in Nat
  BY PoolAssumption
<1>3. ASSUME NEW k \in 0 .. Retries, kind # "read"
      PROVE  /\ After(k, <<"done">>) # <<>> /\ Way(After(k, <<"done">>), kind)
             /\ After(k, <<"done">>)[1] # "exclusive"
             /\ After(k, <<"escalate", "exclusive">>) # <<>>
             /\ Way(After(k, <<"escalate", "exclusive">>), kind)
             /\ After(k, <<"escalate", "exclusive">>)[1] # "exclusive"
  <2>1. <<"done">> \in Seq(Marks) /\ Way(<<"done">>, kind)
    BY <1>3 DEF Way, Marks
  <2>2. <<"escalate", "exclusive">> \in Seq(Marks) /\ Way(<<"escalate", "exclusive">>, kind)
    BY <1>3 DEF Way, Marks
  <2>3. <<"done">> # <<>> /\ <<"done">>[1] = "done" /\ k \in Nat
        /\ <<"escalate", "exclusive">> # <<>> /\ <<"escalate", "exclusive">>[1] = "escalate"
    BY <1>2
  <2>4. PICK d, e : d = <<"done">> /\ e = <<"escalate", "exclusive">>
    OBVIOUS
  <2>5. After(k, d) # <<>> /\ Way(After(k, d), kind) /\ After(k, d)[1] # "exclusive"
    BY <1>1, <1>3, <2>1, <2>3, <2>4
  <2>6. After(k, e) # <<>> /\ Way(After(k, e), kind) /\ After(k, e)[1] # "exclusive"
    BY <1>1, <1>3, <2>2, <2>3, <2>4
  <2> QED
    BY <2>4, <2>5, <2>6
<1>4. CASE kind = "add"
  <2>1. <<"forced">> \in Seq(Marks) /\ Way(<<"forced">>, kind)
    BY <1>4 DEF Way, Marks
  <2>2. PICK f : f = <<"forced">>
    OBVIOUS
  <2>3. f \in Seq(Marks) /\ Way(f, kind) /\ f # <<>> /\ f[1] = "forced"
    BY <2>1, <2>2
  <2>4. /\ After(Retries + 1, f) # <<>> /\ Way(After(Retries + 1, f), kind)
        /\ After(Retries + 1, f)[1] # "exclusive"
    BY <1>1, <1>2, <1>4, <2>3
  <2> QED
    BY <1>3, <1>4, <2>2, <2>4 DEF Ways
<1>5. CASE kind = "delete"
  BY <1>3, <1>5 DEF Ways
<1>6. CASE kind = "read"
  <2>1. w = <<"read">>
    BY <1>6 DEF Ways
  <2>2. /\ <<"read">> \in Seq(Marks) /\ Way(<<"read">>, kind) /\ <<"read">> # <<>>
        /\ <<"read">>[1] # "exclusive"
    BY <1>6 DEF Way, Marks
  <2> QED
    BY <2>1, <2>2
<1> QED
  BY <1>4, <1>5, <1>6 DEF Kinds

\* ... and so is what is left of them.
LEMMA WayTail ==
  ASSUME NEW s, NEW kind, Way(s, kind), s # <<>>
  PROVE  /\ Len(s) \in Nat \ {0} /\ Head(s) = s[1] /\ s[1] \in Marks
         /\ Way(Tail(s), kind)
         /\ Tail(s) = <<>> <=> Len(s) = 1
         /\ Len(s) # 1 => Tail(s)[1] = s[2]
<1>1. s \in Seq(Marks)
  BY DEF Way
<1>2. /\ Len(s) \in Nat \ {0} /\ Head(s) = s[1] /\ s[1] \in Marks
      /\ Tail(s) \in Seq(Marks) /\ Len(Tail(s)) = Len(s) - 1
      /\ \A i \in 1 .. Len(s) - 1 : Tail(s)[i] = s[i + 1]
  BY <1>1
<1>3. PICK r : r = Tail(s)
  OBVIOUS
<1>4. ASSUME NEW i \in 1 .. Len(r)
      PROVE  /\ i + 1 \in 1 .. Len(s) /\ r[i] = s[i + 1]
             /\ i < Len(r) <=> i + 1 < Len(s)
             /\ i = Len(r) <=> i + 1 = Len(s)
             /\ i < Len(r) => r[i + 1] = s[(i + 1) + 1]
  BY <1>2, <1>3
<1>5. Way(r, kind)
  <2>1. \A i \in 1 .. Len(s) :
          /\ s[i] = "read" <=> kind = "read"
          /\ s[i] = "forced" => kind = "add"
          /\ s[i] = "retry" => i < Len(s) /\ s[i + 1] \in {"retry", "done", "escalate", "forced"}
          /\ s[i] = "escalate" => i < Len(s) /\ s[i + 1] = "exclusive"
          /\ s[i] \in {"done", "exclusive", "forced", "read"} => i = Len(s)
    BY DEF Way
  <2>2. ASSUME NEW i \in 1 .. Len(r)
        PROVE  /\ r[i] = "read" <=> kind = "read"
               /\ r[i] = "forced" => kind = "add"
               /\ r[i] = "retry" => i < Len(r) /\ r[i + 1] \in {"retry", "done", "escalate", "forced"}
               /\ r[i] = "escalate" => i < Len(r) /\ r[i + 1] = "exclusive"
               /\ r[i] \in {"done", "exclusive", "forced", "read"} => i = Len(r)
    BY <1>4, <2>1
  <2>3. r \in Seq(Marks)
    BY <1>2, <1>3
  <2> QED
    BY <2>2, <2>3 DEF Way
<1>6. Tail(s) = <<>> <=> Len(s) = 1
  <2>1. r \in Seq(Marks) /\ Len(r) = Len(s) - 1
    BY <1>2, <1>3
  <2>2. r = <<>> <=> Len(r) = 0
    BY <2>1
  <2> QED
    BY <1>2, <1>3, <2>1, <2>2
<1> QED
  BY <1>2, <1>3, <1>5, <1>6

\* The assignments of Init have their types.
LEMMA TypedInit == Init => Typed
<1> SUFFICES ASSUME Init PROVE Typed
  OBVIOUS
<1>1. NumThreads \in Nat \ {0} /\ Width \in Nat \ {0} /\ Len(Batches) \in Nat
  BY PoolAssumption
<1>2. tasks \in [Threads -> Seq(Items)]
  BY DEF Init
<1>3. SectionsTyped
  BY DEF Init, SectionsTyped
<1>4. /\ finished \in BOOLEAN /\ place \in [Threads -> Places]
      /\ task \in [Threads -> Items \cup {NoTask}]
      /\ num_neighbors \in [Sources -> 0 .. Width - 1]
  <2>1. finished = FALSE /\ place = [t \in Threads |-> "off"] /\ task = [t \in Threads |-> NoTask]
    BY DEF Init
  <2>2. num_neighbors = [s \in Sources |-> 0] /\ 0 \in 0 .. Width - 1
    BY <1>1 DEF Init
  <2>3. num_neighbors \in [Sources -> 0 .. Width - 1]
    BY <2>2
  <2> QED
    BY <2>1, <2>3 DEF Places
<1>5. /\ main = "submit" /\ batch \in 1 .. Len(Batches) + 1 /\ next \in 1 .. NumThreads + 1
  BY <1>1 DEF Init
<1> QED
  BY <1>2, <1>3, <1>4, <1>5 DEF Typed, SpawnInv

\* The main thread keeps them: it hands out tasks of the batch at hand, and spawns
\* threads that are off.
LEMMA TypedMain ==
  ASSUME Typed, PoolInv, Main
  PROVE  Typed'
<1>1. /\ NumThreads \in Nat \ {0} /\ Len(Batches) \in Nat
      /\ Threads = 0 .. NumThreads - 1
  BY PoolAssumption DEF Threads
<1>2. CASE Submit
  <2>1. batch \in 1 .. Len(Batches)
    BY <1>1, <1>2 DEF Submit, Typed
  <2>2. \A t \in Threads : tasks[t] \o Share(Batches[batch], t) \in Seq(Items)
    <3> SUFFICES ASSUME NEW t \in Threads
                 PROVE  tasks[t] \o Share(Batches[batch], t) \in Seq(Items)
      OBVIOUS
    <3>1. Share(Batches[batch], t) \in Seq(Items)
      BY <2>1, BatchTyped, ShareFound
    <3>2. tasks[t] \in Seq(Items)
      BY DEF Typed
    <3> QED
      BY <3>1, <3>2
  <2>3. tasks' \in [Threads -> Seq(Items)]
    BY <1>2, <2>2 DEF Submit
  <2>4. UNCHANGED <<place, task, sections, num_neighbors>>
    BY <1>2 DEF Submit
  <2>5. main' = "spawn" /\ next' = 1 /\ batch' = batch /\ finished' = FALSE
    BY <1>2 DEF Submit
  <2>6. SpawnInv'
    <3>1. \A t \in Threads : place[t] = "off"
      BY <1>2 DEF Submit, PoolInv, QuietInv
    <3> QED
      BY <2>4, <3>1 DEF SpawnInv
  <2>7. SectionsTyped'
    BY <2>4 DEF Typed, SectionsTyped
  <2>8. /\ finished' \in BOOLEAN /\ main' \in {"submit", "spawn", "execute", "join"}
        /\ batch' \in 1 .. Len(Batches) + 1 /\ batch' <= Len(Batches)
        /\ next' \in 1 .. NumThreads + 1 /\ next' <= NumThreads
    <3>1. batch' \in 1 .. Len(Batches) + 1 /\ batch' <= Len(Batches)
      BY <1>1, <2>1, <2>5
    <3>2. next' \in 1 .. NumThreads + 1 /\ next' <= NumThreads
      BY <1>1, <2>5
    <3> QED
      BY <2>5, <3>1, <3>2
  <2>9. /\ place' \in [Threads -> Places] /\ task' \in [Threads -> Items \cup {NoTask}]
        /\ num_neighbors' \in [Sources -> 0 .. Width - 1]
    BY <2>4 DEF Typed
  <2> QED
    BY <2>3, <2>6, <2>7, <2>8, <2>9 DEF Typed
<1>3. CASE Spawn
  <2>1. PICK u \in Threads : u = next % NumThreads
    <3>1. next \in Int /\ next % NumThreads \in 0 .. NumThreads - 1
      BY <1>1 DEF Typed
    <3> QED
      BY <1>1, <3>1
  <2>2. /\ place' = [place EXCEPT ![u] = "loop"] /\ next' = next + 1 /\ main = "spawn"
        /\ main' = IF next = NumThreads THEN "execute" ELSE "spawn"
        /\ UNCHANGED <<tasks, finished, task, sections, num_neighbors, batch>>
    BY <1>3, <2>1 DEF Spawn
  <2>3. next \in 1 .. NumThreads /\ batch \in 1 .. Len(Batches)
    BY <1>1, <2>2 DEF Typed
  <2>4. u = IF next = NumThreads THEN 0 ELSE next
    BY <1>1, <2>1, <2>3
  <2>5. place[u] = "off"
    BY <1>1, <2>2, <2>3, <2>4 DEF Typed, SpawnInv
  <2>6. \A t \in Threads : place'[t] = IF t = u THEN "loop" ELSE place[t]
    BY <2>2 DEF Typed
  <2>7. SectionsTyped'
    BY <2>2, <2>5, <2>6 DEF Typed, SectionsTyped
  <2>8. SpawnInv'
    BY <1>1, <2>2, <2>3, <2>4, <2>6 DEF Typed, SpawnInv
  <2>9. place' \in [Threads -> Places]
    BY <2>2 DEF Typed, Places
  <2> QED
    BY <1>1, <2>2, <2>3, <2>7, <2>8, <2>9 DEF Typed
<1>4. ASSUME NEW u \in Threads, place[u] = "ended", place' = [place EXCEPT ![u] = "off"],
             UNCHANGED <<sections, task>>
      PROVE  SectionsTyped' /\ place' \in [Threads -> Places]
  <2>1. \A t \in Threads : place'[t] = IF t = u THEN "off" ELSE place[t]
    BY <1>4 DEF Typed
  <2>2. place' \in [Threads -> Places]
    BY <1>4 DEF Typed, Places
  <2> QED
    BY <1>4, <2>1, <2>2 DEF Typed, SectionsTyped
<1>5. CASE Stop
  <2>1. 0 \in Threads /\ place[0] = "ended" /\ place' = [place EXCEPT ![0] = "off"]
        /\ UNCHANGED <<sections, task>>
    BY <1>1, <1>5 DEF Stop
  <2>2. SectionsTyped' /\ place' \in [Threads -> Places]
    BY <1>4, <2>1
  <2> QED
    BY <1>1, <1>5, <2>2 DEF Stop, Typed, SpawnInv
<1>6. CASE Join
  <2>1. CASE next < NumThreads
    <3>1. next \in Threads
      BY <1>1, <2>1 DEF Typed
    <3>2. place[next] = "ended" /\ place' = [place EXCEPT ![next] = "off"]
          /\ UNCHANGED <<sections, task>>
      BY <1>6, <2>1 DEF Join
    <3>3. SectionsTyped' /\ place' \in [Threads -> Places]
      BY <1>4, <3>1, <3>2
    <3> QED
      BY <1>1, <1>6, <2>1, <3>3 DEF Join, Typed, SpawnInv
  <2>2. CASE ~(next < NumThreads)
    <3>1. /\ main = "join" /\ main' = "submit" /\ batch' = batch + 1
          /\ UNCHANGED <<place, next, tasks, task, sections, num_neighbors, finished>>
      BY <1>6, <2>2 DEF Join
    <3>2. SectionsTyped'
      BY <3>1 DEF Typed, SectionsTyped
    <3> QED
      BY <1>1, <3>1, <3>2 DEF Typed, SpawnInv
  <2> QED
    BY <2>1, <2>2
<1> QED
  BY <1>2, <1>3, <1>5, <1>6 DEF Main

\* A worker keeps them.
LEMMA TypedWork ==
  ASSUME Typed, LockProofs!TypeOK, NEW t \in Threads, Work(t)
  PROVE  Typed'
<1>1. UNCHANGED mainvars
  BY DEF Work, Take, Register, SharedSection, ExclusiveSection, Read, Advance, Rest, Leave,
         mainvars, workvars
<1>2. /\ tasks \in [Threads -> Seq(Items)] /\ place \in [Threads -> Places]
      /\ task \in [Threads -> Items \cup {NoTask}]
      /\ num_neighbors \in [Sources -> 0 .. Width - 1]
      /\ SectionsTyped /\ SpawnInv /\ Width \in Nat \ {0}
  BY PoolAssumption DEF Typed
<1>3. ASSUME tasks' \in [Threads -> Seq(Items)], place' \in [Threads -> Places],
             task' \in [Threads -> Items \cup {NoTask}],
             num_neighbors' \in [Sources -> 0 .. Width - 1],
             SectionsTyped', \A u \in Threads : place[u] = "off" => place'[u] = "off"
      PROVE  Typed'
  BY <1>1, <1>3 DEF Typed, SpawnInv, mainvars
<1>4. CASE Take(t)
  <2>1. PICK k, q, way, to :
          /\ place[t] = "loop" /\ tasks[t] # <<>> /\ k = Head(tasks[t]) /\ q = Tail(tasks[t])
          /\ way \in Ways(k[1]) /\ to \in {"register", "run"}
          /\ task' = [task EXCEPT ![t] = k] /\ tasks' = [tasks EXCEPT ![t] = q]
          /\ sections' = [sections EXCEPT ![t] = way]
          /\ place' = [place EXCEPT ![t] = to] /\ UNCHANGED num_neighbors
    BY <1>4 DEF Take
  <2>2. k \in Items /\ q \in Seq(Items)
    BY <1>2, <2>1
  <2>3. way # <<>> /\ Way(way, k[1])
    BY <2>1, <2>2, WaysFound DEF Items
  <2>4. SectionsTyped'
    BY <1>2, <2>1, <2>2, <2>3 DEF SectionsTyped
  <2>5. /\ tasks' \in [Threads -> Seq(Items)] /\ place' \in [Threads -> Places]
        /\ task' \in [Threads -> Items \cup {NoTask}]
        /\ num_neighbors' \in [Sources -> 0 .. Width - 1]
        /\ \A u \in Threads : place[u] = "off" => place'[u] = "off"
    BY <1>2, <2>1, <2>2 DEF Places
  <2> QED
    BY <1>3, <2>4, <2>5
<1>5. ASSUME NEW to, place' = [place EXCEPT ![t] = to], UNCHANGED <<tasks, task, sections, num_neighbors>>,
             \/ place[t] = "register" /\ to = "run"
             \/ place[t] = "loop" /\ to \in {"loop", "ended"}
      PROVE  Typed'
  <2>1. SectionsTyped'
    BY <1>2, <1>5 DEF SectionsTyped
  <2>2. /\ place' \in [Threads -> Places]
        /\ \A u \in Threads : place[u] = "off" => place'[u] = "off"
    BY <1>2, <1>5 DEF Places
  <2> QED
    BY <1>2, <1>3, <1>5, <2>1, <2>2
<1>6. CASE Register(t)
  BY <1>5, <1>6 DEF Register
<1>7. CASE Rest(t)
  <2>1. place' = [place EXCEPT ![t] = "loop"] /\ place[t] = "loop"
        /\ UNCHANGED <<tasks, task, sections, num_neighbors>>
    BY <1>2, <1>7 DEF Rest, workvars
  <2> QED
    BY <1>5, <2>1
<1>8. CASE Leave(t)
  BY <1>5, <1>8 DEF Leave
<1>9. CASE SharedSection(t) \/ ExclusiveSection(t) \/ Read(t)
  <2>1. /\ place[t] = "run" /\ Advance(t)
        /\ (\E n : Count(t, n) /\ n \in Int) \/ UNCHANGED num_neighbors
    BY <1>2, <1>9 DEF SharedSection, ExclusiveSection, Read
  <2>2. task[t] \in Items /\ sections[t] # <<>> /\ Way(sections[t], task[t][1])
    BY <1>2, <2>1 DEF SectionsTyped
  <2>3. num_neighbors' \in [Sources -> 0 .. Width - 1]
    <3>1. CASE UNCHANGED num_neighbors
      BY <1>2, <3>1
    <3>2. ASSUME NEW n \in Int, Count(t, n) PROVE num_neighbors' \in [Sources -> 0 .. Width - 1]
      <4>1. task[t][2] \in Sources /\ num_neighbors[task[t][2]] \in Int
        BY <1>2, <2>2 DEF Items
      <4>2. \A x \in Int : x % Width \in 0 .. Width - 1
        BY <1>2
      <4>3. PICK m \in Int : num_neighbors' = [num_neighbors EXCEPT ![task[t][2]] = m % Width]
        <5>1. PICK by \in Int :
                num_neighbors' = [num_neighbors EXCEPT ![task[t][2]] = (@ + by) % Width]
          <6>1. n \in Int /\ Width - n \in Int
            BY <1>2
          <6> QED
            BY <3>2, <6>1 DEF Count
        <5>2. num_neighbors[task[t][2]] + by \in Int
          BY <4>1
        <5> QED
          BY <5>1, <5>2
      <4> QED
        BY <1>2, <4>1, <4>2, <4>3
    <3> QED
      BY <2>1, <3>1, <3>2
  <2>4. PICK rest : rest = Tail(sections[t])
    OBVIOUS
  <2>5. Way(rest, task[t][1]) /\ (rest = <<>> <=> Len(sections[t]) = 1)
    BY <2>2, <2>4, WayTail
  <2>6. /\ UNCHANGED <<tasks, task>>
        /\ \/ sections' = [sections EXCEPT ![t] = rest]
              /\ place' = [place EXCEPT ![t] = IF rest = <<>> THEN "loop" ELSE "run"]
           \/ sections' = [sections EXCEPT ![t] = sections[t]]
              /\ place' = [place EXCEPT ![t] = "run"]
    BY <2>1, <2>4, <2>5 DEF Advance
  <2>7. SectionsTyped'
    BY <1>2, <2>1, <2>2, <2>5, <2>6 DEF SectionsTyped
  <2>8. /\ place' \in [Threads -> Places]
        /\ \A u \in Threads : place[u] = "off" => place'[u] = "off"
    BY <1>2, <2>1, <2>6 DEF Places
  <2> QED
    BY <1>2, <1>3, <2>3, <2>6, <2>7, <2>8
<1> QED
  BY <1>4, <1>6, <1>7, <1>8, <1>9 DEF Work

\* So they always hold.
LEMMA TypedCorrect == Spec => []Typed
<1>1. Typed /\ PoolInv /\ LockProofs!TypeOK /\ [Next]_vars => Typed'
  <2> SUFFICES ASSUME Typed, PoolInv, LockProofs!TypeOK, [Next]_vars PROVE Typed'
    OBVIOUS
  <2>1. CASE Main
    BY <2>1, TypedMain
  <2>2. CASE \E t \in Threads : Work(t)
    BY <2>2, TypedWork
  <2>3. CASE UNCHANGED vars
    BY <2>3 DEF vars, workvars, mainvars, Typed, SectionsTyped, SpawnInv
  <2> QED
    BY <2>1, <2>2, <2>3 DEF Next
<1> QED
  BY <1>1, TypedInit, LockSafe, PoolInvCorrect, PTL DEF Spec

\* The types of the pool's variables, and that a thread has sections of the lock to
\* pass exactly while it works on a task.
THEOREM PoolTypeCorrect == Spec => []TypeOK
<1>1. Typed /\ LockProofs!TypeOK => TypeOK
  <2> SUFFICES ASSUME Typed, LockProofs!TypeOK PROVE TypeOK
    OBVIOUS
  <2>1. FL!TypeOK
    BY DEF FL!TypeOK, LockProofs!TypeOK, FL!PCs, LockProofs!PCs
  <2>2. \A t \in Threads : sections[t] # <<>> <=> place[t] \in {"register", "run"}
    BY DEF Typed, SectionsTyped
  <2> QED
    BY <2>1, <2>2 DEF TypeOK, Typed, Items, Places
<1> QED
  BY <1>1, TypedCorrect, LockSafe, PTL

----------------------------------------------------------------------------
(* Counting.                                                               *)

\* Task number i of the batch is the Turn(i)-th, from 0, that Worker(i) takes.
Turn(i) == (i - 1) \div NumThreads
Worker(i) == (i - 1) - Turn(i) * NumThreads

\* The tasks of the batch that t has taken from its queue
Taken(t) == Len(Share(Batches[batch], t)) - Len(tasks[t])

\* The operation that t runs is counted in num_neighbors: an attempt is from its way
\* into the shared section on, and one that starts again only inside; a forced
\* insertion is from its way into the exclusive section on.
Counted(t) ==
  LET head == Head(sections[t])
  IN  \/ head \in {"retry", "done", "escalate"} /\ pc[t] = "shared"
      \/ /\ head \in {"done", "escalate"}
         /\ pc[t] \in {"arrive", "park", "depart", "drop"} /\ after[t] = "idle"
      \/ head = "exclusive"
      \/ head = "forced" /\ pc[t] \in {"exclusive", "release"}

Open(t) == place[t] \in {"register", "run"} /\ ~Counted(t)

\* The tasks that num_neighbors has counted
Past(i) == /\ Turn(i) + 1 <= Taken(Worker(i))
           /\ Turn(i) + 1 = Taken(Worker(i)) => ~Open(Worker(i))

Ran(kind, s) ==
  {<<batch, i>> : i \in {j \in DOMAIN Batches[batch] :
                           Batches[batch][j] = <<kind, s>> /\ Past(j)}}

AllRan(kind, s) ==
  TasksBefore(batch, kind, s) \cup (IF main = "submit" THEN {} ELSE Ran(kind, s))

\* What is left in t's queue is the end of its share, before which comes t's task.
QueueLeft(t) ==
  /\ Taken(t) \in Nat
  /\ \A k \in 1 .. Len(tasks[t]) : tasks[t][k] = Share(Batches[batch], t)[Taken(t) + k]
  /\ place[t] \in {"register", "run"} =>
       Taken(t) >= 1 /\ task[t] = Share(Batches[batch], t)[Taken(t)]

CountsExact ==
  \A s \in Sources :
    num_neighbors[s] = (Cardinality(AllRan("add", s)) - Cardinality(AllRan("delete", s))) % Width

CountInv ==
  /\ \A t \in Threads : place[t] = "loop" => pc[t] \in {"idle", "out"}
  /\ main # "submit" => \A t \in Threads : QueueLeft(t)
  /\ CountsExact

\* The tasks of one more batch
LEMMA TasksNext ==
  ASSUME NEW n \in Nat \ {0}, NEW kind, NEW s
  PROVE  TasksBefore(n + 1, kind, s) = TasksBefore(n, kind, s) \cup
           {<<n, i>> : i \in {j \in DOMAIN Batches[n] : Batches[n][j] = <<kind, s>>}}
<1> DEFINE Of(k) == {<<k, i>> : i \in {j \in DOMAIN Batches[k] : Batches[k][j] = <<kind, s>>}}
<1>1. \A m \in Nat : TasksBefore(m, kind, s) = UNION {Of(k) : k \in 1 .. m - 1}
  BY DEF TasksBefore
<1>2. \A k \in Int : k \in 1 .. (n + 1) - 1 <=> k \in 1 .. n - 1 \/ k = n
  OBVIOUS
<1> HIDE DEF Of
<1>3. UNION {Of(k) : k \in 1 .. (n + 1) - 1} = (UNION {Of(k) : k \in 1 .. n - 1}) \cup Of(n)
  BY <1>2
<1> QED
  BY <1>1, <1>3, n + 1 \in Nat DEF Of

\* They are finitely many.
LEMMA TasksFinite ==
  ASSUME NEW n \in 1 .. Len(Batches) + 1, NEW kind, NEW s
  PROVE  IsFiniteSet(TasksBefore(n, kind, s))
<1> DEFINE T == {k \in 0 .. Len(Batches) : IsFiniteSet(TasksBefore(k + 1, kind, s))}
<1>1. Len(Batches) \in Nat
  BY PoolAssumption
<1>2. 0 \in T
  <2>1. TasksBefore(0 + 1, kind, s) = {}
    BY DEF TasksBefore
  <2> QED
    BY <1>1, <2>1, FS_EmptySet
<1>3. ASSUME NEW k \in 0 .. Len(Batches) - 1, k \in T PROVE k + 1 \in T
  <2> DEFINE b == k + 1
             W == {<<b, i>> : i \in {j \in DOMAIN Batches[b] : Batches[b][j] = <<kind, s>>}}
  <2>1. b \in 1 .. Len(Batches)
    BY <1>1
  <2>2. Batches[b] \in Seq(Items) /\ Len(Batches[b]) \in Nat
    BY <2>1, BatchTyped
  <2>3. DOMAIN Batches[b] = 1 .. Len(Batches[b])
    BY <2>2
  <2>4. IsFiniteSet({b} \X (1 .. Len(Batches[b])))
    <3>1. IsFiniteSet({b})
      BY FS_Singleton
    <3>2. IsFiniteSet(1 .. Len(Batches[b]))
      <4>1. PICK m \in Nat : m = Len(Batches[b])
        BY <2>2
      <4>2. IsFiniteSet(1 .. m)
        BY FS_Interval
      <4> QED
        BY <4>1, <4>2
    <3> QED
      BY <3>1, <3>2, FS_Product
  <2>5. W \subseteq {b} \X (1 .. Len(Batches[b]))
    BY <2>3
  <2>6. IsFiniteSet(W)
    BY <2>4, <2>5, FS_Subset
  <2>7. IsFiniteSet(TasksBefore(b, kind, s))
    BY <1>3
  <2>8. TasksBefore(b + 1, kind, s) = TasksBefore(b, kind, s) \cup W
    BY <2>1, TasksNext
  <2>9. IsFiniteSet(TasksBefore(b + 1, kind, s))
    <3> HIDE DEF W, b
    <3>1. IsFiniteSet(TasksBefore(b, kind, s) \cup W)
      BY <2>6, <2>7, FS_Union
    <3> QED
      BY <2>8, <3>1
  <2> QED
    BY <1>1, <2>9
<1> HIDE DEF T
<1>4. 0 .. Len(Batches) \subseteq T
  BY <1>1, <1>2, <1>3, InductionUpTo
<1>5. n - 1 \in 0 .. Len(Batches) /\ (n - 1) + 1 = n
  BY <1>1
<1> QED
  BY <1>4, <1>5 DEF T

\* Turn and Worker number the tasks as Share hands them out.
LEMMA Numbering ==
  ASSUME NEW b \in Seq(Items), NEW i \in 1 .. Len(b)
  PROVE  /\ Turn(i) \in Nat /\ Worker(i) \in Threads
         /\ i = Worker(i) + 1 + ((Turn(i) + 1) - 1) * NumThreads
         /\ Turn(i) + 1 \in 1 .. Len(Share(b, Worker(i)))
<1> DEFINE N == NumThreads
           q == Turn(i)
           t == Worker(i)
<1>1. N \in Nat \ {0} /\ i - 1 \in Nat /\ Len(b) \in Nat /\ (q + 1) - 1 = q
  <2>1. i - 1 \in Nat /\ NumThreads \in Nat \ {0}
    BY PoolAssumption
  <2>2. (i - 1) \div NumThreads \in Nat
    BY <2>1, Division
  <2>3. q \in Nat
    BY <2>2 DEF Turn
  <2> QED
    BY <2>1, <2>3
<1>2. q \in Nat /\ q * N <= i - 1 /\ i - 1 < q * N + N
  BY <1>1, Division DEF Turn
<1>3. q * N \in Nat /\ (q + 1) * N = q * N + N
  <2>1. \A x \in Nat : x * N \in Nat /\ (x + 1) * N = x * N + N
    BY <1>1
  <2> QED
    BY <1>2, <2>1
<1>4. t = (i - 1) - q * N
  BY DEF Worker
<1> HIDE DEF q, t
<1>5. t \in Threads /\ i = t + 1 + q * N
  BY <1>1, <1>2, <1>3, <1>4 DEF Threads
<1>6. Len(b) - t + N - 1 \in Nat /\ (q + 1) * N <= Len(b) - t + N - 1
  <2>1. t \in 0 .. N - 1
    BY <1>5 DEF Threads
  <2>2. i <= Len(b) /\ i \in Nat
    BY <1>1
  <2> QED
    BY <1>1, <1>3, <1>5, <2>1, <2>2
<1>7. q + 1 <= (Len(b) - t + N - 1) \div N
  <2>1. PICK m \in Nat : m = Len(b) - t + N - 1
    BY <1>6
  <2>2. (q + 1) * N <= m /\ q + 1 \in Nat
    BY <1>2, <1>6, <2>1
  <2>3. q + 1 <= m \div N
    BY <1>1, <2>2, Division
  <2> QED
    BY <2>1, <2>3
<1>8. Len(Share(b, t)) = (Len(b) - t + N - 1) \div N /\ Len(Share(b, t)) \in Nat
  BY <1>5, ShareFound
<1>9. q + 1 \in 1 .. Len(Share(b, t))
  BY <1>2, <1>7, <1>8
<1> QED
  BY <1>1, <1>2, <1>5, <1>9 DEF q, t

\* And back: the k-th task of t.
LEMMA Numbered ==
  ASSUME NEW b \in Seq(Items), NEW t \in Threads, NEW k \in 1 .. Len(Share(b, t))
  PROVE  LET i == t + 1 + (k - 1) * NumThreads
         IN  /\ i \in 1 .. Len(b) /\ Share(b, t)[k] = b[i]
             /\ Worker(i) = t /\ Turn(i) + 1 = k
<1> DEFINE N == NumThreads
           i == t + 1 + (k - 1) * N
<1>1. N \in Nat \ {0} /\ t \in 0 .. N - 1
  BY PoolAssumption DEF Threads
<1>2. i \in 1 .. Len(b) /\ Share(b, t)[k] = b[i] /\ Len(Share(b, t)) \in Nat
  BY ShareFound
<1>3. k - 1 \in Nat
  BY <1>2
<1>4. (k - 1) * N \in Nat
  BY <1>1, <1>3
<1>5. i - 1 = (k - 1) * N + t /\ i - 1 \in Nat
  BY <1>1, <1>4
<1> HIDE DEF i
<1>6. (k - 1) * N <= i - 1 /\ i - 1 < (k - 1) * N + N
  BY <1>1, <1>4, <1>5
<1>7. Turn(i) = k - 1
  BY <1>1, <1>3, <1>5, <1>6, Division DEF Turn
<1>8. Worker(i) = t
  BY <1>1, <1>4, <1>5, <1>7 DEF Worker
<1>9. Turn(i) + 1 = k
  BY <1>3, <1>7
<1> QED
  BY <1>2, <1>8, <1>9 DEF i

\* The counted tasks are finitely many.
LEMMA AllRanFinite ==
  ASSUME Typed, NEW kind, NEW s
  PROVE  IsFiniteSet(AllRan(kind, s))
<1>1. batch \in 1 .. Len(Batches) + 1 /\ Len(Batches) \in Nat
  BY PoolAssumption DEF Typed
<1>2. IsFiniteSet(TasksBefore(batch, kind, s))
  BY <1>1, TasksFinite
<1>3. CASE main = "submit"
  BY <1>2, <1>3 DEF AllRan
<1>4. CASE main # "submit"
  <2>1. batch + 1 \in 1 .. Len(Batches) + 1 /\ batch \in Nat \ {0}
    BY <1>1, <1>4 DEF Typed
  <2>2. IsFiniteSet(TasksBefore(batch + 1, kind, s))
    BY <2>1, TasksFinite
  <2>3. TasksBefore(batch + 1, kind, s) = TasksBefore(batch, kind, s) \cup
          {<<batch, i>> : i \in {j \in DOMAIN Batches[batch] : Batches[batch][j] = <<kind, s>>}}
    BY <2>1, TasksNext
  <2>4. AllRan(kind, s) \subseteq TasksBefore(batch + 1, kind, s)
    BY <2>3 DEF AllRan, Ran
  <2> QED
    BY <2>2, <2>4, FS_Subset
<1> QED
  BY <1>3, <1>4

\* When every share has been run, every task of the batch has.
LEMMA AllPast ==
  ASSUME Typed, main # "submit", NEW kind, NEW s,
         \A t \in Threads : tasks[t] = <<>> /\ place[t] = "off"
  PROVE  AllRan(kind, s) = TasksBefore(batch + 1, kind, s)
<1>1. batch \in 1 .. Len(Batches) /\ batch \in Nat \ {0}
  BY PoolAssumption DEF Typed
<1>2. Batches[batch] \in Seq(Items) /\ DOMAIN Batches[batch] = 1 .. Len(Batches[batch])
  <2>1. Batches[batch] \in Seq(Items)
    BY <1>1, BatchTyped
  <2> QED
    BY <2>1
<1>3. ASSUME NEW i \in DOMAIN Batches[batch] PROVE Past(i)
  <2>1. /\ Worker(i) \in Threads /\ Turn(i) \in Nat
        /\ Turn(i) + 1 \in 1 .. Len(Share(Batches[batch], Worker(i)))
    BY <1>2, <1>3, Numbering
  <2>2. tasks[Worker(i)] = <<>> /\ place[Worker(i)] = "off"
    BY <2>1
  <2>3. Taken(Worker(i)) = Len(Share(Batches[batch], Worker(i)))
    <3>1. Len(Share(Batches[batch], Worker(i))) \in Nat
      BY <1>2, <2>1, ShareFound
    <3> QED
      BY <2>2, <3>1 DEF Taken
  <2>4. ~Open(Worker(i))
    BY <2>2 DEF Open
  <2> QED
    BY <2>1, <2>3, <2>4 DEF Past
<1>4. Ran(kind, s) = {<<batch, i>> : i \in {j \in DOMAIN Batches[batch] : Batches[batch][j] = <<kind, s>>}}
  BY <1>3 DEF Ran
<1> QED
  BY <1>1, <1>4, TasksNext DEF AllRan

\* The task that t works on has a number in the batch, which is no other thread's.
LEMMA TaskNumbered ==
  ASSUME Typed, main # "submit", NEW t \in Threads, QueueLeft(t),
         place[t] \in {"register", "run"}
  PROVE  \E i \in DOMAIN Batches[batch] :
           /\ Batches[batch][i] = task[t] /\ Worker(i) = t /\ Turn(i) + 1 = Taken(t)
           /\ \A j \in DOMAIN Batches[batch] :
                Worker(j) = t /\ Turn(j) + 1 = Taken(t) => j = i
<1>1. batch \in 1 .. Len(Batches)
  BY PoolAssumption DEF Typed
<1>2. PICK b : b = Batches[batch]
  OBVIOUS
<1>3. b \in Seq(Items)
  BY <1>1, <1>2, BatchTyped
<1>4. DOMAIN b = 1 .. Len(b) /\ Len(b) \in Nat
  BY <1>3
<1>5. PICK k : k = Taken(t)
  OBVIOUS
<1>6. Len(Share(b, t)) \in Nat /\ Len(tasks[t]) \in Nat /\ k = Len(Share(b, t)) - Len(tasks[t])
  <2>1. tasks[t] \in Seq(Items)
    BY DEF Typed
  <2>2. Len(tasks[t]) \in Nat
    BY <2>1
  <2>3. Len(Share(b, t)) \in Nat
    BY <1>3, ShareFound
  <2> QED
    BY <1>2, <1>5, <2>2, <2>3 DEF Taken
<1>7. k \in 1 .. Len(Share(b, t)) /\ task[t] = Share(b, t)[k]
  <2>1. k \in Nat /\ k >= 1 /\ task[t] = Share(b, t)[k]
    BY <1>2, <1>5 DEF QueueLeft
  <2> QED
    BY <1>6, <2>1
<1>8. PICK i : i = t + 1 + (k - 1) * NumThreads
  OBVIOUS
<1>9. i \in 1 .. Len(b) /\ Share(b, t)[k] = b[i] /\ Worker(i) = t /\ Turn(i) + 1 = k
  BY <1>3, <1>7, <1>8, Numbered
<1>10. \A j \in DOMAIN b : Worker(j) = t /\ Turn(j) + 1 = k => j = i
  BY <1>3, <1>4, <1>8, Numbering
<1> QED
  BY <1>2, <1>4, <1>5, <1>7, <1>9, <1>10

\* Counting one more or one less, modulo Width.
LEMMA CountsModulo ==
  ASSUME NEW a \in Int, NEW d \in Int
  PROVE  /\ (((a - d) % Width) + 1) % Width = ((a + 1) - d) % Width
         /\ (((a - d) % Width) + 1) % Width = (a - (d - 1)) % Width
         /\ (((a - d) % Width) + (Width - 1)) % Width = ((a - 1) - d) % Width
         /\ (((a - d) % Width) + (Width - 1)) % Width = (a - (d + 1)) % Width
<1>1. Width \in Nat \ {0}
  BY PoolAssumption
<1>2. PICK x \in Int : x = a - d
  OBVIOUS
<1>3. PICK y \in Int : y = Width - 1
  BY <1>1
<1>4. PICK z \in Int : z = 0 - 1
  OBVIOUS
<1>5. ((x % Width) + 1) % Width = (x + 1) % Width
  <2>1. PICK o \in Int : o = 1
    OBVIOUS
  <2>2. ((x % Width) + o) % Width = (x + o) % Width
    BY <1>1, Modulus
  <2> QED
    BY <2>1, <2>2
<1>6. ((x % Width) + y) % Width = (x + y) % Width
  BY <1>1, Modulus
<1>7. ((x + Width) + z) % Width = (x + z) % Width
  BY <1>1, Modulus
<1>8. /\ x + 1 = (a + 1) - d /\ x + 1 = a - (d - 1)
      /\ (x + Width) + z = x + y
      /\ x + z = (a - 1) - d /\ x + z = a - (d + 1)
  BY <1>1, <1>2, <1>3, <1>4
<1> QED
  BY <1>2, <1>3, <1>5, <1>6, <1>7, <1>8

\* The steps of lock_shared and unlock_shared ...
LEMMA SharedMoves ==
  ASSUME LockProofs!TypeOK, NEW t \in Threads, FL!SharedCall(t)
  PROVE  \/ pc[t] = "idle" /\ pc'[t] = "shared"
         \/ pc[t] = "idle" /\ pc'[t] = "arrive" /\ after'[t] = "shared"
         \/ pc[t] = "shared" /\ pc'[t] = "idle"
         \/ pc[t] = "shared" /\ pc'[t] = "arrive" /\ after'[t] = "idle"
         \/ /\ pc[t] \in {"arrive", "park", "depart"} /\ pc'[t] \in {"park", "depart", "drop"}
            /\ after'[t] = after[t]
         \/ pc[t] = "drop" /\ pc'[t] = after[t] /\ after[t] \in {"shared", "idle"}
<1>1. t \in DOMAIN pc /\ t \in DOMAIN after /\ after[t] \in {"shared", "idle"}
  BY DEF LockProofs!TypeOK
<1>2. CASE FL!LockShared(t)
  BY <1>1, <1>2 DEF FL!LockShared, FL!PassOrPark
<1>3. CASE FL!UnlockShared(t)
  BY <1>1, <1>3 DEF FL!UnlockShared, FL!PassOrPark
<1>4. CASE FL!SharedArrive(t) \/ FL!SharedAcquire(t) \/ FL!SharedDepart(t)
  BY <1>1, <1>4 DEF FL!SharedArrive, FL!SharedAcquire, FL!SharedDepart, FL!Goto
<1>5. CASE FL!SharedDrop(t)
  BY <1>1, <1>5 DEF FL!SharedDrop, FL!Goto
<1> QED
  BY <1>2, <1>3, <1>4, <1>5 DEF FL!SharedCall

\* ... and of lock and unlock.
LEMMA ExclusiveMoves ==
  ASSUME LockProofs!TypeOK, NEW t \in Threads, FL!ExclusiveCall(t)
  PROVE  \/ /\ pc[t] \in {"idle", "lock", "flag", "spin", "test"}
            /\ pc'[t] \in {"lock", "flag", "spin", "test", "enter"}
         \/ pc[t] = "enter" /\ pc'[t] = "exclusive"
         \/ pc[t] = "exclusive" /\ pc'[t] = "release"
         \/ pc[t] = "release" /\ pc'[t] = "idle"
<1>1. t \in DOMAIN pc
  BY DEF LockProofs!TypeOK
<1>2. CASE FL!LockArrive(t) \/ FL!LockAcquire(t) \/ FL!LockRequest(t) \/ FL!Spin(t)
  BY <1>1, <1>2 DEF FL!LockArrive, FL!LockAcquire, FL!LockRequest, FL!Spin, FL!SpinLoad,
                    FL!SpinAgain, FL!SpinDone, FL!Goto
<1>3. CASE FL!LockEnter(t) \/ FL!Unlock(t)
  BY <1>1, <1>3 DEF FL!LockEnter, FL!Unlock, FL!UnlockRequest, FL!UnlockMutex, FL!Goto
<1> QED
  BY <1>2, <1>3 DEF FL!ExclusiveCall

\* What is left to pass after a step of a section, and where t is then.
LEMMA Advanced ==
  ASSUME Typed, NEW t \in Threads, place[t] = "run", Advance(t)
  PROVE  LET head == Head(sections[t])
             rest == Tail(sections[t])
         IN  /\ sections[t] # <<>> /\ Way(sections[t], task[t][1])
             /\ pc'[t] # "idle" => sections'[t] = sections[t] /\ place'[t] = "run"
             /\ pc'[t] = "idle" => /\ sections'[t] = rest
                                   /\ place'[t] = IF rest = <<>> THEN "loop" ELSE "run"
             /\ head \in Marks
             /\ head = "read" <=> task[t][1] = "read"
             /\ head = "retry" => rest # <<>> /\ Head(rest) \in {"retry", "done", "escalate", "forced"}
             /\ head = "escalate" => rest # <<>> /\ Head(rest) = "exclusive"
             /\ head \in {"done", "exclusive", "forced", "read"} => rest = <<>>
<1>1. sections[t] # <<>> /\ Way(sections[t], task[t][1])
  BY DEF Typed, SectionsTyped
<1>2. PICK s : s = sections[t]
  OBVIOUS
<1>3. PICK rest : rest = Tail(s)
  OBVIOUS
<1>4. /\ Len(s) \in Nat \ {0} /\ Head(s) = s[1] /\ s[1] \in Marks
      /\ rest = <<>> <=> Len(s) = 1
      /\ Len(s) # 1 => rest[1] = s[2]
      /\ Way(rest, task[t][1])
  BY <1>1, <1>2, <1>3, WayTail
<1>5. /\ s[1] = "read" <=> task[t][1] = "read"
      /\ s[1] = "retry" => 1 < Len(s) /\ s[2] \in {"retry", "done", "escalate", "forced"}
      /\ s[1] = "escalate" => 1 < Len(s) /\ s[2] = "exclusive"
      /\ s[1] \in {"done", "exclusive", "forced", "read"} => 1 = Len(s)
  <2>1. 1 \in 1 .. Len(s) /\ 1 + 1 = 2
    BY <1>4
  <2> QED
    BY <1>1, <1>2, <2>1 DEF Way
<1>6. rest # <<>> => Head(rest) = rest[1]
  <2>1. rest \in Seq(Marks)
    BY <1>4 DEF Way
  <2> QED
    BY <2>1
<1>7. /\ pc'[t] # "idle" => sections'[t] = s /\ place'[t] = "run"
      /\ pc'[t] = "idle" => /\ sections'[t] = rest
                            /\ place'[t] = IF rest = <<>> THEN "loop" ELSE "run"
  <2>1. t \in DOMAIN sections /\ t \in DOMAIN place
    BY DEF Typed, SectionsTyped
  <2> QED
    BY <1>2, <1>3, <1>4, <2>1 DEF Advance
<1> QED
  BY <1>1, <1>2, <1>3, <1>4, <1>5, <1>6, <1>7

\* A section counts t's operation at most once more than it takes it back: a step
\* changes num_neighbors exactly when it changes whether t is still to be counted.
LEMMA SectionCounts ==
  ASSUME Typed, LockProofs!TypeOK, NEW t \in Threads, SharedSection(t) \/ ExclusiveSection(t)
  PROVE  /\ task[t][1] # "read"
         /\ \/ (Open(t)' <=> Open(t)) /\ UNCHANGED num_neighbors
            \/ Open(t) /\ ~Open(t)' /\ Count(t, 1)
            \/ ~Open(t) /\ Open(t)' /\ Count(t, Width - 1)
<1>1. place[t] = "run" /\ Advance(t)
  BY DEF SharedSection, ExclusiveSection
<1>2. PICK head, rest : head = Head(sections[t]) /\ rest = Tail(sections[t])
  OBVIOUS
<1>3. /\ pc'[t] # "idle" => sections'[t] = sections[t] /\ place'[t] = "run"
      /\ pc'[t] = "idle" => /\ sections'[t] = rest
                            /\ place'[t] = IF rest = <<>> THEN "loop" ELSE "run"
      /\ head \in Marks
      /\ head = "read" <=> task[t][1] = "read"
      /\ head = "retry" => rest # <<>> /\ Head(rest) \in {"retry", "done", "escalate", "forced"}
      /\ head = "escalate" => rest # <<>> /\ Head(rest) = "exclusive"
      /\ head \in {"done", "exclusive", "forced", "read"} => rest = <<>>
  BY <1>1, <1>2, Advanced
<1>4. CASE SharedSection(t)
  <2>1. head \in {"retry", "done", "escalate"} /\ FL!SharedCall(t)
    BY <1>2, <1>4 DEF SharedSection
  <2>2. IF pc[t] # "shared" /\ pc'[t] = "shared" THEN Count(t, 1)
        ELSE IF pc[t] = "shared" /\ head = "retry" THEN Count(t, Width - 1)
        ELSE UNCHANGED num_neighbors
    BY <1>2, <1>4 DEF SharedSection
  <2>3. Open(t) <=> ~ (\/ pc[t] = "shared"
                       \/ /\ head # "retry" /\ pc[t] \in {"arrive", "park", "depart", "drop"}
                          /\ after[t] = "idle")
    BY <1>1, <1>2, <2>1 DEF Open, Counted
  <2>4. pc'[t] # "idle" =>
          (Open(t)' <=> ~ (\/ pc'[t] = "shared"
                           \/ /\ head # "retry" /\ pc'[t] \in {"arrive", "park", "depart", "drop"}
                              /\ after'[t] = "idle"))
    <3>1. SUFFICES ASSUME pc'[t] # "idle"
                   PROVE  Open(t)' <=> ~ (\/ pc'[t] = "shared"
                           \/ /\ head # "retry" /\ pc'[t] \in {"arrive", "park", "depart", "drop"}
                              /\ after'[t] = "idle")
      OBVIOUS
    <3>2. Head(sections'[t]) = head /\ place'[t] = "run"
      BY <1>2, <1>3, <3>1
    <3> QED
      BY <2>1, <3>2 DEF Open, Counted
  <2>5. pc'[t] = "idle" => (Open(t)' <=> head = "retry")
    <3>1. SUFFICES ASSUME pc'[t] = "idle" PROVE Open(t)' <=> head = "retry"
      OBVIOUS
    <3>2. sections'[t] = rest /\ place'[t] = IF rest = <<>> THEN "loop" ELSE "run"
      BY <1>3, <3>1
    <3>3. CASE head = "retry"
      BY <1>3, <3>1, <3>2, <3>3 DEF Open, Counted
    <3>4. CASE head = "done"
      BY <1>3, <3>2, <3>4 DEF Open
    <3>5. CASE head = "escalate"
      BY <1>3, <3>2, <3>5 DEF Open, Counted
    <3> QED
      BY <2>1, <3>3, <3>4, <3>5
  <2>6. /\ task[t][1] # "read"
    BY <1>3, <2>1
  <2>7. PICK p, q : p = pc[t] /\ q = pc'[t]
    OBVIOUS
  <2>8. \/ p = "idle" /\ q = "shared"
        \/ p = "idle" /\ q = "arrive" /\ after'[t] = "shared"
        \/ p = "shared" /\ q = "idle"
        \/ p = "shared" /\ q = "arrive" /\ after'[t] = "idle"
        \/ /\ p \in {"arrive", "park", "depart"} /\ q \in {"park", "depart", "drop"}
           /\ after'[t] = after[t]
        \/ p = "drop" /\ q = after[t] /\ after[t] \in {"shared", "idle"}
    BY <2>1, <2>7, SharedMoves
  <2> QED
    BY <2>1, <2>2, <2>3, <2>4, <2>5, <2>6, <2>7, <2>8
<1>5. CASE ExclusiveSection(t)
  <2>1. head \in {"exclusive", "forced"} /\ FL!ExclusiveCall(t)
    BY <1>2, <1>5 DEF ExclusiveSection
  <2>2. IF head = "forced" /\ pc[t] = "enter" THEN Count(t, 1) ELSE UNCHANGED num_neighbors
    BY <1>2, <1>5 DEF ExclusiveSection
  <2>3. Open(t) <=> head = "forced" /\ pc[t] \notin {"exclusive", "release"}
    BY <1>1, <1>2, <2>1 DEF Open, Counted
  <2>4. pc'[t] # "idle" =>
          (Open(t)' <=> head = "forced" /\ pc'[t] \notin {"exclusive", "release"})
    BY <1>2, <1>3, <2>1 DEF Open, Counted
  <2>5. pc'[t] = "idle" => ~Open(t)'
    BY <1>3, <2>1 DEF Open
  <2>6. task[t][1] # "read"
    BY <1>3, <2>1
  <2>7. PICK p, q : p = pc[t] /\ q = pc'[t]
    OBVIOUS
  <2>8. \/ /\ p \in {"idle", "lock", "flag", "spin", "test"}
           /\ q \in {"lock", "flag", "spin", "test", "enter"}
        \/ p = "enter" /\ q = "exclusive"
        \/ p = "exclusive" /\ q = "release"
        \/ p = "release" /\ q = "idle"
    BY <2>1, <2>7, ExclusiveMoves
  <2> QED
    BY <2>1, <2>2, <2>3, <2>4, <2>5, <2>6, <2>7, <2>8
<1> QED
  BY <1>4, <1>5

\* What a thread does leaves the others' place, task and queue alone.
LEMMA WorksAlone ==
  ASSUME Typed, LockProofs!TypeOK, NEW t \in Threads, Work(t)
  PROVE  /\ UNCHANGED <<main, batch>>
         /\ \A u \in Threads \ {t} :
              /\ tasks'[u] = tasks[u] /\ task'[u] = task[u] /\ sections'[u] = sections[u]
              /\ place'[u] = place[u] /\ pc'[u] = pc[u] /\ after'[u] = after[u]
<1>1. UNCHANGED <<main, batch>>
  BY DEF Work, Take, Register, SharedSection, ExclusiveSection, Read, Rest, Leave, Advance,
         mainvars
<1>2. ASSUME NEW u \in Threads \ {t}
      PROVE  tasks'[u] = tasks[u] /\ task'[u] = task[u] /\ sections'[u] = sections[u]
             /\ place'[u] = place[u]
  <2>1. /\ u \in DOMAIN tasks /\ u \in DOMAIN task /\ u \in DOMAIN sections /\ u \in DOMAIN place
        /\ u # t
    BY DEF Typed, SectionsTyped
  <2>2. CASE Take(t)
    BY <2>1, <2>2 DEF Take
  <2>3. CASE Register(t) \/ Rest(t) \/ Leave(t)
    BY <2>1, <2>3 DEF Register, Rest, Leave, workvars
  <2>4. CASE SharedSection(t) \/ ExclusiveSection(t) \/ Read(t)
    BY <2>1, <2>4 DEF SharedSection, ExclusiveSection, Read, Advance
  <2> QED
    BY <2>2, <2>3, <2>4 DEF Work
<1>3. (FL!Step(t) \/ UNCHANGED <<pc, after>>)
  BY DEF Work, Take, Register, SharedSection, ExclusiveSection, Read, Rest, Leave, lockvars, FL!Step
<1>4. pc = [u \in Threads |-> pc[u]] /\ after = [u \in Threads |-> after[u]]
  BY DEF LockProofs!TypeOK
<1>5. \A u \in Threads \ {t} : pc'[u] = pc[u]
  BY <1>3, <1>4, MovesAlone
<1>6. \A u \in Threads \ {t} : after'[u] = after[u]
  <2>1. CASE UNCHANGED after
    BY <2>1
  <2>2. CASE FL!SharedCall(t)
    BY <1>4, <2>2 DEF FL!SharedCall, FL!Goto, FL!PassOrPark, FL!LockShared, FL!UnlockShared,
                FL!SharedArrive, FL!SharedAcquire, FL!SharedDepart, FL!SharedDrop
  <2>3. CASE FL!Step(t) /\ ~FL!SharedCall(t)
    BY <2>3 DEF FL!Step, FL!ExclusiveCall, FL!LockArrive, FL!LockAcquire, FL!LockRequest,
                FL!Spin, FL!SpinLoad, FL!SpinAgain, FL!SpinDone, FL!LockEnter,
                FL!Unlock, FL!UnlockRequest, FL!UnlockMutex,
                FL!RegisterThread, FL!UnregisterThread, FL!BeginRead, FL!EndRead
  <2> QED
    BY <1>3, <2>1, <2>2, <2>3
<1> QED
  BY <1>1, <1>2, <1>5, <1>6

\* So their part of the count stays.
LEMMA OthersPast ==
  ASSUME Typed, LockProofs!TypeOK, main # "submit", NEW t \in Threads, Work(t)
  PROVE  /\ \A u \in Threads \ {t} : QueueLeft(u) => QueueLeft(u)'
         /\ \A i \in DOMAIN Batches[batch] : Worker(i) # t => (Past(i)' <=> Past(i))
<1>1. /\ UNCHANGED <<main, batch>>
      /\ \A u \in Threads \ {t} :
              /\ tasks'[u] = tasks[u] /\ task'[u] = task[u] /\ sections'[u] = sections[u]
              /\ place'[u] = place[u] /\ pc'[u] = pc[u] /\ after'[u] = after[u]
  BY WorksAlone
<1>2. \A u \in Threads \ {t} : Taken(u)' = Taken(u) /\ (Open(u)' <=> Open(u))
  BY <1>1 DEF Taken, Open, Counted
<1>3. \A u \in Threads \ {t} : QueueLeft(u) => QueueLeft(u)'
  BY <1>1, <1>2 DEF QueueLeft
<1>4. ASSUME NEW i \in DOMAIN Batches[batch], Worker(i) # t PROVE Past(i)' <=> Past(i)
  <2>1. Worker(i) \in Threads \ {t}
    <3>1. batch \in 1 .. Len(Batches)
      BY PoolAssumption DEF Typed
    <3>2. PICK b : b = Batches[batch]
      OBVIOUS
    <3>3. b \in Seq(Items)
      BY <3>1, <3>2, BatchTyped
    <3>4. DOMAIN b = 1 .. Len(b)
      BY <3>3
    <3> QED
      BY <1>4, <3>2, <3>3, <3>4, Numbering
  <2>2. Turn(i)' = Turn(i) /\ Worker(i)' = Worker(i)
    BY DEF Turn, Worker
  <2> QED
    BY <1>2, <2>1, <2>2 DEF Past
<1> QED
  BY <1>3, <1>4

\* Nothing changes for num_neighbors unless t's task becomes counted or open again.
LEMMA RanKept ==
  ASSUME UNCHANGED <<main, batch>>, NEW kind, NEW s,
         \A i \in DOMAIN Batches[batch] : Batches[batch][i] = <<kind, s>> => (Past(i)' <=> Past(i))
  PROVE  AllRan(kind, s)' = AllRan(kind, s)
<1>1. Ran(kind, s)' = Ran(kind, s)
  BY DEF Ran
<1> QED
  BY <1>1 DEF AllRan, TasksBefore

\* t's own part of the count while it takes no task.
LEMMA OwnPast ==
  ASSUME UNCHANGED batch, NEW t, tasks'[t] = tasks[t], Taken(t) \in Nat, NEW i, Worker(i) = t
  PROVE  /\ (Open(t)' <=> Open(t)) => (Past(i)' <=> Past(i))
         /\ Turn(i) + 1 # Taken(t) => (Past(i)' <=> Past(i))
         /\ Turn(i) + 1 = Taken(t) =>
              (Past(i) <=> ~Open(t)) /\ (Past(i)' <=> ~Open(t)')
<1>1. Turn(i)' = Turn(i) /\ Worker(i)' = t /\ Taken(t)' = Taken(t)
  BY DEF Turn, Worker, Taken
<1> QED
  BY <1>1 DEF Past

\* When t's operation becomes counted, its task joins those that are counted, and no
\* other set of them changes; when it becomes open again, the task leaves them.
LEMMA TaskCounts ==
  ASSUME Typed, LockProofs!TypeOK, main # "submit", NEW t \in Threads, Work(t), QueueLeft(t),
         place[t] = "run", tasks'[t] = tasks[t], NEW kind \in Kinds, NEW s \in Sources,
         task[t] = <<kind, s>>, ~(Open(t)' <=> Open(t))
  PROVE  /\ \A k \in Kinds, r \in Sources :
              <<k, r>> # <<kind, s>> => AllRan(k, r)' = AllRan(k, r)
         /\ Open(t) => /\ Cardinality(AllRan(kind, s)') = Cardinality(AllRan(kind, s)) + 1
         /\ Open(t)' => /\ Cardinality(AllRan(kind, s)') = Cardinality(AllRan(kind, s)) - 1
<1>1. UNCHANGED <<main, batch>> /\ Taken(t) \in Nat
  BY WorksAlone DEF QueueLeft
<1>2. \A j \in DOMAIN Batches[batch] : Worker(j) # t => (Past(j)' <=> Past(j))
  BY OthersPast
<1>3. PICK i \in DOMAIN Batches[batch] :
           /\ Batches[batch][i] = task[t] /\ Worker(i) = t /\ Turn(i) + 1 = Taken(t)
           /\ \A j \in DOMAIN Batches[batch] :
                Worker(j) = t /\ Turn(j) + 1 = Taken(t) => j = i
  BY TaskNumbered
<1>4. (Past(i) <=> ~Open(t)) /\ (Past(i)' <=> ~Open(t)')
  BY <1>1, <1>3, OwnPast
<1>5. \A j \in DOMAIN Batches[batch] : j # i => (Past(j)' <=> Past(j))
  <2> SUFFICES ASSUME NEW j \in DOMAIN Batches[batch], j # i PROVE Past(j)' <=> Past(j)
    OBVIOUS
  <2>1. CASE Worker(j) # t
    BY <1>2, <2>1
  <2>2. CASE Worker(j) = t
    <3>1. Turn(j) + 1 # Taken(t)
      BY <1>3, <2>2
    <3> QED
      BY <1>1, <2>2, <3>1, OwnPast
  <2> QED
    BY <2>1, <2>2
<1>6. \A k \in Kinds, r \in Sources : <<k, r>> # <<kind, s>> => AllRan(k, r)' = AllRan(k, r)
  <2> SUFFICES ASSUME NEW k \in Kinds, NEW r \in Sources, <<k, r>> # <<kind, s>>
               PROVE  AllRan(k, r)' = AllRan(k, r)
    OBVIOUS
  <2>1. \A j \in DOMAIN Batches[batch] : Batches[batch][j] = <<k, r>> => (Past(j)' <=> Past(j))
    BY <1>3, <1>5
  <2> QED
    BY <1>1, <2>1, RanKept
<1>7. PICK id : id = <<batch, i>>
  OBVIOUS
<1>8. PICK old, new, before : /\ old = Ran(kind, s) /\ new = Ran(kind, s)'
                              /\ before = TasksBefore(batch, kind, s)
  OBVIOUS
<1>9. AllRan(kind, s) = before \cup old /\ AllRan(kind, s)' = before \cup new
  BY <1>1, <1>8 DEF AllRan, TasksBefore
<1>10. id \notin before
  <2>1. batch \in Nat
    BY DEF Typed
  <2>2. batch \notin 1 .. batch - 1
    BY <2>1
  <2> QED
    BY <1>7, <1>8, <2>2 DEF TasksBefore
<1>11. (id \in old <=> ~Open(t)) /\ (id \in new <=> ~Open(t)')
  BY <1>1, <1>3, <1>4, <1>7, <1>8 DEF Ran
<1>12. \A x : x # id => (x \in new <=> x \in old)
  BY <1>1, <1>5, <1>7, <1>8 DEF Ran
<1>13. IsFiniteSet(before \cup old)
  BY <1>9, AllRanFinite
<1>14. ASSUME Open(t) PROVE Cardinality(before \cup new) = Cardinality(before \cup old) + 1
  <2>1. ~Open(t)'
    BY <1>14
  <2>2. id \notin before \cup old /\ before \cup new = (before \cup old) \cup {id}
    BY <1>10, <1>11, <1>12, <1>14, <2>1
  <2> QED
    BY <1>13, <2>2, FS_AddElement
<1>15. ASSUME Open(t)' PROVE Cardinality(before \cup new) = Cardinality(before \cup old) - 1
  <2>1. ~Open(t)
    BY <1>15
  <2>2. id \in before \cup old /\ before \cup new = (before \cup old) \ {id}
    BY <1>10, <1>11, <1>12, <1>15, <2>1
  <2> QED
    BY <1>13, <2>2, FS_RemoveElement
<1> QED
  BY <1>6, <1>9, <1>14, <1>15

\* So num_neighbors stays exact through the sections of the lock.
LEMMA SectionKeepsCounts ==
  ASSUME Typed, LockProofs!TypeOK, CountsExact, main # "submit", NEW t \in Threads,
         QueueLeft(t), SharedSection(t) \/ ExclusiveSection(t)
  PROVE  CountsExact'
<1>1. /\ place[t] = "run" /\ Work(t) /\ UNCHANGED <<main, batch>>
      /\ tasks'[t] = tasks[t] /\ Taken(t) \in Nat
  BY WorksAlone DEF SharedSection, ExclusiveSection, Advance, Work, QueueLeft
<1>2. /\ task[t][1] # "read"
      /\ \/ (Open(t)' <=> Open(t)) /\ UNCHANGED num_neighbors
         \/ Open(t) /\ ~Open(t)' /\ Count(t, 1)
         \/ ~Open(t) /\ Open(t)' /\ Count(t, Width - 1)
  BY SectionCounts
<1>3. task[t] \in Items
  BY <1>1 DEF Typed, SectionsTyped
<1>4. PICK kind \in Kinds : \E s \in Sources : task[t] = <<kind, s>>
  BY <1>3 DEF Items
<1>5. PICK s \in Sources : task[t] = <<kind, s>>
  BY <1>4
<1>6. kind \in {"add", "delete"}
  BY <1>2, <1>5 DEF Kinds
<1>7. Width \in Nat \ {0} /\ num_neighbors \in [Sources -> Int]
  BY PoolAssumption DEF Typed
<1>8. ASSUME NEW k, NEW r PROVE Cardinality(AllRan(k, r)) \in Int
  BY AllRanFinite, FS_CardinalityType
<1>9. CASE (Open(t)' <=> Open(t)) /\ UNCHANGED num_neighbors
  <2>1. ASSUME NEW k, NEW r PROVE AllRan(k, r)' = AllRan(k, r)
    <3>1. \A i \in DOMAIN Batches[batch] : Past(i)' <=> Past(i)
      <4> SUFFICES ASSUME NEW i \in DOMAIN Batches[batch] PROVE Past(i)' <=> Past(i)
        OBVIOUS
      <4>1. CASE Worker(i) # t
        BY <1>1, <4>1, OthersPast
      <4>2. CASE Worker(i) = t
        BY <1>1, <1>9, <4>2, OwnPast
      <4> QED
        BY <4>1, <4>2
    <3> QED
      BY <1>1, <3>1, RanKept
  <2> QED
    BY <1>9, <2>1 DEF CountsExact
<1>10. ASSUME ~(Open(t)' <=> Open(t))
       PROVE  /\ \A k \in Kinds, r \in Sources :
                   <<k, r>> # <<kind, s>> => AllRan(k, r)' = AllRan(k, r)
              /\ Open(t) => Cardinality(AllRan(kind, s)') = Cardinality(AllRan(kind, s)) + 1
              /\ Open(t)' => Cardinality(AllRan(kind, s)') = Cardinality(AllRan(kind, s)) - 1
  BY <1>1, <1>5, <1>10, TaskCounts
<1>11. ASSUME ~(Open(t)' <=> Open(t)), NEW r \in Sources, r # s, num_neighbors'[r] = num_neighbors[r]
       PROVE  num_neighbors'[r] = (Cardinality(AllRan("add", r)') - Cardinality(AllRan("delete", r)')) % Width
  <2>1. AllRan("add", r)' = AllRan("add", r) /\ AllRan("delete", r)' = AllRan("delete", r)
    BY <1>10, <1>11 DEF Kinds
  <2> QED
    BY <1>11, <2>1 DEF CountsExact
<1>12. ASSUME NEW n \in Int, Count(t, n)
       PROVE  /\ num_neighbors'[s] = (num_neighbors[s] + IF kind = "add" THEN n ELSE Width - n) % Width
              /\ \A r \in Sources : r # s => num_neighbors'[r] = num_neighbors[r]
  BY <1>5, <1>7, <1>12 DEF Count
<1>13. PICK a, d, a2, d2 : /\ a = Cardinality(AllRan("add", s)) /\ d = Cardinality(AllRan("delete", s))
                           /\ a2 = Cardinality(AllRan("add", s)') /\ d2 = Cardinality(AllRan("delete", s)')
  OBVIOUS
<1>14. a \in Int /\ d \in Int /\ num_neighbors[s] = (a - d) % Width
  BY <1>8, <1>13 DEF CountsExact
<1>15. ASSUME ~(Open(t)' <=> Open(t))
       PROVE  /\ kind = "add" => d2 = d /\ (Open(t) => a2 = a + 1) /\ (Open(t)' => a2 = a - 1)
              /\ kind = "delete" => a2 = a /\ (Open(t) => d2 = d + 1) /\ (Open(t)' => d2 = d - 1)
  <2>1. kind = "add" => AllRan("delete", s)' = AllRan("delete", s)
    BY <1>10, <1>15 DEF Kinds
  <2>2. kind = "delete" => AllRan("add", s)' = AllRan("add", s)
    BY <1>10, <1>15 DEF Kinds
  <2> QED
    BY <1>10, <1>13, <1>15, <2>1, <2>2
<1>16. /\ (((a - d) % Width) + 1) % Width = ((a + 1) - d) % Width
       /\ (((a - d) % Width) + 1) % Width = (a - (d - 1)) % Width
       /\ (((a - d) % Width) + (Width - 1)) % Width = ((a - 1) - d) % Width
       /\ (((a - d) % Width) + (Width - 1)) % Width = (a - (d + 1)) % Width
  BY <1>14, CountsModulo
<1>17. CASE Open(t) /\ ~Open(t)' /\ Count(t, 1)
  <2>1. num_neighbors'[s] = (((a - d) % Width) + IF kind = "add" THEN 1 ELSE Width - 1) % Width
    BY <1>12, <1>14, <1>17
  <2>2. num_neighbors'[s] = (a2 - d2) % Width
    <3>1. CASE kind = "add"
      BY <1>15, <1>16, <1>17, <2>1, <3>1
    <3>2. CASE kind = "delete"
      BY <1>15, <1>16, <1>17, <2>1, <3>2
    <3> QED
      BY <1>6, <3>1, <3>2
  <2>3. \A r \in Sources : r # s => num_neighbors'[r] = num_neighbors[r]
    BY <1>12, <1>17
  <2> QED
    BY <1>11, <1>13, <1>17, <2>2, <2>3 DEF CountsExact
<1>18. CASE ~Open(t) /\ Open(t)' /\ Count(t, Width - 1)
  <2>1. num_neighbors'[s] = (((a - d) % Width) + IF kind = "add" THEN Width - 1 ELSE 1) % Width
    <3>1. PICK n \in Int : n = Width - 1
      BY <1>7
    <3>2. Width - n = 1
      BY <1>7, <3>1
    <3>3. num_neighbors'[s] = (num_neighbors[s] + IF kind = "add" THEN n ELSE Width - n) % Width
      BY <1>12, <1>18, <3>1
    <3> QED
      BY <1>14, <3>1, <3>2, <3>3
  <2>2. num_neighbors'[s] = (a2 - d2) % Width
    <3>1. CASE kind = "add"
      BY <1>15, <1>16, <1>18, <2>1, <3>1
    <3>2. CASE kind = "delete"
      BY <1>15, <1>16, <1>18, <2>1, <3>2
    <3> QED
      BY <1>6, <3>1, <3>2
  <2>3. \A r \in Sources : r # s => num_neighbors'[r] = num_neighbors[r]
    <3>1. PICK n \in Int : n = Width - 1
      BY <1>7
    <3> QED
      BY <1>12, <1>18, <3>1
  <2> QED
    BY <1>11, <1>13, <1>18, <2>2, <2>3 DEF CountsExact
<1> QED
  BY <1>2, <1>9, <1>17, <1>18

\* A step of t that neither takes a task nor counts one.
LEMMA NothingCounted ==
  ASSUME Typed, LockProofs!TypeOK, CountsExact, main # "submit", NEW t \in Threads, Work(t),
         QueueLeft(t), tasks'[t] = tasks[t], UNCHANGED num_neighbors,
         (Open(t)' <=> Open(t)) \/ (task[t][1] = "read" /\ place[t] = "run")
  PROVE  CountsExact'
<1>1. UNCHANGED <<main, batch>> /\ Taken(t) \in Nat
  BY WorksAlone DEF QueueLeft
<1>2. ASSUME NEW kind \in {"add", "delete"}, NEW s PROVE AllRan(kind, s)' = AllRan(kind, s)
  <2>1. ASSUME NEW i \in DOMAIN Batches[batch], Batches[batch][i] = <<kind, s>>
        PROVE  Past(i)' <=> Past(i)
    <3>1. CASE Worker(i) # t
      BY <3>1, OthersPast
    <3>2. CASE Worker(i) = t /\ (Open(t)' <=> Open(t))
      BY <1>1, <3>2, OwnPast
    <3>3. CASE Worker(i) = t /\ task[t][1] = "read" /\ place[t] = "run"
      <4>1. Turn(i) + 1 # Taken(t)
        <5>1. PICK j \in DOMAIN Batches[batch] :
                /\ Batches[batch][j] = task[t]
                /\ \A k \in DOMAIN Batches[batch] :
                     Worker(k) = t /\ Turn(k) + 1 = Taken(t) => k = j
          BY <3>3, TaskNumbered
        <5>2. Batches[batch][i] # task[t]
          BY <1>2, <2>1, <3>3
        <5> QED
          BY <3>3, <5>1, <5>2
      <4> QED
        BY <1>1, <3>3, <4>1, OwnPast
    <3> QED
      BY <3>1, <3>2, <3>3
  <2> QED
    BY <1>1, <2>1, RanKept
<1> QED
  BY <1>2 DEF CountsExact

\* The task that t takes is the next of its share, and not counted yet.
LEMMA TakeKeepsCounts ==
  ASSUME Typed, LockProofs!TypeOK, CountsExact, main # "submit", NEW t \in Threads, Take(t),
         QueueLeft(t), pc[t] \in {"idle", "out"}
  PROVE  CountsExact' /\ QueueLeft(t)'
<1>1. UNCHANGED <<main, batch, num_neighbors, pc>> /\ Work(t)
  BY DEF Take, mainvars, lockvars, Work
<1>2. PICK q : q = tasks[t]
  OBVIOUS
<1>3. q \in Seq(Items) /\ q # <<>> /\ Len(q) \in Nat \ {0} /\ Len(Tail(q)) = Len(q) - 1
      /\ Head(q) = q[1] /\ \A k \in 1 .. Len(Tail(q)) : Tail(q)[k] = q[k + 1]
  <2>1. q \in Seq(Items) /\ q # <<>>
    BY <1>2 DEF Typed, Take
  <2> QED
    BY <2>1
<1>4. t \in DOMAIN tasks /\ t \in DOMAIN place /\ t \in DOMAIN sections /\ t \in DOMAIN task
  BY DEF Typed, SectionsTyped
<1>5. tasks'[t] = Tail(q) /\ task'[t] = q[1] /\ place'[t] \in {"register", "run"}
      /\ \E way \in Ways(q[1][1]) : sections'[t] = way
  BY <1>2, <1>3, <1>4 DEF Take
<1>6. Open(t)' /\ ~Open(t)
  <2>1. q[1] \in Items
    BY <1>3
  <2>2. q[1][1] \in Kinds
    BY <2>1 DEF Items
  <2>3. PICK way \in Ways(q[1][1]) : sections'[t] = way
    BY <1>5
  <2>4. way # <<>> /\ way[1] # "exclusive" /\ way \in Seq(Marks)
    BY <2>2, WaysFound DEF Way
  <2>5. Head(sections'[t]) # "exclusive"
    BY <2>3, <2>4
  <2>6. pc'[t] \in {"idle", "out"}
    BY <1>1
  <2> QED
    BY <1>5, <2>5, <2>6 DEF Open, Counted, Take
<1>7. PICK share : share = Share(Batches[batch], t)
  OBVIOUS
<1>8. Len(share) \in Nat
  <2>1. batch \in 1 .. Len(Batches)
    BY PoolAssumption DEF Typed
  <2>2. PICK b \in Seq(Items) : b = Batches[batch]
    BY <2>1, BatchTyped
  <2> QED
    BY <1>7, <2>2, ShareFound
<1>9. PICK k : k = Taken(t)
  OBVIOUS
<1>10. k = Len(share) - Len(q) /\ k \in Nat /\ Taken(t)' = k + 1
  <2>1. k = Len(share) - Len(q) /\ k \in Nat
    BY <1>2, <1>7, <1>9 DEF Taken, QueueLeft
  <2>2. Taken(t)' = Len(share) - Len(Tail(q))
    BY <1>1, <1>5, <1>7 DEF Taken, Share
  <2> QED
    BY <1>3, <1>8, <2>1, <2>2
<1>11. QueueLeft(t)'
  <2>1. \A j \in 1 .. Len(q) : q[j] = share[k + j]
    BY <1>2, <1>7, <1>9 DEF QueueLeft
  <2>2. Share(Batches[batch], t)' = share
    BY <1>1, <1>7 DEF Share
  <2>3. \A j \in 1 .. Len(Tail(q)) : Tail(q)[j] = share[(k + 1) + j]
    <3> SUFFICES ASSUME NEW j \in 1 .. Len(Tail(q)) PROVE Tail(q)[j] = share[(k + 1) + j]
      OBVIOUS
    <3>1. j + 1 \in 1 .. Len(q) /\ k + (j + 1) = (k + 1) + j
      BY <1>3, <1>10
    <3> QED
      BY <1>3, <2>1, <3>1
  <2>4. q[1] = share[k + 1] /\ k + 1 \in Nat /\ k + 1 >= 1
    BY <1>3, <1>10, <2>1
  <2> QED
    BY <1>5, <1>10, <2>2, <2>3, <2>4 DEF QueueLeft
<1>12. ASSUME NEW kind, NEW s PROVE AllRan(kind, s)' = AllRan(kind, s)
  <2>1. ASSUME NEW i \in DOMAIN Batches[batch] PROVE Past(i)' <=> Past(i)
    <3>1. CASE Worker(i) # t
      BY <1>1, <3>1, OthersPast
    <3>2. CASE Worker(i) = t
      <4>1. PICK turn : turn = Turn(i)
        OBVIOUS
      <4>2. turn \in Nat
        <5>1. batch \in 1 .. Len(Batches)
          BY PoolAssumption DEF Typed
        <5>2. PICK b \in Seq(Items) : b = Batches[batch]
          BY <5>1, BatchTyped
        <5>3. i \in 1 .. Len(b)
          BY <2>1, <5>2
        <5> QED
          BY <4>1, <5>2, <5>3, Numbering
      <4>3. Turn(i)' = turn /\ Worker(i)' = t
        BY <3>2, <4>1 DEF Turn, Worker
      <4>4. Past(i) <=> turn + 1 <= k
        BY <1>6, <1>9, <3>2, <4>1 DEF Past
      <4>5. Past(i)' <=> turn + 1 <= k + 1 /\ turn + 1 # k + 1
        BY <1>6, <1>10, <4>3 DEF Past
      <4> QED
        BY <1>10, <4>2, <4>4, <4>5
    <3> QED
      BY <3>1, <3>2
  <2> QED
    BY <1>1, <2>1, RanKept
<1>13. CountsExact'
  BY <1>1, <1>12 DEF CountsExact
<1> QED
  BY <1>11, <1>13

\* The workers keep the count.
LEMMA WorkCounts ==
  ASSUME Typed, LockProofs!TypeOK, PoolInv, CountInv, NEW t \in Threads, Work(t)
  PROVE  CountInv'
<1>1. main # "submit" /\ main' = main /\ batch' = batch
  <2>1. place[t] # "off"
    BY DEF Work, Take, Register, SharedSection, ExclusiveSection, Read, Rest, Leave
  <2> QED
    BY <2>1, WorksAlone DEF PoolInv, QuietInv
<1>2. \A u \in Threads : QueueLeft(u)
  BY <1>1 DEF CountInv
<1>3. /\ \A u \in Threads \ {t} : QueueLeft(u)' /\ place'[u] = place[u] /\ pc'[u] = pc[u]
      /\ CountsExact
  BY <1>1, <1>2, OthersPast, WorksAlone DEF CountInv
<1>4. place[t] = "loop" => pc[t] \in {"idle", "out"}
  BY DEF CountInv
<1>5. ASSUME QueueLeft(t)', place'[t] = "loop" => pc'[t] \in {"idle", "out"}, CountsExact'
      PROVE  CountInv'
  BY <1>1, <1>3, <1>5 DEF CountInv
<1> HIDE DEF CountInv
<1>6. t \in DOMAIN place /\ t \in DOMAIN pc /\ t \in DOMAIN sections
  BY DEF Typed, SectionsTyped, LockProofs!TypeOK
<1>7. ASSUME tasks' = tasks, task' = task, place'[t] = place[t] \/ place'[t] \in {"loop", "ended"}
             \/ place[t] = "register"
      PROVE  QueueLeft(t)'
  <2>1. Taken(t)' = Taken(t) /\ Share(Batches[batch], t)' = Share(Batches[batch], t)
    BY <1>1, <1>7 DEF Taken, Share
  <2>2. place'[t] \in {"register", "run"} => place[t] \in {"register", "run"}
    BY <1>7
  <2>3. QueueLeft(t) /\ tasks'[t] = tasks[t] /\ task'[t] = task[t]
    BY <1>2, <1>7
  <2> QED
    BY <2>1, <2>2, <2>3 DEF QueueLeft
<1>8. CASE Take(t)
  <2>1. pc' = pc /\ place[t] = "loop"
    BY <1>8 DEF Take, lockvars
  <2> QED
    BY <1>1, <1>2, <1>3, <1>4, <1>5, <1>8, <2>1, TakeKeepsCounts
<1>9. CASE Register(t)
  <2>1. /\ tasks' = tasks /\ task' = task /\ num_neighbors' = num_neighbors
        /\ sections' = sections
        /\ place[t] = "register" /\ place'[t] = "run" /\ pc[t] = "out" /\ pc'[t] = "idle"
    BY <1>6, <1>9 DEF Register, FL!RegisterThread, FL!Goto
  <2>2. Open(t)' <=> Open(t)
    BY <2>1 DEF Open, Counted
  <2>3. CountsExact'
    BY <1>1, <1>2, <1>3, <2>1, <2>2, NothingCounted
  <2> QED
    BY <1>5, <1>7, <2>1, <2>3
<1>10. CASE SharedSection(t) \/ ExclusiveSection(t)
  <2>1. place[t] = "run" /\ Advance(t) /\ UNCHANGED <<tasks, task>>
    BY <1>10 DEF SharedSection, ExclusiveSection, Advance
  <2>2. place'[t] = "run" \/ (place'[t] = "loop" /\ pc'[t] = "idle")
    BY <1>6, <2>1 DEF Advance
  <2>3. CountsExact'
    BY <1>1, <1>2, <1>3, <1>10, SectionKeepsCounts
  <2> QED
    BY <1>5, <1>7, <2>1, <2>2, <2>3
<1>11. CASE Read(t)
  <2>1. place[t] = "run" /\ Advance(t) /\ UNCHANGED <<tasks, task, num_neighbors>>
        /\ Head(sections[t]) = "read"
    BY <1>11 DEF Read, Advance
  <2>2. place'[t] = "run" \/ (place'[t] = "loop" /\ pc'[t] = "idle")
    BY <1>6, <2>1 DEF Advance
  <2>3. task[t][1] = "read"
    BY <2>1, Advanced
  <2>4. CountsExact'
    BY <1>1, <1>2, <1>3, <2>1, <2>3, NothingCounted
  <2> QED
    BY <1>5, <1>7, <2>1, <2>2, <2>4
<1>12. CASE Rest(t) \/ Leave(t)
  <2>1. /\ UNCHANGED <<tasks, task, num_neighbors>> /\ place[t] = "loop"
        /\ place'[t] \in {"loop", "ended"}
    BY <1>6, <1>12 DEF Rest, Leave, workvars
  <2>2. pc'[t] = "out"
    BY <1>6, <1>12 DEF Rest, Leave, lockvars, FL!UnregisterThread, FL!Goto
  <2>3. Open(t)' <=> Open(t)
    BY <2>1 DEF Open
  <2>4. CountsExact'
    BY <1>1, <1>2, <1>3, <2>1, <2>3, NothingCounted
  <2> QED
    BY <1>5, <1>7, <2>1, <2>2, <2>4
<1> QED
  BY <1>8, <1>9, <1>10, <1>11, <1>12 DEF Work

\* Nothing is taken nor counted while the main thread hands out a batch, spawns the
\* threads and joins them; and when they have been joined, every task of the batch
\* has been counted.
LEMMA MainCounts ==
  ASSUME Typed, PoolInv, CountInv, Main
  PROVE  CountInv'
<1>1. UNCHANGED <<task, sections, num_neighbors, pc, after>>
  BY DEF Main, Submit, Spawn, Stop, Join, lockvars
<1>2. CASE Submit
  <2>1. /\ main = "submit" /\ main' = "spawn" /\ batch' = batch /\ place' = place
        /\ batch \in 1 .. Len(Batches)
    BY <1>2, PoolAssumption DEF Submit, Typed
  <2>2. \A t \in Threads : place[t] = "off" /\ tasks[t] = <<>>
    BY <2>1 DEF PoolInv, QuietInv
  <2>3. PICK b \in Seq(Items) : b = Batches[batch]
    BY <2>1, BatchTyped
  <2>4. ASSUME NEW t \in Threads
        PROVE  tasks'[t] = Share(b, t) /\ Len(Share(b, t)) \in Nat /\ Taken(t)' = 0
    <3>1. Share(b, t) \in Seq(Items) /\ Len(Share(b, t)) \in Nat
      BY ShareFound
    <3>2. tasks'[t] = tasks[t] \o Share(b, t)
      BY <1>2, <2>3 DEF Submit
    <3>3. tasks'[t] = Share(b, t)
      BY <2>2, <3>1, <3>2
    <3>4. Taken(t)' = Len(Share(b, t)) - Len(tasks'[t])
      BY <2>1, <2>3 DEF Taken, Share
    <3> QED
      BY <3>1, <3>3, <3>4
  <2>5. ASSUME NEW t \in Threads PROVE QueueLeft(t)'
    <3>1. \A k \in 1 .. Len(Share(b, t)) : 0 + k = k
      OBVIOUS
    <3>2. place'[t] = "off" /\ Share(Batches[batch], t)' = Share(b, t)
      BY <2>1, <2>2, <2>3 DEF Share
    <3> QED
      BY <2>4, <3>1, <3>2 DEF QueueLeft
  <2>6. ASSUME NEW kind, NEW s PROVE AllRan(kind, s)' = AllRan(kind, s)
    <3>1. ASSUME NEW i \in DOMAIN b PROVE ~Past(i)'
      <4>1. Turn(i) \in Nat /\ Worker(i) \in Threads
        BY <3>1, Numbering
      <4>2. Turn(i)' = Turn(i) /\ Worker(i)' = Worker(i)
        BY DEF Turn, Worker
      <4>3. Taken(Worker(i))' = 0
        BY <2>4, <4>1
      <4>4. ~(Turn(i) + 1 <= 0)
        BY <4>1
      <4> QED
        BY <4>2, <4>3, <4>4 DEF Past, Taken
    <3>2. Ran(kind, s)' = {}
      BY <2>1, <2>3, <3>1 DEF Ran
    <3> QED
      BY <2>1, <3>2 DEF AllRan, TasksBefore
  <2> QED
    BY <1>1, <2>1, <2>2, <2>5, <2>6 DEF CountInv, CountsExact
<1>3. ASSUME UNCHANGED <<tasks, batch>>, main # "submit", main' # "submit",
             \A t \in Threads :
               /\ place[t] \notin {"register", "run"} \/ place'[t] = place[t]
               /\ place'[t] \notin {"register", "run"} \/ place'[t] = place[t]
               /\ place'[t] = "loop" => place[t] = "loop" \/ pc[t] \in {"idle", "out"}
      PROVE  CountInv'
  <2>1. ASSUME NEW t \in Threads PROVE (Open(t)' <=> Open(t)) /\ QueueLeft(t)'
    <3>1. Taken(t)' = Taken(t) /\ QueueLeft(t)
      BY <1>3 DEF Taken, Share, CountInv
    <3>2. place'[t] \in {"register", "run"} <=> place[t] \in {"register", "run"}
      BY <1>3
    <3>3. Open(t)' <=> Open(t)
      BY <1>1, <3>2 DEF Open, Counted
    <3>4. Share(Batches[batch], t)' = Share(Batches[batch], t)
      BY <1>3 DEF Share
    <3>5. tasks'[t] = tasks[t] /\ task'[t] = task[t]
      BY <1>1, <1>3
    <3>6. QueueLeft(t)'
      BY <3>1, <3>2, <3>4, <3>5 DEF QueueLeft
    <3> QED
      BY <3>3, <3>6
  <2>2. ASSUME NEW kind, NEW s PROVE AllRan(kind, s)' = AllRan(kind, s)
    <3>1. batch \in 1 .. Len(Batches)
      BY <1>3, PoolAssumption DEF Typed
    <3>2. PICK b \in Seq(Items) : b = Batches[batch]
      BY <3>1, BatchTyped
    <3>3. ASSUME NEW i \in DOMAIN b PROVE Past(i)' <=> Past(i)
      <4>1. Worker(i) \in Threads
        BY <3>3, Numbering
      <4>2. Turn(i)' = Turn(i) /\ Worker(i)' = Worker(i)
        BY DEF Turn, Worker
      <4>3. Taken(Worker(i))' = Taken(Worker(i))
        BY <1>3 DEF Taken, Share, Worker, Turn
      <4>4. Open(Worker(i))' <=> Open(Worker(i))
        BY <2>1, <4>1
      <4> QED
        BY <4>2, <4>3, <4>4 DEF Past
    <3>4. Ran(kind, s)' = Ran(kind, s)
      BY <1>3, <3>2, <3>3 DEF Ran
    <3> QED
      BY <1>3, <3>4 DEF AllRan, TasksBefore
  <2>3. \A t \in Threads : place'[t] = "loop" => pc'[t] \in {"idle", "out"}
    BY <1>1, <1>3 DEF CountInv
  <2>4. CountsExact'
    BY <1>1, <2>2 DEF CountsExact, CountInv
  <2> QED
    BY <2>1, <2>3, <2>4 DEF CountInv
<1>4. CASE Spawn
  <2>1. \A t \in Threads : t = next % NumThreads => place[t] = "off"
    <3>1. NumThreads \in Nat \ {0} /\ next \in 1 .. NumThreads
      BY <1>4, PoolAssumption DEF Spawn, Typed
    <3>2. next = NumThreads => next % NumThreads = 0
      BY <3>1
    <3>3. next < NumThreads => next % NumThreads = next
      BY <3>1
    <3> QED
      BY <1>4, <3>1, <3>2, <3>3 DEF Spawn, Typed, SpawnInv, Threads
  <2>2. \A t \in Threads : place'[t] = IF t = next % NumThreads THEN "loop" ELSE place[t]
    BY <1>4 DEF Spawn, Typed
  <2>3. \A t \in Threads : place[t] = "off" => pc[t] = "out"
    BY DEF PoolInv, QuietInv
  <2>4. UNCHANGED <<tasks, batch>> /\ main # "submit" /\ main' # "submit"
    BY <1>4 DEF Spawn
  <2> QED
    BY <1>3, <2>1, <2>2, <2>3, <2>4
<1>5. CASE Stop
  <2>1. \A t \in Threads : place'[t] = IF t = 0 THEN "off" ELSE place[t]
    BY <1>5 DEF Stop, Typed
  <2>2. UNCHANGED <<tasks, batch>> /\ main # "submit" /\ main' # "submit" /\ place[0] = "ended"
    BY <1>5 DEF Stop
  <2> QED
    BY <1>3, <2>1, <2>2
<1>6. CASE Join /\ next < NumThreads
  <2>1. \A t \in Threads : place'[t] = IF t = next THEN "off" ELSE place[t]
    BY <1>6 DEF Join, Typed
  <2>2. UNCHANGED <<tasks, batch>> /\ main # "submit" /\ main' # "submit" /\ place[next] = "ended"
    BY <1>6 DEF Join
  <2> QED
    BY <1>3, <2>1, <2>2
<1>7. CASE Join /\ ~(next < NumThreads)
  <2>1. main = "join" /\ main' = "submit" /\ batch' = batch + 1 /\ place' = place
    BY <1>7 DEF Join
  <2>2. \A t \in Threads : tasks[t] = <<>> /\ place[t] = "off"
    <3>1. \A t \in Threads : t < next
      BY <1>7, PoolAssumption DEF Threads, Typed
    <3> QED
      BY <2>1, <3>1 DEF PoolInv, JoinInv
  <2>3. ASSUME NEW kind, NEW s PROVE AllRan(kind, s)' = AllRan(kind, s)
    <3>1. AllRan(kind, s) = TasksBefore(batch + 1, kind, s)
      BY <2>1, <2>2, AllPast
    <3>2. AllRan(kind, s)' = TasksBefore(batch + 1, kind, s)
      BY <2>1 DEF AllRan, TasksBefore
    <3> QED
      BY <3>1, <3>2
  <2> QED
    BY <1>1, <2>1, <2>2, <2>3 DEF CountInv, CountsExact
<1> QED
  BY <1>2, <1>4, <1>5, <1>6, <1>7 DEF Main

\* CountInv always holds.
LEMMA CountInvCorrect == Spec => []CountInv
<1>1. Init => CountInv
  <2> SUFFICES ASSUME Init PROVE CountInv
    OBVIOUS
  <2>1. main = "submit" /\ batch = 1 /\ \A t \in Threads : place[t] = "off"
    BY DEF Init
  <2>2. ASSUME NEW kind, NEW s PROVE AllRan(kind, s) = {}
    BY <2>1 DEF AllRan, TasksBefore
  <2>3. CountsExact
    <3>1. Cardinality({}) = 0 /\ 0 - 0 = 0
      BY FS_EmptySet
    <3>2. 0 % Width = 0
      BY PoolAssumption
    <3>3. \A s \in Sources : num_neighbors[s] = 0
      BY DEF Init
    <3> QED
      BY <2>2, <3>1, <3>2, <3>3 DEF CountsExact
  <2> QED
    BY <2>1, <2>3 DEF CountInv
<1>2. Typed /\ LockProofs!TypeOK /\ PoolInv /\ CountInv /\ [Next]_vars => CountInv'
  <2> SUFFICES ASSUME Typed, LockProofs!TypeOK, PoolInv, CountInv, [Next]_vars PROVE CountInv'
    OBVIOUS
  <2>1. CASE Main
    BY <2>1, MainCounts
  <2>2. CASE \E t \in Threads : Work(t)
    BY <2>2, WorkCounts
  <2>3. CASE UNCHANGED vars
    <3>1. UNCHANGED <<tasks, place, task, sections, num_neighbors, main, batch, pc, after>>
      BY <2>3 DEF vars, workvars, mainvars, lockvars
    <3>2. ASSUME NEW t PROVE Taken(t)' = Taken(t) /\ (Open(t)' <=> Open(t))
                             /\ (QueueLeft(t)' <=> QueueLeft(t))
      BY <3>1 DEF Taken, Share, Open, Counted, QueueLeft
    <3>3. ASSUME NEW kind, NEW s PROVE AllRan(kind, s)' = AllRan(kind, s)
      <4>1. ASSUME NEW i PROVE Past(i)' <=> Past(i)
        BY <3>2 DEF Past, Worker, Turn
      <4> QED
        BY <3>1, <4>1, RanKept
    <3>4. CountsExact' <=> CountsExact
      BY <3>1, <3>3 DEF CountsExact
    <3> QED
      BY <3>1, <3>2, <3>4 DEF CountInv
  <2> QED
    BY <2>1, <2>2, <2>3 DEF Next
<1> QED
  BY <1>1, <1>2, TypedCorrect, LockSafe, PoolInvCorrect, PTL DEF Spec

\* For any number of threads, any batches and any number of attempts, every submitted
\* task has been run exactly once when its batch is over: num_neighbors of each source
\* is what the additions and removals of the batches make it, modulo its width.
THEOREM CountsEveryTaskCorrect == Spec => []CountsEveryTask
<1>1. CountInv => CountsEveryTask
  BY DEF CountInv, CountsExact, AllRan, CountsEveryTask
<1> QED
  BY <1>1, CountInvCorrect, PTL
=============================================================================
