----------------------------- MODULE FastLock -----------------------------
(***************************************************************************)
(* utility/fastLock.h, one atomic access per step.                         *)
(*                                                                         *)
(* The global lock is a safe-point protocol.  The shared side takes no     *)
(* lock at all unless a writer has raised lockRequested; a writer waits    *)
(* until every registered thread has "arrived", i.e. is parked on mtx at   *)
(* the beginning or at the end of its shared section.  The clients of the  *)
(* lock are the workers of the thread pools: a worker registers, runs      *)
(* operations (an update brackets its work by lock_shared / unlock_shared  *)
(* or by lock / unlock, read_neighbourhood takes no lock) and unregisters  *)
(* while it is between operations.                                         *)
(***************************************************************************)
EXTENDS Naturals, FiniteSets

CONSTANTS Threads,      \* the threads of the pool
          NoThread      \* "mtx is not held exclusively"

ASSUME ThreadsAssumption == IsFiniteSet(Threads) /\ NoThread \notin Threads

VARIABLES
  lockRequested,        \* std::atomic<bool>
  thread_counter,       \* std::atomic<unsigned>: registered threads
  arrived_threads,      \* std::atomic<unsigned>: threads at a safe point
  mtx_writer,           \* the thread that holds mtx exclusively
  mtx_readers,          \* the threads that hold mtx shared
  seen,                 \* seen[t]: t's last load of arrived_threads in lock()
  after,                \* after[t]: where t continues after lock_shared()
  pc                    \* where each thread is

vars == <<lockRequested, thread_counter, arrived_threads, mtx_writer,
          mtx_readers, seen, after, pc>>

PCs == {"out",                                    \* not registered
        "idle", "reading", "shared",              \* outside / inside a section
        "arrive", "park", "depart", "drop",       \* in (un)lock_shared
        "lock", "flag", "spin", "test", "enter",  \* in lock()
        "exclusive", "release"}                   \* exclusive section, unlock()

\* The places at which a thread is counted in arrived_threads.
Arrived == {"park", "depart", "lock", "flag", "spin", "test", "enter"}

\* The places at which a thread holds mtx exclusively.
HoldsExclusive == {"flag", "spin", "test", "enter", "exclusive", "release"}

TypeOK ==
  /\ lockRequested \in BOOLEAN
  /\ thread_counter \in Nat
  /\ arrived_threads \in Nat
  /\ mtx_writer \in Threads \cup {NoThread}
  /\ mtx_readers \in SUBSET Threads
  /\ seen \in [Threads -> Nat]
  /\ after \in [Threads -> {"shared", "idle"}]
  /\ pc \in [Threads -> PCs]

Init ==
  /\ lockRequested = FALSE
  /\ thread_counter = 0
  /\ arrived_threads = 0
  /\ mtx_writer = NoThread
  /\ mtx_readers = {}
  /\ seen = [t \in Threads |-> 0]
  /\ after = [t \in Threads |-> "idle"]
  /\ pc = [t \in Threads |-> "out"]

Goto(t, from, to) == pc[t] = from /\ pc' = [pc EXCEPT ![t] = to]

(***************************************************************************)
(* registerThread / unregisterThread: the pool calls them between two      *)
(* operations of the thread.                                               *)
(***************************************************************************)
RegisterThread(t) ==
  /\ Goto(t, "out", "idle")
  /\ thread_counter' = thread_counter + 1
  /\ UNCHANGED <<lockRequested, arrived_threads, mtx_writer, mtx_readers,
                 seen, after>>

UnregisterThread(t) ==
  /\ Goto(t, "idle", "out")
  /\ thread_counter' = thread_counter - 1
  /\ UNCHANGED <<lockRequested, arrived_threads, mtx_writer, mtx_readers,
                 seen, after>>

(***************************************************************************)
(* lock_shared, and unlock_shared which is the same function: fall through *)
(* when no writer asked for the lock, else park on mtx.                    *)
(***************************************************************************)
PassOrPark(t, from, to) ==
  /\ pc[t] = from
  /\ IF lockRequested
     THEN /\ pc' = [pc EXCEPT ![t] = "arrive"]
          /\ after' = [after EXCEPT ![t] = to]
     ELSE /\ pc' = [pc EXCEPT ![t] = to]
          /\ UNCHANGED after
  /\ UNCHANGED <<lockRequested, thread_counter, arrived_threads, mtx_writer,
                 mtx_readers, seen>>

LockShared(t) == PassOrPark(t, "idle", "shared")

UnlockShared(t) == PassOrPark(t, "shared", "idle")

\* Wrong variant: parks without announcing it.
SharedArriveUncounted(t) ==
  /\ Goto(t, "arrive", "park")
  /\ UNCHANGED <<lockRequested, thread_counter, arrived_threads, mtx_writer,
                 mtx_readers, seen, after>>

SharedArrive(t) ==
  /\ Goto(t, "arrive", "park")
  /\ arrived_threads' = arrived_threads + 1
  /\ UNCHANGED <<lockRequested, thread_counter, mtx_writer, mtx_readers,
                 seen, after>>

\* Wrong variant: does not wait for the writer that holds mtx.
SharedAcquireNoWait(t) ==
  /\ Goto(t, "park", "depart")
  /\ mtx_readers' = mtx_readers \cup {t}
  /\ UNCHANGED <<lockRequested, thread_counter, arrived_threads, mtx_writer,
                 seen, after>>

SharedAcquire(t) ==
  /\ Goto(t, "park", "depart")
  /\ mtx_writer = NoThread
  /\ mtx_readers' = mtx_readers \cup {t}
  /\ UNCHANGED <<lockRequested, thread_counter, arrived_threads, mtx_writer,
                 seen, after>>

SharedDepart(t) ==
  /\ Goto(t, "depart", "drop")
  /\ arrived_threads' = arrived_threads - 1
  /\ UNCHANGED <<lockRequested, thread_counter, mtx_writer, mtx_readers,
                 seen, after>>

\* the end of lck's scope, and of lock_shared / unlock_shared
SharedDrop(t) ==
  /\ Goto(t, "drop", after[t])
  /\ mtx_readers' = mtx_readers \ {t}
  /\ UNCHANGED <<lockRequested, thread_counter, arrived_threads, mtx_writer,
                 seen, after>>

(***************************************************************************)
(* lock(): the two loads of the loop condition are separate steps, in the  *)
(* order the compiler emits them (arrived_threads first).                  *)
(***************************************************************************)
LockArrive(t) ==
  /\ Goto(t, "idle", "lock")
  /\ arrived_threads' = arrived_threads + 1
  /\ UNCHANGED <<lockRequested, thread_counter, mtx_writer, mtx_readers,
                 seen, after>>

LockAcquire(t) ==
  /\ Goto(t, "lock", "flag")
  /\ mtx_writer = NoThread
  /\ mtx_readers = {}
  /\ mtx_writer' = t
  /\ UNCHANGED <<lockRequested, thread_counter, arrived_threads, mtx_readers,
                 seen, after>>

\* Wrong variant: the writer waits for the others without asking them to.
LockRequestUnannounced(t) ==
  /\ Goto(t, "flag", "spin")
  /\ UNCHANGED <<lockRequested, thread_counter, arrived_threads, mtx_writer,
                 mtx_readers, seen, after>>

LockRequest(t) ==
  /\ Goto(t, "flag", "spin")
  /\ lockRequested' = TRUE
  /\ UNCHANGED <<thread_counter, arrived_threads, mtx_writer, mtx_readers,
                 seen, after>>

SpinLoad(t) ==
  /\ Goto(t, "spin", "test")
  /\ seen' = [seen EXCEPT ![t] = arrived_threads]
  /\ UNCHANGED <<lockRequested, thread_counter, arrived_threads, mtx_writer,
                 mtx_readers, after>>

SpinAgain(t) ==
  /\ Goto(t, "test", "spin")
  /\ seen[t] < thread_counter
  /\ UNCHANGED <<lockRequested, thread_counter, arrived_threads, mtx_writer,
                 mtx_readers, seen, after>>

\* Wrong variant: counts itself once more, on top of its own arrival.
SpinDoneOffByOne(t) ==
  /\ Goto(t, "test", "enter")
  /\ seen[t] + 1 >= thread_counter
  /\ UNCHANGED <<lockRequested, thread_counter, arrived_threads, mtx_writer,
                 mtx_readers, seen, after>>

SpinDone(t) ==
  /\ Goto(t, "test", "enter")
  /\ seen[t] >= thread_counter
  /\ UNCHANGED <<lockRequested, thread_counter, arrived_threads, mtx_writer,
                 mtx_readers, seen, after>>

\* Wrong variant of the loop: thread_counter is loaded first and compared
\* with a later value of arrived_threads.
SpinCounterFirst(t) ==
  /\ \/ /\ Goto(t, "spin", "test")
        /\ seen' = [seen EXCEPT ![t] = thread_counter]
     \/ /\ pc[t] = "test"
        /\ pc' = [pc EXCEPT ![t] = IF arrived_threads < seen[t]
                                   THEN "spin" ELSE "enter"]
        /\ UNCHANGED seen
  /\ UNCHANGED <<lockRequested, thread_counter, arrived_threads, mtx_writer,
                 mtx_readers, after>>

Spin(t) == SpinLoad(t) \/ SpinAgain(t) \/ SpinDone(t)

\* Wrong variant: the writer stays counted as arrived.
LockEnterStillArrived(t) ==
  /\ Goto(t, "enter", "exclusive")
  /\ UNCHANGED <<lockRequested, thread_counter, arrived_threads, mtx_writer,
                 mtx_readers, seen, after>>

LockEnter(t) ==
  /\ Goto(t, "enter", "exclusive")
  /\ arrived_threads' = arrived_threads - 1
  /\ UNCHANGED <<lockRequested, thread_counter, mtx_writer, mtx_readers,
                 seen, after>>

(***************************************************************************)
(* unlock(): the flag falls before mtx is released.                        *)
(***************************************************************************)
UnlockRequest(t) ==
  /\ Goto(t, "exclusive", "release")
  /\ lockRequested' = FALSE
  /\ UNCHANGED <<thread_counter, arrived_threads, mtx_writer, mtx_readers,
                 seen, after>>

UnlockMutex(t) ==
  /\ Goto(t, "release", "idle")
  /\ mtx_writer' = NoThread
  /\ UNCHANGED <<lockRequested, thread_counter, arrived_threads, mtx_readers,
                 seen, after>>

\* Wrong variant: mtx is released before the flag falls.
UnlockMutexFirst(t) ==
  \/ /\ Goto(t, "exclusive", "release")
     /\ mtx_writer' = NoThread
     /\ UNCHANGED <<lockRequested, thread_counter, arrived_threads,
                    mtx_readers, seen, after>>
  \/ /\ Goto(t, "release", "idle")
     /\ lockRequested' = FALSE
     /\ UNCHANGED <<thread_counter, arrived_threads, mtx_writer, mtx_readers,
                    seen, after>>

Unlock(t) == UnlockRequest(t) \/ UnlockMutex(t)

(***************************************************************************)
(* PCSR::read_neighbourhood runs outside every lock.                       *)
(***************************************************************************)
BeginRead(t) == Goto(t, "idle", "reading")
                /\ UNCHANGED <<lockRequested, thread_counter, arrived_threads,
                               mtx_writer, mtx_readers, seen, after>>

EndRead(t) == Goto(t, "reading", "idle")
              /\ UNCHANGED <<lockRequested, thread_counter, arrived_threads,
                             mtx_writer, mtx_readers, seen, after>>

SharedCall(t) == \/ LockShared(t) \/ UnlockShared(t) \/ SharedArrive(t)
                 \/ SharedAcquire(t) \/ SharedDepart(t) \/ SharedDrop(t)

ExclusiveCall(t) == \/ LockArrive(t) \/ LockAcquire(t) \/ LockRequest(t)
                    \/ Spin(t) \/ LockEnter(t) \/ Unlock(t)

Step(t) == \/ RegisterThread(t) \/ UnregisterThread(t)
           \/ SharedCall(t) \/ ExclusiveCall(t)
           \/ BeginRead(t) \/ EndRead(t)

Next == \E t \in Threads : Step(t)

Spec == Init /\ [][Next]_vars

----------------------------------------------------------------------------
Registered == {t \in Threads : pc[t] # "out"}

Parked == {t \in Threads : pc[t] \in Arrived}

\* Both counters are exact at every step of every interleaving: each thread
\* is counted once while it is registered and once while it is at a safe
\* point, so no path through lock/lock_shared loses or leaks a count.
CountersExact ==
  /\ thread_counter = Cardinality(Registered)
  /\ arrived_threads = Cardinality(Parked)

\* The exclusive section of PCSR (double_list, half_list, forced inserts)
\* overlaps no shared section and no other exclusive section, although a
\* shared section that meets no writer takes no lock at all.
MutualExclusion ==
  \A t, u \in Threads :
    t # u /\ pc[t] = "exclusive" => pc[u] \notin {"shared", "exclusive"}

\* lockRequested is up exactly while the holder of mtx is between its two
\* stores: no thread ever parks for a writer that is gone, and no writer
\* waits or works unannounced.
RequestFollowsOwner ==
  lockRequested <=> \E t \in Threads :
                      /\ mtx_writer = t
                      /\ pc[t] \in {"spin", "test", "enter", "exclusive"}

\* A writer leaves the loop of lock() only in a state in which every other
\* registered thread is parked: neither in a section nor in an unlocked
\* read_neighbourhood, even though threads register, unregister and arrive
\* between its two loads.
RendezvousComplete ==
  [][\A t \in Threads : pc[t] = "test" /\ pc'[t] = "enter"
                          => Registered \subseteq Parked]_vars

\* A thread that was parked when the writer got through stays parked until
\* the writer has lowered the flag: an exclusive section ends before any of
\* the threads it waited for moves on.
ParkedStayParked ==
  [][\A t, u \in Threads :
        t # u /\ pc[t] = "exclusive" /\ pc[u] \in Arrived
          => pc'[u] = pc[u]]_vars

----------------------------------------------------------------------------
\* The lock implements an ordinary shared/exclusive lock.
Mode == [t \in Threads |-> IF pc[t] \in {"shared", "exclusive"}
                           THEN pc[t] ELSE "none"]

RW == INSTANCE RWLock WITH mode <- Mode

\* Every step of the protocol is a step of the abstract lock or a stutter.
ImplementsRWLock == RW!RWSpec
============================================================================
