------------------------------ MODULE RWLock ------------------------------
(***************************************************************************)
(* What PCSR relies on when it calls edges.global_lock: a lock with a      *)
(* shared and an exclusive mode.  A thread never holds both; an exclusive  *)
(* holder excludes every other holder.  FastLock.tla implements this       *)
(* module, and PCSR.tla takes its global lock from it.                     *)
(***************************************************************************)
CONSTANT Threads        \* the threads that may use the lock

VARIABLE mode           \* mode[t] : how t holds the lock now

Modes == {"none", "shared", "exclusive"}

RWTypeOK == mode \in [Threads -> Modes]

RWInit == mode = [t \in Threads |-> "none"]

\* lock_shared() returns: nobody may hold the lock exclusively.
AcquireShared(t) ==
  /\ mode[t] = "none"
  /\ \A u \in Threads : mode[u] # "exclusive"
  /\ mode' = [mode EXCEPT ![t] = "shared"]

\* lock() returns: nobody else may hold the lock at all.
AcquireExclusive(t) ==
  /\ mode[t] = "none"
  /\ \A u \in Threads : mode[u] = "none"
  /\ mode' = [mode EXCEPT ![t] = "exclusive"]

\* unlock_shared() or unlock() gives the lock up.
Release(t) ==
  /\ mode[t] # "none"
  /\ mode' = [mode EXCEPT ![t] = "none"]

RWNext == \E t \in Threads : \/ AcquireShared(t)
                             \/ AcquireExclusive(t)
                             \/ Release(t)

RWSpec == RWInit /\ [][RWNext]_mode
============================================================================
