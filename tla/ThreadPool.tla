----------------------------- MODULE ThreadPool -----------------------------
(***************************************************************************)
(* thread_pool/thread_pool.cpp over the global lock of FastLock.tla, as    *)
(* update_existing_graph of main.cpp drives it: the tasks of a batch are   *)
(* submitted round-robin, start() runs one worker per thread and the       *)
(* master's own queue, stop() joins the workers, then the next batch.      *)
(*                                                                         *)
(* What an operation does to the list is the subject of PCSR.tla; here it  *)
(* is the sections of the global lock that it passes through, and what it  *)
(* does to num_neighbors of its source on the way.                         *)
(***************************************************************************)
EXTENDS Integers, Sequences, FiniteSets

CONSTANTS
  NumThreads,     \* NUM_OF_THREADS; thread 0 is the master
  Batches,        \* the batches of tasks, each a sequence of <<kind, src>>
  Width,          \* num_neighbors counts modulo Width (2^32 in the code)
  Retries,        \* 3 in add_edge_parallel (scaled down); for remove_edge,
                  \* which has no such limit, a bound
  NoThread

Threads == 0 .. NumThreads - 1

Kinds == {"add", "delete", "read"}

ASSUME PoolAssumption ==
  /\ NumThreads \in Nat \ {0} /\ Width \in Nat \ {0} /\ Retries \in Nat
  /\ Batches \in Seq(Seq(Kinds \X Nat))
  /\ NoThread \notin Threads

VARIABLES
  tasks,          \* tasks[t]: the queue of thread t
  finished,       \* std::atomic_bool
  place,          \* where each thread is in execute()
  task,           \* task[t]: the task t works on
  sections,       \* sections[t]: the sections of the lock it has yet to pass
  num_neighbors,  \* of every source
  main,           \* where main is in update_existing_graph
  batch,          \* the number of the batch
  next,           \* the loop variable i of start() and stop()
  lockRequested, thread_counter, arrived_threads, mtx_writer, mtx_readers,
  seen, after, pc \* the global lock

lockvars == <<lockRequested, thread_counter, arrived_threads, mtx_writer,
              mtx_readers, seen, after, pc>>
workvars == <<tasks, place, task, sections, num_neighbors>>
mainvars == <<finished, main, batch, next>>
vars == <<workvars, mainvars, lockvars>>

FL == INSTANCE FastLock

Sources == UNION {{Batches[k][i][2] : i \in DOMAIN Batches[k]} : k \in DOMAIN Batches}

NoTask == <<"none", 0>>

Init ==
  /\ tasks = [t \in Threads |-> <<>>]
  /\ finished = FALSE
  /\ place = [t \in Threads |-> "off"]
  /\ task = [t \in Threads |-> NoTask]
  /\ sections = [t \in Threads |-> <<>>]
  /\ num_neighbors = [s \in Sources |-> 0]
  /\ main = "submit" /\ batch = 1 /\ next = 1
  /\ FL!Init

----------------------------------------------------------------------------
(* The main thread.                                                        *)

\* The tasks of a batch that go to thread t: number i goes to i % threads.
Share(b, t) ==
  [k \in 1 .. (Len(b) - t + NumThreads - 1) \div NumThreads |->
     b[t + 1 + (k - 1) * NumThreads]]

Submit ==
  /\ main = "submit"
  /\ batch <= Len(Batches)
  /\ tasks' = [t \in Threads |-> tasks[t] \o Share(Batches[batch], t)]
  /\ finished' = FALSE                          \* start()
  /\ main' = "spawn" /\ next' = 1
  /\ UNCHANGED <<place, task, sections, num_neighbors, batch, lockvars>>

\* start() runs execute() in a new thread for each worker, then itself.
Spawn ==
  /\ main = "spawn"
  /\ place' = [place EXCEPT ![next % NumThreads] = "loop"]
  /\ next' = next + 1
  /\ main' = IF next = NumThreads THEN "execute" ELSE "spawn"
  /\ UNCHANGED <<tasks, task, sections, num_neighbors, finished, batch, lockvars>>

\* stop(): execute<true>(0) has returned
Stop ==
  /\ main = "execute"
  /\ place[0] = "ended"
  /\ finished' = TRUE
  /\ place' = [place EXCEPT ![0] = "off"]
  /\ main' = "join" /\ next' = 1
  /\ UNCHANGED <<tasks, task, sections, num_neighbors, batch, lockvars>>

Join ==
  /\ main = "join"
  /\ IF next < NumThreads
     THEN /\ place[next] = "ended"
          /\ place' = [place EXCEPT ![next] = "off"]
          /\ next' = next + 1
          /\ UNCHANGED <<main, batch>>
     ELSE /\ main' = "submit"
          /\ batch' = batch + 1
          /\ UNCHANGED <<place, next>>
  /\ UNCHANGED <<tasks, task, sections, num_neighbors, finished, lockvars>>

----------------------------------------------------------------------------
(* The workers.                                                            *)

\* k attempts that end in NEED_RETRY, then the rest
After(k, rest) == [i \in 1 .. k |-> "retry"] \o rest

\* The ways of an operation through the lock: an attempt is a shared section that
\* is done, starts again, or goes on in the exclusive section; add_edge gives up
\* after too many and takes the lock exclusively from the start.
Ways(kind) ==
  LET attempts == {After(k, <<"done">>) : k \in 0 .. Retries}
                    \cup {After(k, <<"escalate", "exclusive">>) : k \in 0 .. Retries}
  IN  CASE kind = "add"    -> attempts \cup {After(Retries + 1, <<"forced">>)}
        [] kind = "delete" -> attempts
        [] kind = "read"   -> {<<"read">>}

\* Wrong variant: a worker that has rested does not register again.
TakeUnregistered(t) ==
  /\ place[t] = "loop"
  /\ tasks[t] # <<>>
  /\ task' = [task EXCEPT ![t] = Head(tasks[t])]
  /\ tasks' = [tasks EXCEPT ![t] = Tail(@)]
  /\ \E way \in Ways(Head(tasks[t])[1]) : sections' = [sections EXCEPT ![t] = way]
  /\ place' = [place EXCEPT ![t] = "run"]
  /\ UNCHANGED <<num_neighbors, mainvars, lockvars>>

Take(t) ==
  /\ place[t] = "loop"
  /\ tasks[t] # <<>>
  /\ task' = [task EXCEPT ![t] = Head(tasks[t])]
  /\ tasks' = [tasks EXCEPT ![t] = Tail(@)]
  /\ \E way \in Ways(Head(tasks[t])[1]) : sections' = [sections EXCEPT ![t] = way]
  /\ place' = [place EXCEPT ![t] = IF pc[t] = "out" THEN "register" ELSE "run"]
  /\ UNCHANGED <<num_neighbors, mainvars, lockvars>>

\* "registered == -1" while the thread is not registered with the lock
Register(t) ==
  /\ place[t] = "register"
  /\ FL!RegisterThread(t)
  /\ place' = [place EXCEPT ![t] = "run"]
  /\ UNCHANGED <<tasks, task, sections, num_neighbors, mainvars>>

\* A step of the lock; a section is over when t is idle again.
Advance(t) ==
  LET over == pc'[t] = "idle"
  IN  /\ sections' = [sections EXCEPT ![t] = IF over THEN Tail(@) ELSE @]
      /\ place' = [place EXCEPT ![t] = IF over /\ Len(sections[t]) = 1
                                       THEN "loop" ELSE "run"]
      /\ UNCHANGED <<tasks, task, mainvars>>

\* Wrong variant: a signed integer.
CountSigned(t, n) ==
  LET up == IF n = 1 THEN 1 ELSE -1
      by == IF task[t][1] = "add" THEN up ELSE -up
  IN  num_neighbors' = [num_neighbors EXCEPT ![task[t][2]] = @ + by]

\* num_neighbors++ of an insertion, -- of a removal, or the opposite; an
\* unsigned integer
Count(t, n) ==
  LET by == IF task[t][1] = "add" THEN n ELSE Width - n
  IN  num_neighbors' = [num_neighbors EXCEPT ![task[t][2]] = (@ + by) % Width]

\* Wrong variant: an attempt that starts again stays counted.
SharedSectionKeepsCount(t) ==
  /\ place[t] = "run"
  /\ Head(sections[t]) \in {"retry", "done", "escalate"}
  /\ FL!SharedCall(t)
  /\ Advance(t)
  /\ IF pc[t] # "shared" /\ pc'[t] = "shared" THEN Count(t, 1)
     ELSE UNCHANGED num_neighbors

\* lock_shared ... unlock_shared: counted on the way in, and taken back on the
\* way out when the operation starts again
SharedSection(t) ==
  /\ place[t] = "run"
  /\ Head(sections[t]) \in {"retry", "done", "escalate"}
  /\ FL!SharedCall(t)
  /\ Advance(t)
  /\ IF pc[t] # "shared" /\ pc'[t] = "shared" THEN Count(t, 1)
     ELSE IF pc[t] = "shared" /\ Head(sections[t]) = "retry" THEN Count(t, Width - 1)
     ELSE UNCHANGED num_neighbors

\* lock ... unlock: only a forced insertion has yet to be counted
ExclusiveSection(t) ==
  /\ place[t] = "run"
  /\ Head(sections[t]) \in {"exclusive", "forced"}
  /\ FL!ExclusiveCall(t)
  /\ Advance(t)
  /\ IF Head(sections[t]) = "forced" /\ pc[t] = "enter" THEN Count(t, 1)
     ELSE UNCHANGED num_neighbors

\* read_neighbourhood, outside of every section
Read(t) ==
  /\ place[t] = "run"
  /\ Head(sections[t]) = "read"
  /\ FL!BeginRead(t) \/ FL!EndRead(t)
  /\ Advance(t)
  /\ UNCHANGED num_neighbors

\* Wrong variant: an idle worker stays registered while it polls.
RestRegistered(t) ==
  /\ place[t] = "loop"
  /\ tasks[t] = <<>> /\ t # 0 /\ ~finished
  /\ UNCHANGED vars

\* A worker with an empty queue unregisters and polls until finished.
Rest(t) ==
  /\ place[t] = "loop"
  /\ tasks[t] = <<>> /\ t # 0 /\ ~finished
  /\ FL!UnregisterThread(t)
  /\ UNCHANGED <<workvars, mainvars>>

\* Wrong variant: a worker leaves without unregistering.
LeaveRegistered(t) ==
  /\ place[t] = "loop"
  /\ tasks[t] = <<>> /\ (t = 0 \/ finished)
  /\ place' = [place EXCEPT ![t] = "ended"]
  /\ UNCHANGED <<tasks, task, sections, num_neighbors, mainvars, lockvars>>

\* The master leaves as soon as its queue is empty, a worker when finished, too.
Leave(t) ==
  /\ place[t] = "loop"
  /\ tasks[t] = <<>> /\ (t = 0 \/ finished)
  /\ IF pc[t] = "out" THEN UNCHANGED lockvars ELSE FL!UnregisterThread(t)
  /\ place' = [place EXCEPT ![t] = "ended"]
  /\ UNCHANGED <<tasks, task, sections, num_neighbors, mainvars>>

Main == Submit \/ Spawn \/ Stop \/ Join

Work(t) == \/ Take(t) \/ Register(t)
           \/ SharedSection(t) \/ ExclusiveSection(t) \/ Read(t)
           \/ Rest(t) \/ Leave(t)

Next == Main \/ \E t \in Threads : Work(t)

Spec == Init /\ [][Next]_vars

\* Every thread that can take a step takes one at some time.  Nothing more is
\* assumed of mtx: a writer may wait while readers come and go.
FairSpec == Spec /\ WF_vars(Main) /\ \A t \in Threads : WF_vars(Work(t))

----------------------------------------------------------------------------
TypeOK ==
  /\ FL!TypeOK
  /\ tasks \in [Threads -> Seq(Kinds \X Sources)]
  /\ finished \in BOOLEAN
  /\ place \in [Threads -> {"off", "loop", "register", "run", "ended"}]
  /\ task \in [Threads -> (Kinds \X Sources) \cup {NoTask}]
  /\ \A t \in Threads : sections[t] # <<>> <=> place[t] \in {"register", "run"}
  /\ num_neighbors \in [Sources -> 0 .. Width - 1]
  /\ main \in {"submit", "spawn", "execute", "join"}
  /\ batch \in 1 .. Len(Batches) + 1
  /\ next \in 1 .. NumThreads + 1

\* Whoever runs an operation is registered with the lock, however often it has
\* rested before: the writers wait for nobody else.
RunsRegistered == \A t \in Threads : place[t] = "run" => pc[t] # "out"

\* Between two batches nothing of the first is left: no task, no registration and
\* no request for the lock, for which the writers of the second would wait.
QuietBetweenBatches ==
  main = "submit" =>
    /\ \A t \in Threads : tasks[t] = <<>> /\ place[t] = "off" /\ pc[t] = "out"
    /\ thread_counter = 0 /\ arrived_threads = 0 /\ ~lockRequested

\* The tasks of the batches before n about source s
TasksBefore(n, kind, s) ==
  UNION {{<<k, i>> : i \in {j \in DOMAIN Batches[k] : Batches[k][j] = <<kind, s>>}} :
            k \in 1 .. n - 1}

\* Every submitted task is run exactly once, whatever attempts it took: between
\* two batches num_neighbors has counted each addition and each removal once,
\* modulo its width.
CountsEveryTask ==
  main = "submit" => \A s \in Sources :
    num_neighbors[s] = (Cardinality(TasksBefore(batch, "add", s))
                          - Cardinality(TasksBefore(batch, "delete", s))) % Width

\* start() and stop() return for every batch, so every writer gets the lock though
\* it must wait for every registered thread to arrive: a thread that has no work
\* is not registered.
Terminates == <>(main = "submit" /\ batch > Len(Batches))
=============================================================================
