-------------------------- MODULE ThreadPoolPPPCSR --------------------------
(***************************************************************************)
(* thread_pool_pppcsr/thread_pool_pppcsr.cpp: the pool for a partitioned   *)
(* graph.  A task goes, round-robin, to a thread of the domain of its      *)
(* source's partition; a thread that comes to a task of another partition  *)
(* leaves the lock of the old one and registers with that of the new one.  *)
(*                                                                         *)
(* The lock of a partition is FastLock.tla in fewer steps: whoever wants   *)
(* it exclusively waits until every other thread that is registered with   *)
(* it is at a safe point, at the beginning or at the end of a section.     *)
(***************************************************************************)
EXTENDS PPPCSR, Sequences

CONSTANTS NumThreads,           \* NUM_OF_THREADS; thread 0 is the master
          Tasks,                \* <<kind, source, destination>>, as submitted
          MaxVertices           \* bound: add_node is not called beyond this many

Threads == 0 .. NumThreads - 1
Domains == 0 .. NumDomains - 1

Kinds == {"add", "remove", "read"}

\* available_nodes is the minimum of the number of domains and of threads.
ASSUME PoolAssumption ==
  /\ NumThreads \in Nat /\ NumDomains <= NumThreads
  /\ Tasks \in Seq(Kinds \X Nat \X Nat)
  /\ MaxVertices \in Nat

VARIABLES
  partitions,     \* the partitions of the graph
  tasks,          \* tasks[t]: the queue of thread t
  indeces,        \* indeces[d]: the tasks submitted to domain d so far
  finished,
  main,           \* where the main thread is
  place,          \* where each thread is in execute()
  task,           \* task[t]: the task t works on
  registered      \* registered[t]: the partition t is registered with, or -1

vars == <<partitions, tasks, indeces, finished, main, place, task, registered>>

NoTask == <<"none", 0, 0>>

----------------------------------------------------------------------------
(* The tables of the constructor.                                          *)

\* The loop over the threads: the domain it is at and the threads given to it so
\* far, and of each domain its first thread and its number of threads.
TableUpTo ==
  LET table[i \in 0 .. NumThreads] ==
        IF i = 0
        THEN [domain |-> 0, counter |-> 0, of |-> <<>>,
              first |-> [d \in Domains |-> 0], number |-> [d \in Domains |-> 0]]
        ELSE LET s == table[i - 1]
                 c == s.counter + 1
                 d == s.domain
                 due == (NumThreads \div NumDomains)
                          + (IF d < NumThreads % NumDomains THEN 1 ELSE 0)
                 of == Append(s.of, d)
             IN  IF c = due
                 THEN [domain |-> d + 1, counter |-> 0, of |-> of,
                       first |-> [s.first EXCEPT ![d] = i - c],
                       number |-> [s.number EXCEPT ![d] = c]]
                 ELSE [s EXCEPT !.counter = c, !.of = of]
  IN  table

Table == TableUpTo[NumThreads]

threadToDomain == [t \in Threads |-> Table.of[t + 1]]

DomainOf(v) == GetPartition(v) \div PartitionsPerDomain

----------------------------------------------------------------------------
Init ==
  /\ partitions = InitialPartitions
  /\ tasks = [t \in Threads |-> <<>>]
  /\ indeces = [d \in Domains |-> 0]
  /\ finished = FALSE
  /\ main = "submit"
  /\ place = [t \in Threads |-> "off"]
  /\ task = [t \in Threads |-> NoTask]
  /\ registered = [t \in Threads |-> -1]

Goto(t, from, to) == place[t] = from /\ place' = [place EXCEPT ![t] = to]

\* add_node is called while the pool does not run.
AddNode ==
  /\ main = "submit"
  /\ GetN(partitions) < MaxVertices
  /\ partitions' = WithNode(partitions)
  /\ UNCHANGED <<tasks, indeces, finished, main, place, task, registered>>

Submitted == LET sum[d \in 0 .. NumDomains] == IF d = 0 THEN 0 ELSE sum[d - 1] + indeces[d - 1]
             IN  sum[NumDomains]

\* Wrong variant: partitions and domains are mixed up.
ThreadForByPartition(v) ==
  LET d == GetPartition(v) % NumDomains
  IN  Table.first[d] + (indeces[d] % Table.number[d])

\* The thread that a task with source v is given to
ThreadFor(v) ==
  LET d == DomainOf(v)
  IN  Table.first[d] + (indeces[d] % Table.number[d])

\* submit_add, submit_delete, submit_read; then start()
Submit ==
  /\ main = "submit"
  /\ IF Submitted < Len(Tasks)
     THEN LET k == Tasks[Submitted + 1]
          IN  /\ tasks' = [tasks EXCEPT ![ThreadFor(k[2])] = Append(@, k)]
              /\ indeces' = [indeces EXCEPT ![DomainOf(k[2])] = @ + 1]
              /\ UNCHANGED <<main, place>>
     ELSE /\ main' = "execute"
          /\ place' = [t \in Threads |-> "loop"]
          /\ UNCHANGED <<tasks, indeces>>
  /\ UNCHANGED <<partitions, finished, task, registered>>

\* stop() sets finished and joins the workers.
Stop ==
  /\ main = "execute" /\ place[0] = "ended"
  /\ main' = "join" /\ finished' = TRUE
  /\ UNCHANGED <<partitions, tasks, indeces, place, task, registered>>

Join ==
  /\ main = "join" /\ \A t \in Threads : place[t] = "ended"
  /\ main' = "done"
  /\ UNCHANGED <<partitions, tasks, indeces, finished, place, task, registered>>

----------------------------------------------------------------------------
(* The workers.                                                            *)

\* Wrong variant: a thread that is registered stays with its partition.
AfterTakeStays(t, par) ==
  IF registered[t] # -1 THEN "call" ELSE "register"

\* Where t goes with a task of partition par
AfterTake(t, par) ==
  IF registered[t] = par THEN "call"
  ELSE IF registered[t] # -1 THEN "unregister" ELSE "register"

Take(t) ==
  /\ place[t] = "loop"
  /\ tasks[t] # <<>>
  /\ task' = [task EXCEPT ![t] = Head(tasks[t])]
  /\ tasks' = [tasks EXCEPT ![t] = Tail(@)]
  /\ place' = [place EXCEPT ![t] = AfterTake(t, GetPartition(Head(tasks[t])[2]))]
  /\ UNCHANGED <<partitions, indeces, finished, main, registered>>

Unregister(t) ==
  /\ Goto(t, "unregister", "register")
  /\ registered' = [registered EXCEPT ![t] = -1]
  /\ UNCHANGED <<partitions, tasks, indeces, finished, main, task>>

\* The partition of the lock that t's operation uses
Par(t) == GetPartition(task[t][2])

Register(t) ==
  /\ Goto(t, "register", "call")
  /\ registered' = [registered EXCEPT ![t] = Par(t)]
  /\ UNCHANGED <<partitions, tasks, indeces, finished, main, task>>

Unlocked(t) == \A u \in Threads \ {t} : ~(place[u] = "exclusive" /\ Par(u) = Par(t))

Same == UNCHANGED <<tasks, indeces, finished, main, task, registered>>

LockShared(t) ==
  /\ task[t][1] # "read"
  /\ Goto(t, "call", "shared")
  /\ Unlocked(t)
  /\ UNCHANGED partitions /\ Same

Updated(t) ==
  LET k == task[t]
  IN  IF k[1] = "add" THEN WithEdge(partitions, k[2], k[3])
                      ELSE WithoutEdge(partitions, k[2], k[3])

\* The update is made in the shared section ...
Update(t) ==
  /\ Goto(t, "shared", "unlock")
  /\ partitions' = Updated(t)
  /\ Same

UnlockShared(t) ==
  /\ Goto(t, "unlock", "loop")
  /\ Unlocked(t)
  /\ UNCHANGED partitions /\ Same

\* ... or needs the exclusive one.
Escalate(t) ==
  /\ Goto(t, "shared", "lock")
  /\ UNCHANGED partitions /\ Same

SafePoints == {"call", "lock", "unlock"}

Lock(t) ==
  /\ Goto(t, "lock", "exclusive")
  /\ \A u \in Threads \ {t} : registered[u] = Par(t) => place[u] \in SafePoints
  /\ UNCHANGED partitions /\ Same

Unlock(t) ==
  /\ Goto(t, "exclusive", "loop")
  /\ partitions' = Updated(t)
  /\ Same

\* read_neighbourhood takes no lock.
Read(t) ==
  /\ task[t][1] = "read"
  /\ Goto(t, "call", "loop")
  /\ UNCHANGED partitions /\ Same

\* Wrong variant: an idle worker stays registered while it polls.
RestRegistered(t) ==
  /\ place[t] = "loop" /\ tasks[t] = <<>> /\ t # 0 /\ ~finished
  /\ registered[t] # -1
  /\ UNCHANGED vars

\* An idle worker unregisters and polls until finished.
Rest(t) ==
  /\ place[t] = "loop" /\ tasks[t] = <<>> /\ t # 0 /\ ~finished
  /\ registered[t] # -1
  /\ registered' = [registered EXCEPT ![t] = -1]
  /\ UNCHANGED <<partitions, tasks, indeces, finished, main, place, task>>

Leave(t) ==
  /\ Goto(t, "loop", "ended")
  /\ tasks[t] = <<>> /\ (t = 0 \/ finished)
  /\ registered' = [registered EXCEPT ![t] = -1]
  /\ UNCHANGED <<partitions, tasks, indeces, finished, main, task>>

Work(t) == \/ Take(t) \/ Unregister(t) \/ Register(t)
           \/ LockShared(t) \/ Update(t) \/ UnlockShared(t)
           \/ Escalate(t) \/ Lock(t) \/ Unlock(t)
           \/ Read(t) \/ Rest(t) \/ Leave(t)

Main == AddNode \/ Submit \/ Stop \/ Join

Next == Main \/ \E t \in Threads : Work(t)

Spec == Init /\ [][Next]_vars

\* Every thread that can take a step takes one at some time.
FairSpec == Spec /\ WF_vars(Main) /\ \A t \in Threads : WF_vars(Work(t))

----------------------------------------------------------------------------
TypeOK ==
  /\ \A p \in Partitions :
       /\ partitions[p].n \in Nat
       /\ \A e \in partitions[p].edges : e[1] \in 0 .. partitions[p].n - 1
  /\ tasks \in [Threads -> Seq(Kinds \X Nat \X Nat)]
  /\ place \in [Threads -> {"off", "loop", "unregister", "register", "call", "shared",
                            "unlock", "lock", "exclusive", "ended"}]
  /\ registered \in [Threads -> Partitions \cup {-1}]

\* Every vertex is found in the partition that holds it, also after add_node.
EveryVertexPlaced == Placed(partitions)

\* A queued task is worked on by a thread of the domain that holds its partition,
\* however the threads and the tasks are spread.
TasksInDomain ==
  \A t \in Threads : \A i \in DOMAIN tasks[t] :
    threadToDomain[t] = DomainOf(tasks[t][i][2])

\* An exclusive section of a partition overlaps no other section of it, though a
\* thread registers with one partition at a time and the lock waits for those
\* threads only that are registered with it.
WritersExclude ==
  \A t, u \in Threads :
    t # u /\ place[t] = "exclusive" /\ place[u] \in {"shared", "exclusive"}
      => Par(t) # Par(u)

\* The pool returns, so every task has been run: no thread waits for the lock of
\* one partition in favour of a thread that works on another or on none.
Terminates == <>(main = "done" /\ \A t \in Threads : tasks[t] = <<>>)

\* An update is pending from the time a thread takes it to the time it happens.
Pending(t) ==
  LET k == task[t]
      open == place[t] \in {"unregister", "register", "call", "shared", "lock", "exclusive"}
  IN  IF open /\ k[1] # "read" /\ k[2] < GetN(partitions)
      THEN [kind |-> k[1], key |-> <<k[2], k[3]>>, value |-> 1]
      ELSE [kind |-> "none"]

G == INSTANCE Graph WITH Keys <- {<<Tasks[i][2], Tasks[i][3]>> : i \in DOMAIN Tasks},
                         Values <- {1},
                         n <- GetN(partitions),
                         edges <- {e \o <<1>> : e \in AllEdges(partitions)},
                         pending <- [t \in Threads |-> Pending(t)]

\* The partitions together are one graph, as get_neighbourhood shows it, of which
\* every update changes the one edge that it names.
ImplementsGraph == G!GraphSpec
=============================================================================
