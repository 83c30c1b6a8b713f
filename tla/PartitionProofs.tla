-------------------------- MODULE PartitionProofs --------------------------
(***************************************************************************)
(* Proofs about the partitioned graph and its pool, for any number of      *)
(* vertices, domains, partitions and threads, and any tasks: get_partiton  *)
(* finds every vertex where it is; the change of registration between two  *)
(* tasks keeps the exclusive sections of every partition to itself; tasks  *)
(* stay in the domain of their partition; and the partitions together are  *)
(* the graph that one PCSR promises.                                       *)
(***************************************************************************)
EXTENDS ThreadPoolPPPCSR, Arithmetic, SequenceTheorems

Last == NumPartitions - 1

\* Only the last partition ever grows.
Sizes ==
  /\ DOMAIN partitions = Partitions
  /\ \A p \in Partitions : /\ DOMAIN partitions[p] = {"n", "edges"}
                           /\ partitions[p].n \in Int
  /\ \A p \in Partitions \ {Last} : partitions[p].n = PartitionSize

\* Where a thread is inside an operation, it is registered with the partition
\* whose lock the operation uses.
InOperation == {"call", "shared", "unlock", "lock", "exclusive"}

Registration ==
  /\ place = [t \in Threads |-> place[t]]
  /\ DOMAIN registered = Threads /\ DOMAIN task = Threads
  /\ \A t \in Threads : place[t] \in InOperation => registered[t] = Par(t)

PoolInv == Registration /\ WritersExclude

----------------------------------------------------------------------------
\* The numbers of partitions and of the vertices in one are natural numbers.
LEMMA Counts == NumPartitions \in Nat \ {0} /\ PartitionSize \in Nat
<1>1. NumPartitions \in Nat \ {0}
  BY PartitionAssumption DEF NumPartitions
<1> QED
  BY <1>1, PartitionAssumption DEF PartitionSize

\* The partitions begin at natural numbers, each one size after the one before.
LEMMA Starts ==
  /\ \A i \in Partitions : distribution[i] \in Nat
  /\ \A i \in Partitions : i + 1 \in Partitions =>
       distribution[i + 1] = distribution[i] + PartitionSize
  /\ 0 \in Partitions /\ distribution[0] = 0
<1> USE Counts
<1>1. \A i \in Partitions : i \in Nat /\ distribution[i] = i * PartitionSize
  BY DEF Partitions, distribution
<1>2. \A i, s \in Nat : (i + 1) * s = i * s + s /\ i * s \in Nat /\ 0 * s = 0
  OBVIOUS
<1> QED
  BY <1>1, <1>2 DEF Partitions

\* Partitions do not begin to the left of those before them.
LEMMA Ascending ==
  ASSUME NEW i \in Partitions, NEW j \in Partitions, i <= j
  PROVE  distribution[i] <= distribution[j]
<1> USE Counts
<1>1. i \in Nat /\ j \in Nat
  BY DEF Partitions
<1>2. \A a, b, s \in Nat : a <= b => a * s <= b * s
  <2> SUFFICES ASSUME NEW a \in Nat, NEW b \in Nat, NEW s \in Nat, a <= b
               PROVE  a * s <= b * s
    OBVIOUS
  <2>1. PICK c \in Nat : b = a + c
    BY b - a \in Nat
  <2>2. b * s = a * s + c * s /\ c * s \in Nat /\ a * s \in Nat
    BY <2>1
  <2> QED
    BY <2>2
<1>3. distribution[i] = i * PartitionSize /\ distribution[j] = j * PartitionSize
  BY DEF distribution
<1> QED
  BY <1>1, <1>2, <1>3

\* get_partiton stops at the partition in whose range a number lies, the last of
\* them having no end.
LEMMA Found ==
  ASSUME NEW p \in Partitions, NEW v \in Nat,
         distribution[p] <= v,
         p # Last => v < distribution[p + 1]
  PROVE  GetPartition(v) = p
<1> DEFINE beyond == {i \in Partitions \ {0} : distribution[i] > v}
<1>0. Partitions \subseteq Nat /\ \A i \in Partitions : distribution[i] \in Nat
  BY Starts, Counts DEF Partitions
<1>1. \A i \in beyond : i > p
  <2> SUFFICES ASSUME NEW i \in beyond, i <= p PROVE FALSE
    BY <1>0
  <2>1. distribution[i] <= distribution[p]
    BY Ascending
  <2> QED
    BY <1>0, <2>1
<1>2. CASE p = Last
  <2>1. beyond = {}
    BY <1>1, <1>2, Counts DEF Last, Partitions
  <2> QED
    BY <1>2, <2>1 DEF GetPartition, Last
<1>3. CASE p # Last
  <2>1. p + 1 \in beyond
    BY <1>0, <1>3, Counts DEF Last, Partitions
  <2>2. \A j \in beyond : p + 1 <= j
    BY <1>0, <1>1
  <2>3. (CHOOSE i \in beyond : \A j \in beyond : i <= j) = p + 1
    <3>1. \A i \in beyond : (\A j \in beyond : i <= j) => i = p + 1
      BY <1>0, <2>1, <2>2
    <3> QED
      BY <2>1, <2>2, <3>1
  <2>4. GetPartition(v) = (p + 1) - 1
    BY <2>1, <2>3 DEF GetPartition
  <2> QED
    BY <1>0, <2>4
<1> QED
  BY <1>2, <1>3

\* Partitions of the right sizes are numbered without gap or overlap.
LEMMA SizesPlace == Sizes => EveryVertexPlaced
<1> SUFFICES ASSUME Sizes, NEW p \in Partitions, NEW i \in 0 .. partitions[p].n - 1
             PROVE  GetPartition(distribution[p] + i) = p
  BY DEF EveryVertexPlaced, Placed
<1>1. partitions[p].n \in Int /\ i \in Nat /\ i < partitions[p].n
  BY DEF Sizes
<1>2. distribution[p] \in Nat
  BY Starts
<1>3. ASSUME p # Last PROVE distribution[p] + i < distribution[p + 1]
  <2>1. p + 1 \in Partitions
    BY <1>3, Counts DEF Last, Partitions
  <2>2. distribution[p + 1] = distribution[p] + PartitionSize
    BY <2>1, Starts
  <2>3. partitions[p].n = PartitionSize
    BY <1>3 DEF Sizes
  <2> QED
    BY <1>1, <1>2, <2>2, <2>3, Counts
<1> QED
  BY <1>1, <1>2, <1>3, Found

----------------------------------------------------------------------------
\* The constructor gives the partitions their sizes.
LEMMA SizesInit == Init => Sizes
<1> SUFFICES ASSUME Init PROVE Sizes
  OBVIOUS
<1>1. partitions = [i \in Partitions |-> [n |-> InitialSize(i), edges |-> {}]]
  BY DEF Init, InitialPartitions
<1>2. \A i \in Partitions : InitialSize(i) \in Int
  BY Counts, PartitionAssumption DEF InitialSize, Partitions
<1>3. \A i \in Partitions \ {Last} : InitialSize(i) = PartitionSize
  BY DEF InitialSize, Last
<1> QED
  BY <1>1, <1>2, <1>3 DEF Sizes

\* An update of an edge leaves the sizes alone.
LEMMA UpdateKeepsSizes ==
  ASSUME Sizes, NEW t, partitions' = Updated(t)
  PROVE  Sizes'
<1>1. \E q, S : partitions' = [partitions EXCEPT ![q].edges = S] \/ partitions' = partitions
  BY DEF Updated, WithEdge, WithoutEdge
<1>2. PICK q, S : partitions' = [partitions EXCEPT ![q].edges = S] \/ partitions' = partitions
  BY <1>1
<1>3. DOMAIN partitions' = Partitions
  BY <1>2 DEF Sizes
<1>4. \A p \in Partitions : /\ DOMAIN partitions'[p] = {"n", "edges"}
                           /\ partitions'[p].n = partitions[p].n
  BY <1>2 DEF Sizes
<1> QED
  BY <1>3, <1>4 DEF Sizes

\* No step changes the size of a partition but the last.
LEMMA SizesStep == Sizes /\ [Next]_vars => Sizes'
<1> SUFFICES ASSUME Sizes, [Next]_vars PROVE Sizes'
  OBVIOUS
<1>1. CASE AddNode
  <2>1. partitions' = [partitions EXCEPT ![Last].n = @ + 1]
    BY <1>1 DEF AddNode, WithNode, Last
  <2> QED
    BY <2>1, Counts DEF Sizes, Last, Partitions
<1>2. CASE partitions' = partitions
  BY <1>2 DEF Sizes
<1>3. ASSUME NEW t \in Threads, Update(t) \/ Unlock(t) PROVE Sizes'
  BY <1>3, UpdateKeepsSizes DEF Update, Unlock
<1>4. ASSUME NEW t \in Threads, Work(t) PROVE Sizes'
  BY <1>2, <1>3, <1>4 DEF Work, Take, Unregister, Register, LockShared, UnlockShared,
     Escalate, Lock, Read, Rest, Leave
<1> QED
  BY <1>1, <1>2, <1>4 DEF Next, Main, Submit, Stop, Join, vars

\* get_partiton finds every vertex that the constructor and add_node have made,
\* whatever the numbers of vertices, domains and partitions.
THEOREM EveryVertexPlacedCorrect == Spec => []EveryVertexPlaced
  BY SizesInit, SizesStep, SizesPlace, PTL DEF Spec

----------------------------------------------------------------------------
\* The pool starts with nobody in an operation.
LEMMA PoolInit == Init => PoolInv
  BY DEF Init, PoolInv, Registration, WritersExclude, InOperation

\* A step of t that leaves the task and the registration of every thread alone, and
\* ends outside of the sections or with a section that the others allow.
LEMMA Move ==
  ASSUME PoolInv, NEW t \in Threads, NEW to,
         place' = [place EXCEPT ![t] = to], UNCHANGED <<task, registered>>,
         to \in InOperation => place[t] \in InOperation,
         to = "shared" => Unlocked(t),
         to = "exclusive" =>
           \A u \in Threads \ {t} : place[u] \in {"shared", "exclusive"} => Par(u) # Par(t)
  PROVE  PoolInv'
<1> USE DEF PoolInv
<1>1. Registration'
  BY DEF Registration, Par
<1>2. \A u \in Threads : Par(u)' = Par(u)
  BY DEF Par
<1>3. \A u \in Threads : place'[u] = IF u = t THEN to ELSE place[u]
  BY DEF Registration
<1>4. WritersExclude'
  <2> SUFFICES ASSUME NEW u \in Threads, NEW w \in Threads, u # w,
                      place'[u] = "exclusive", place'[w] \in {"shared", "exclusive"}
               PROVE  Par(u) # Par(w)
    BY <1>2 DEF WritersExclude
  <2>1. CASE u # t /\ w # t
    BY <1>3, <2>1 DEF WritersExclude
  <2>2. CASE u = t
    BY <1>3, <2>2
  <2>3. CASE w = t /\ to = "shared"
    BY <1>3, <2>3 DEF Unlocked
  <2>4. CASE w = t /\ to = "exclusive"
    BY <1>3, <2>4
  <2> QED
    BY <1>3, <2>1, <2>2, <2>3, <2>4
<1> QED
  BY <1>1, <1>4

\* A step after which t is registered with the partition of its task if it goes
\* into an operation, and is in no section before or after.
LEMMA Rearrange ==
  ASSUME PoolInv, NEW t \in Threads, NEW to,
         to \notin {"shared", "exclusive"},
         place' = [place EXCEPT ![t] = to],
         \A u \in Threads \ {t} : task'[u] = task[u] /\ registered'[u] = registered[u],
         DOMAIN task' = Threads, DOMAIN registered' = Threads,
         to \in InOperation => registered'[t] = Par(t)'
  PROVE  PoolInv'
<1> USE DEF PoolInv
<1>1. \A u \in Threads : place'[u] = IF u = t THEN to ELSE place[u]
  BY DEF Registration
<1>2. \A u \in Threads \ {t} : Par(u)' = Par(u)
  BY DEF Par
<1>3. Registration'
  BY <1>1, <1>2 DEF Registration
<1>4. WritersExclude'
  BY <1>1, <1>2 DEF WritersExclude
<1> QED
  BY <1>3, <1>4

\* Every step of the pool is one of these, or enters an exclusive section: by then
\* the registered threads, so those in operations on the partition, are at safe points.
LEMMA PoolStep == PoolInv /\ [Next]_vars => PoolInv'
<1> SUFFICES ASSUME PoolInv, [Next]_vars PROVE PoolInv'
  OBVIOUS
<1> USE DEF Same, Goto
<1>1. CASE UNCHANGED <<place, task, registered>>
  BY <1>1 DEF PoolInv, Registration, WritersExclude, Par
<1>2. CASE Submit
  <2>1. CASE place' = [t \in Threads |-> "loop"] /\ UNCHANGED <<task, registered>>
    BY <2>1 DEF PoolInv, Registration, WritersExclude, InOperation
  <2> QED
    BY <1>1, <1>2, <2>1 DEF Submit
<1>3. ASSUME NEW t \in Threads, Take(t) PROVE PoolInv'
  <2> DEFINE k == Head(tasks[t])
  <2>1. /\ task' = [task EXCEPT ![t] = k] /\ UNCHANGED registered
        /\ place' = [place EXCEPT ![t] = AfterTake(t, GetPartition(k[2]))]
    BY <1>3 DEF Take
  <2>2. task'[t] = k /\ Par(t)' = GetPartition(k[2])
    BY <2>1 DEF PoolInv, Registration, Par
  <2>3. AfterTake(t, GetPartition(k[2])) \in {"call", "register", "unregister"}
    BY DEF AfterTake
  <2>4. AfterTake(t, GetPartition(k[2])) \in InOperation
          => registered[t] = GetPartition(k[2])
    BY DEF AfterTake, InOperation
  <2> QED
    BY <2>1, <2>2, <2>3, <2>4, Rearrange DEF PoolInv, Registration
<1>4. ASSUME NEW t \in Threads, Unregister(t) \/ Leave(t) PROVE PoolInv'
  <2>1. \E to \in {"register", "ended"} : place' = [place EXCEPT ![t] = to]
    BY <1>4 DEF Unregister, Leave
  <2> QED
    BY <1>4, <2>1, Rearrange DEF Unregister, Leave, PoolInv, Registration, InOperation
<1>5. ASSUME NEW t \in Threads, Register(t) PROVE PoolInv'
  <2>1. registered'[t] = Par(t)'
    BY <1>5 DEF Register, PoolInv, Registration, Par
  <2> QED
    BY <1>5, <2>1, Rearrange DEF Register, PoolInv, Registration
<1>6. ASSUME NEW t \in Threads, Rest(t) PROVE PoolInv'
  <2>1. place' = [place EXCEPT ![t] = "loop"]
    BY <1>6 DEF Rest, PoolInv, Registration
  <2> QED
    BY <1>6, <2>1, Rearrange DEF Rest, PoolInv, Registration, InOperation
<1>7. ASSUME NEW t \in Threads,
             \/ LockShared(t) \/ Update(t) \/ UnlockShared(t)
             \/ Escalate(t) \/ Unlock(t) \/ Read(t)
      PROVE  PoolInv'
  <2>1. \E to \in {"shared", "unlock", "lock", "loop"} :
          /\ place' = [place EXCEPT ![t] = to]
          /\ to = "shared" => Unlocked(t)
    BY <1>7 DEF LockShared, Update, UnlockShared, Escalate, Unlock, Read
  <2>2. place[t] \in InOperation /\ UNCHANGED <<task, registered>>
    BY <1>7 DEF LockShared, Update, UnlockShared, Escalate, Unlock, Read, InOperation
  <2> QED
    BY <2>1, <2>2, Move
<1>8. ASSUME NEW t \in Threads, Lock(t) PROVE PoolInv'
  <2>1. ASSUME NEW u \in Threads \ {t}, place[u] \in {"shared", "exclusive"}
        PROVE  Par(u) # Par(t)
    <3>1. registered[u] = Par(u)
      BY <2>1 DEF PoolInv, Registration, InOperation
    <3>2. place[u] \notin SafePoints
      BY <2>1 DEF SafePoints
    <3> QED
      BY <1>8, <3>1, <3>2 DEF Lock
  <2>2. place[t] \in InOperation /\ UNCHANGED <<task, registered>>
        /\ place' = [place EXCEPT ![t] = "exclusive"]
    BY <1>8 DEF Lock, InOperation
  <2> QED
    BY <2>1, <2>2, Move
<1>9. ASSUME NEW t \in Threads, Work(t) PROVE PoolInv'
  BY <1>3, <1>4, <1>5, <1>6, <1>7, <1>8, <1>9 DEF Work
<1> QED
  BY <1>1, <1>2, <1>9 DEF Next, Main, AddNode, Stop, Join, vars

\* Registering with one partition at a time, always that of the task at hand, is
\* enough for the locks of all partitions: an exclusive section of a partition
\* overlaps no other section of it, for any number of threads and any tasks.
THEOREM WritersExcludeCorrect == Spec => []WritersExclude
<1>1. PoolInv => WritersExclude
  BY DEF PoolInv
<1> QED
  BY <1>1, PoolInit, PoolStep, PTL DEF Spec

----------------------------------------------------------------------------
(* Types.                                                                  *)

\* The tasks there are
Items == {Tasks[i] : i \in DOMAIN Tasks}

Places == {"off", "loop", "unregister", "register", "call", "shared",
           "unlock", "lock", "exclusive", "ended"}

\* Where a thread works on a task
Working == InOperation \cup {"unregister", "register"}

\* Every edge of a partition begins at one of its vertices.
EdgesTyped ==
  \A p \in Partitions :
    /\ partitions[p].n \in Nat
    /\ \A e \in partitions[p].edges : e \in Nat \X Nat /\ e[1] < partitions[p].n

Typed ==
  /\ EdgesTyped
  /\ tasks \in [Threads -> Seq(Items)]
  /\ indeces \in [Domains -> Nat]
  /\ place \in [Threads -> Places]
  /\ registered \in [Threads -> Partitions \cup {-1}]
  /\ task \in [Threads -> Items \cup {NoTask}]
  /\ \A t \in Threads : place[t] \in Working => task[t] \in Items
  /\ main = "submit" => \A t \in Threads : place[t] = "off"

\* A task names an operation and two vertices.
LEMMA TaskTyped ==
  ASSUME NEW k \in Items
  PROVE  k \in Kinds \X Nat \X Nat /\ k[1] \in Kinds /\ k[2] \in Nat /\ k[3] \in Nat
<1>1. PICK i \in DOMAIN Tasks : k = Tasks[i]
  BY DEF Items
<1>2. Tasks \in Seq(Kinds \X Nat \X Nat)
  BY PoolAssumption
<1>3. k \in Kinds \X Nat \X Nat
  BY <1>1, <1>2
<1> QED
  BY <1>3

\* Submit hands out one of the tasks.
LEMMA NextTask ==
  ASSUME indeces \in [Domains -> Nat], Submitted < Len(Tasks), Submitted \in Nat
  PROVE  Tasks[Submitted + 1] \in Items
<1>1. Tasks \in Seq(Kinds \X Nat \X Nat) /\ Len(Tasks) \in Nat
  BY PoolAssumption
<1>2. Submitted + 1 \in 1 .. Len(Tasks) /\ DOMAIN Tasks = 1 .. Len(Tasks)
  BY <1>1
<1> QED
  BY <1>2 DEF Items

\* get_partiton returns a partition, and not one that begins beyond v.
LEMMA PartitionOf ==
  ASSUME NEW v \in Nat
  PROVE  /\ GetPartition(v) \in Partitions
         /\ distribution[GetPartition(v)] \in Nat /\ distribution[GetPartition(v)] <= v
         /\ GetPartition(v) # Last =>
              GetPartition(v) + 1 \in Partitions /\ v < distribution[GetPartition(v) + 1]
<1> DEFINE beyond == {i \in Partitions \ {0} : distribution[i] > v}
<1>1. NumPartitions \in Nat \ {0} /\ Partitions = 0 .. NumPartitions - 1 /\ Last = NumPartitions - 1
  BY Counts DEF Partitions, Last
<1>2. \A i \in Partitions : distribution[i] \in Nat /\ i \in Nat
  BY <1>1, Starts
<1>3. CASE beyond = {}
  <2>1. GetPartition(v) = Last
    BY <1>3 DEF GetPartition, Last
  <2>2. Last \in Partitions /\ (Last = 0 \/ Last \notin beyond)
    BY <1>1, <1>3
  <2>3. distribution[Last] <= v
    BY <1>2, <2>2, Starts
  <2> QED
    BY <1>2, <2>1, <2>2, <2>3
<1>4. CASE beyond # {}
  <2>1. beyond \subseteq Nat
    BY <1>2
  <2>2. \E i \in beyond : \A j \in beyond : i <= j
    BY <1>4, <2>1, LeastNat
  <2>3. PICK i : i = CHOOSE k \in beyond : \A j \in beyond : k <= j
    OBVIOUS
  <2>4. i \in beyond /\ \A j \in beyond : i <= j
    BY <2>2, <2>3
  <2>5. GetPartition(v) = i - 1
    BY <1>4, <2>3 DEF GetPartition
  <2>6. i \in Nat /\ i # 0 /\ i - 1 \in Partitions /\ (i - 1) + 1 = i /\ i \in Partitions
    BY <1>1, <2>4
  <2>7. i - 1 = 0 \/ i - 1 \notin beyond
    BY <2>4, <2>6
  <2>8. distribution[i - 1] <= v
    BY <1>2, <2>6, <2>7, Starts
  <2> QED
    BY <1>2, <2>4, <2>5, <2>6, <2>8
<1> QED
  BY <1>3, <1>4

\* The vertices of the constructor are not fewer than those before the last partition.
LEMMA InitialSizes == \A p \in Partitions : InitialSize(p) \in Nat
<1>1. NumPartitions \in Nat \ {0} /\ InitVertices \in Nat
  BY Counts, PartitionAssumption
<1>2. PartitionSize \in Nat /\ PartitionSize * NumPartitions <= InitVertices
  BY <1>1, Division DEF PartitionSize
<1>3. \A s \in Nat : \A k \in Nat \ {0} : (k - 1) * s \in Nat /\ s * k = (k - 1) * s + s
  OBVIOUS
<1>4. InitVertices - (NumPartitions - 1) * PartitionSize \in Nat
  BY <1>1, <1>2, <1>3
<1> QED
  BY <1>2, <1>4 DEF InitialSize

\* An update of an edge keeps it: an insertion checks its source.
LEMMA UpdateTyped ==
  ASSUME Sizes, EdgesTyped, NEW t, task[t] \in Items, partitions' = Updated(t)
  PROVE  EdgesTyped'
<1>1. PICK k : k = task[t]
  OBVIOUS
<1>2. k[2] \in Nat /\ k[3] \in Nat
  BY <1>1, TaskTyped
<1>3. PICK q, l : q = GetPartition(k[2]) /\ l = Local(k[2])
  OBVIOUS
<1>4. q \in Partitions /\ l \in Nat
  BY <1>2, <1>3, PartitionOf DEF Local
<1>5. DOMAIN partitions = Partitions /\ \A p \in Partitions : DOMAIN partitions[p] = {"n", "edges"}
  BY DEF Sizes
<1>6. \/ partitions' = partitions
      \/ /\ l < partitions[q].n
         /\ partitions' = [partitions EXCEPT ![q].edges = @ \cup {<<l, k[3]>>}]
      \/ partitions' = [partitions EXCEPT ![q].edges = @ \ {<<l, k[3]>>}]
  BY <1>1, <1>3 DEF Updated, WithEdge, WithoutEdge
<1>7. \A p \in Partitions :
        /\ partitions'[p].n = partitions[p].n
        /\ \A e \in partitions'[p].edges :
             \/ e \in partitions[p].edges
             \/ e = <<l, k[3]>> /\ p = q /\ l < partitions[q].n
  BY <1>4, <1>5, <1>6
<1>8. <<l, k[3]>> \in Nat \X Nat /\ <<l, k[3]>>[1] = l
  BY <1>2, <1>4
<1> QED
  BY <1>4, <1>7, <1>8 DEF EdgesTyped

\* The number of tasks submitted so far, a sum over the domains.
LEMMA SubmittedTyped ==
  ASSUME indeces \in [Domains -> Nat]
  PROVE  Submitted \in Nat
<1> DEFINE N == NumDomains
           step == [x \in (1 .. N) \X Nat |-> x[2] + indeces[x[1] - 1]]
           F(s) == [d \in 0 .. N |-> IF d = 0 THEN 0 ELSE s[d - 1] + indeces[d - 1]]
           sum == CHOOSE s : s = F(s)
<1>1. N \in Nat \ {0}
  BY PartitionAssumption
<1>2. step \in [(1 .. N) \X Nat -> Nat]
  <2>1. \A x \in (1 .. N) \X Nat : x[1] - 1 \in Domains /\ x[2] \in Nat
    BY <1>1 DEF Domains
  <2> QED
    BY <2>1
<1>3. \A i \in 1 .. N : \A x \in Nat : step[<<i, x>>] = x + indeces[i - 1]
  OBVIOUS
<1> HIDE DEF step
<1>4. PICK s : /\ s \in [0 .. N -> Nat] /\ s[0] = 0
                /\ \A i \in 1 .. N : s[i] = step[<<i, s[i - 1]>>]
  <2>1. N \in Nat /\ 0 \in Nat
    BY <1>1
  <2>2. Continued(N, Nat, 0, step)
    BY <1>2, <2>1, Recursion
  <2> QED
    BY <2>2 DEF Continued
<1>5. s = F(s)
  <2>1. ASSUME NEW d \in 0 .. N PROVE s[d] = IF d = 0 THEN 0 ELSE s[d - 1] + indeces[d - 1]
    <3>1. CASE d = 0
      BY <1>4, <3>1
    <3>2. CASE d # 0
      <4>1. d \in 1 .. N /\ d - 1 \in 0 .. N
        BY <1>1, <3>2
      <4>2. s[d - 1] \in Nat
        BY <1>4, <4>1
      <4> QED
        BY <1>3, <1>4, <3>2, <4>1, <4>2
    <3> QED
      BY <3>1, <3>2
  <2> QED
    BY <1>4, <2>1
<1>6. sum = F(sum)
  <2> HIDE DEF F
  <2> QED
    BY <1>5
<1> HIDE DEF sum
<1>7. \A d \in 0 .. N : sum[d] \in Nat
  <2> DEFINE T == {d \in 0 .. N : sum[d] \in Nat}
  <2>1. 0 \in T
    BY <1>1, <1>6
  <2>2. ASSUME NEW d \in 0 .. N - 1, d \in T PROVE d + 1 \in T
    <3>1. sum[d + 1] = sum[d] + indeces[d] /\ d \in Domains /\ d + 1 \in 0 .. N
      BY <1>1, <1>6, <2>2 DEF Domains
    <3> QED
      BY <2>2, <3>1
  <2> HIDE DEF T
  <2>3. 0 .. N \subseteq T
    BY <1>1, <2>1, <2>2, InductionUpTo
  <2> QED
    BY <2>3 DEF T
<1>8. Submitted = sum[N]
  BY DEF Submitted, sum
<1> QED
  BY <1>1, <1>7, <1>8

\* The assignments of Init have their types.
LEMMA TypedInit == Init => Typed
<1> SUFFICES ASSUME Init PROVE Typed
  OBVIOUS
<1>1. EdgesTyped
  BY InitialSizes DEF Init, InitialPartitions, EdgesTyped
<1>2. tasks \in [Threads -> Seq(Items)] /\ indeces \in [Domains -> Nat]
  BY DEF Init
<1>3. /\ place = [t \in Threads |-> "off"] /\ registered = [t \in Threads |-> -1]
      /\ task = [t \in Threads |-> NoTask]
  BY DEF Init
<1> QED
  BY <1>1, <1>2, <1>3 DEF Typed, Places, Working, InOperation

\* The main thread keeps them ...
LEMMA TypedMain ==
  ASSUME Typed, Sizes, Main
  PROVE  Typed'
<1>1. CASE AddNode
  <2>1. partitions' = [partitions EXCEPT ![Last].n = @ + 1] /\ Last \in Partitions
    BY <1>1, Counts DEF AddNode, WithNode, Last, Partitions
  <2>2. \A p \in Partitions :
          /\ partitions'[p].n = IF p = Last THEN partitions[p].n + 1 ELSE partitions[p].n
          /\ partitions'[p].edges = partitions[p].edges
    BY <2>1 DEF Sizes
  <2>3. \A p \in Partitions : partitions[p].n \in Nat
    BY DEF Typed, EdgesTyped
  <2>4. \A p \in Partitions : partitions'[p].n \in Nat /\ partitions[p].n <= partitions'[p].n
    BY <2>2, <2>3
  <2>5. EdgesTyped'
    <3> SUFFICES ASSUME NEW p \in Partitions, NEW e \in partitions[p].edges
                 PROVE  e \in Nat \X Nat /\ e[1] < partitions'[p].n
      BY <2>2, <2>4 DEF EdgesTyped
    <3>1. e \in Nat \X Nat /\ e[1] < partitions[p].n
      BY DEF Typed, EdgesTyped
    <3>2. e[1] \in Nat
      BY <3>1
    <3> QED
      BY <2>3, <2>4, <3>1, <3>2
  <2>6. UNCHANGED <<tasks, indeces, finished, main, place, task, registered>>
    BY <1>1 DEF AddNode
  <2> QED
    BY <2>5, <2>6 DEF Typed
<1>2. CASE Submit /\ Submitted < Len(Tasks)
  <2>1. PICK k : k = Tasks[Submitted + 1]
    OBVIOUS
  <2>2. k \in Items
    <3>1. Submitted \in Nat
      BY SubmittedTyped DEF Typed
    <3> QED
      BY <1>2, <2>1, <3>1, NextTask DEF Typed
  <2>3. /\ tasks' = [tasks EXCEPT ![ThreadFor(k[2])] = Append(@, k)]
        /\ indeces' = [indeces EXCEPT ![DomainOf(k[2])] = @ + 1]
        /\ UNCHANGED <<main, place, partitions, finished, task, registered>>
    BY <1>2, <2>1 DEF Submit
  <2>4. tasks' \in [Threads -> Seq(Items)]
    <3>1. \A q \in Seq(Items) : Append(q, k) \in Seq(Items)
      BY <2>2
    <3>2. PICK t : tasks' = [tasks EXCEPT ![t] = Append(@, k)]
      BY <2>3
    <3> QED
      BY <3>1, <3>2 DEF Typed
  <2>5. indeces' \in [Domains -> Nat]
    <3>1. PICK d : indeces' = [indeces EXCEPT ![d] = @ + 1]
      BY <2>3
    <3>2. indeces \in [Domains -> Nat] /\ \A e \in Domains : indeces[e] + 1 \in Nat
      BY DEF Typed
    <3> QED
      BY <3>1, <3>2
  <2>6. EdgesTyped'
    BY <2>3 DEF Typed, EdgesTyped
  <2> QED
    BY <2>3, <2>4, <2>5, <2>6 DEF Typed
<1>3. CASE Submit /\ ~(Submitted < Len(Tasks))
  <2>1. /\ UNCHANGED <<partitions, tasks, indeces, task, registered>>
        /\ main' = "execute" /\ place' = [t \in Threads |-> "loop"]
    BY <1>3 DEF Submit
  <2>2. EdgesTyped'
    BY <2>1 DEF Typed, EdgesTyped
  <2>3. place' \in [Threads -> Places] /\ \A t \in Threads : place'[t] \notin Working
    BY <2>1 DEF Places, Working, InOperation
  <2> QED
    BY <2>1, <2>2, <2>3 DEF Typed
<1>4. CASE Stop \/ Join
  BY <1>4 DEF Stop, Join, Typed, EdgesTyped
<1> QED
  BY <1>1, <1>2, <1>3, <1>4 DEF Main

\* ... and so do the workers.
LEMMA TypedWork ==
  ASSUME Typed, Sizes, NEW t \in Threads, Work(t)
  PROVE  Typed'
<1> USE DEF Same
<1>1. UNCHANGED <<indeces, main>> /\ main # "submit"
  <2>1. place[t] # "off"
    BY DEF Work, Goto, Take, Unregister, Register, LockShared, Update, UnlockShared,
       Escalate, Lock, Unlock, Read, Rest, Leave
  <2> QED
    BY <2>1 DEF Typed, Work, Take, Unregister, Register, LockShared, Update, UnlockShared,
       Escalate, Lock, Unlock, Read, Rest, Leave
<1>2. /\ indeces \in [Domains -> Nat] /\ tasks \in [Threads -> Seq(Items)]
      /\ place \in [Threads -> Places] /\ registered \in [Threads -> Partitions \cup {-1}]
      /\ task \in [Threads -> Items \cup {NoTask}] /\ EdgesTyped
      /\ \A u \in Threads : place[u] \in Working => task[u] \in Items
  BY DEF Typed
<1>3. ASSUME EdgesTyped', tasks' \in [Threads -> Seq(Items)],
             place' \in [Threads -> Places], registered' \in [Threads -> Partitions \cup {-1}],
             task' \in [Threads -> Items \cup {NoTask}],
             \A u \in Threads : place'[u] \in Working => task'[u] \in Items
      PROVE  Typed'
  BY <1>1, <1>2, <1>3 DEF Typed
<1>4. UNCHANGED partitions => EdgesTyped'
  BY <1>2 DEF EdgesTyped
<1>5. ASSUME NEW to, place' = [place EXCEPT ![t] = to], UNCHANGED <<tasks, task>>,
             to \in Places, to \in Working => place[t] \in Working
      PROVE  /\ tasks' \in [Threads -> Seq(Items)] /\ place' \in [Threads -> Places]
             /\ task' \in [Threads -> Items \cup {NoTask}]
             /\ \A u \in Threads : place'[u] \in Working => task'[u] \in Items
  <2>1. \A u \in Threads : place'[u] = IF u = t THEN to ELSE place[u]
    BY <1>2, <1>5
  <2>2. place' \in [Threads -> Places]
    BY <1>2, <1>5
  <2> QED
    BY <1>2, <1>5, <2>1, <2>2
<1>6. CASE Take(t)
  <2>1. PICK q : q = tasks[t]
    OBVIOUS
  <2>2. q \in Seq(Items) /\ q # <<>>
    BY <1>2, <1>6, <2>1 DEF Take
  <2>3. Head(q) \in Items /\ Tail(q) \in Seq(Items)
    BY <2>2
  <2>4. task' = [task EXCEPT ![t] = Head(q)] /\ tasks' = [tasks EXCEPT ![t] = Tail(q)]
        /\ UNCHANGED <<partitions, registered>>
    BY <1>6, <2>1 DEF Take
  <2>5. PICK to : place' = [place EXCEPT ![t] = to] /\ to \in {"call", "unregister", "register"}
    BY <1>6 DEF Take, AfterTake
  <2>6. task' \in [Threads -> Items \cup {NoTask}] /\ tasks' \in [Threads -> Seq(Items)]
    BY <1>2, <2>3, <2>4
  <2>7. place' \in [Threads -> Places]
    BY <1>2, <2>5 DEF Places
  <2>8. \A u \in Threads : place'[u] \in Working => task'[u] \in Items
    BY <1>2, <2>3, <2>4, <2>5
  <2> QED
    BY <1>2, <1>3, <1>4, <2>4, <2>6, <2>7, <2>8
<1>7. CASE Unregister(t) \/ Leave(t)
  <2>1. /\ UNCHANGED <<partitions, tasks, task>> /\ registered' = [registered EXCEPT ![t] = -1]
        /\ \E to \in {"register", "ended"} :
             place' = [place EXCEPT ![t] = to] /\ (to = "register" => place[t] = "unregister")
    BY <1>7 DEF Unregister, Leave, Goto
  <2>2. registered' \in [Threads -> Partitions \cup {-1}]
    BY <1>2, <2>1
  <2> QED
    BY <1>3, <1>4, <1>5, <2>1, <2>2 DEF Places, Working, InOperation
<1>8. CASE Register(t)
  <2>1. /\ UNCHANGED <<partitions, tasks, task>> /\ registered' = [registered EXCEPT ![t] = Par(t)]
        /\ place' = [place EXCEPT ![t] = "call"] /\ place[t] = "register"
    BY <1>8 DEF Register, Goto
  <2>2. task[t] \in Items
    BY <1>2, <2>1 DEF Working
  <2>3. Par(t) \in Partitions
    BY <2>2, TaskTyped, PartitionOf DEF Par
  <2>4. registered' \in [Threads -> Partitions \cup {-1}]
    BY <1>2, <2>1, <2>3
  <2> QED
    BY <1>3, <1>4, <1>5, <2>1, <2>4 DEF Places, Working, InOperation
<1>9. CASE Update(t) \/ Unlock(t)
  <2>1. /\ partitions' = Updated(t) /\ UNCHANGED <<tasks, task, registered>>
        /\ place[t] \in {"shared", "exclusive"}
        /\ \E to \in {"unlock", "loop"} : place' = [place EXCEPT ![t] = to]
    BY <1>9 DEF Update, Unlock, Goto
  <2>2. task[t] \in Items
    BY <1>2, <2>1 DEF Working, InOperation
  <2>3. EdgesTyped'
    BY <1>2, <2>1, <2>2, UpdateTyped
  <2> QED
    BY <1>2, <1>3, <1>5, <2>1, <2>3 DEF Places, Working, InOperation
<1>10. CASE LockShared(t) \/ UnlockShared(t) \/ Escalate(t) \/ Lock(t) \/ Read(t)
  <2>1. /\ UNCHANGED <<partitions, tasks, task, registered>>
        /\ place[t] \in InOperation
        /\ \E to \in {"shared", "loop", "lock", "exclusive"} : place' = [place EXCEPT ![t] = to]
    BY <1>10 DEF LockShared, UnlockShared, Escalate, Lock, Read, Goto, InOperation
  <2> QED
    BY <1>2, <1>3, <1>4, <1>5, <2>1 DEF Places, Working, InOperation
<1>11. CASE Rest(t)
  <2>1. UNCHANGED <<partitions, tasks, place, task>> /\ registered' = [registered EXCEPT ![t] = -1]
    BY <1>11 DEF Rest
  <2>2. registered' \in [Threads -> Partitions \cup {-1}]
    BY <1>2, <2>1
  <2> QED
    BY <1>2, <1>3, <1>4, <2>1, <2>2
<1> QED
  BY <1>6, <1>7, <1>8, <1>9, <1>10, <1>11 DEF Work

\* So they always hold, and only the last partition ever grows.
LEMMA TypedCorrect == Spec => [](Typed /\ Sizes)
<1>1. Typed /\ Sizes /\ [Next]_vars => Typed'
  <2> SUFFICES ASSUME Typed, Sizes, [Next]_vars PROVE Typed'
    OBVIOUS
  <2>1. CASE UNCHANGED vars
    BY <2>1 DEF vars, Typed, EdgesTyped
  <2> QED
    BY <2>1, TypedMain, TypedWork DEF Next
<1> QED
  BY <1>1, TypedInit, SizesInit, SizesStep, PTL DEF Spec

\* The types of the pool's variables; and every edge of a partition begins at a vertex
\* that the partition has, though an update computes the number of its source from
\* the ranges of the partitions, which do not bound the last one.
THEOREM PartitionTypeCorrect == Spec => []TypeOK
<1>1. Typed => TypeOK
  <2> SUFFICES ASSUME Typed PROVE TypeOK
    OBVIOUS
  <2>1. \A p \in Partitions :
         /\ partitions[p].n \in Nat
         /\ \A e \in partitions[p].edges : e[1] \in 0 .. partitions[p].n - 1
    BY DEF Typed, EdgesTyped
  <2>2. tasks \in [Threads -> Seq(Kinds \X Nat \X Nat)]
    <3>1. \A q \in Seq(Items) : q \in Seq(Kinds \X Nat \X Nat)
      BY TaskTyped
    <3> QED
      BY <3>1 DEF Typed
  <2> QED
    BY <2>1, <2>2 DEF Typed, TypeOK, Places
<1> QED
  BY <1>1, TypedCorrect, PTL

----------------------------------------------------------------------------
(* The tables of the constructor.                                          *)

\* How many threads a domain is due, and the first of them: the domains get equal
\* shares, the first ones one more.
Share == NumThreads \div NumDomains
Surplus == NumThreads % NumDomains
Due(d) == Share + (IF d < Surplus THEN 1 ELSE 0)
Begin(d) == d * Share + (IF d < Surplus THEN d ELSE Surplus)

\* The shares follow each other and are all of the threads.
LEMMA Begins ==
  /\ Begin(0) = 0 /\ Begin(NumDomains) = NumThreads
  /\ \A d \in Nat : Due(d) \in Nat \ {0} /\ Begin(d) \in Nat /\ Begin(d + 1) = Begin(d) + Due(d)
<1> DEFINE N == NumDomains
<1>1. N \in Nat \ {0} /\ NumThreads \in Nat /\ N <= NumThreads
  BY PartitionAssumption, PoolAssumption
<1>2. Share \in Nat /\ Surplus \in 0 .. N - 1 /\ NumThreads = Share * N + Surplus
  <2>1. \A x \in Nat, w \in Nat \ {0} :
          x \div w \in Int /\ x % w \in 0 .. w - 1 /\ x = (x \div w) * w + (x % w)
    OBVIOUS
  <2>2. Share \in Nat
    BY <1>1, Division DEF Share
  <2> QED
    BY <1>1, <2>1, <2>2 DEF Share, Surplus
<1>3. Share # 0
  <2>1. 1 * N <= NumThreads
    BY <1>1
  <2>2. 1 <= NumThreads \div N
    BY <1>1, <2>1, Division
  <2> QED
    BY <2>2, <1>2 DEF Share
<1>4. \A x, s \in Nat : 0 * s = 0 /\ x * s \in Nat /\ (x + 1) * s = x * s + s /\ x * s = s * x
  OBVIOUS
<1>5. 0 * Share = 0 /\ N * Share = Share * N
  BY <1>1, <1>2, <1>4
<1>6. \A d \in Nat : d * Share \in Nat /\ (d + 1) * Share = d * Share + Share
  BY <1>2, <1>4
<1>7. Begin(0) = 0 /\ Begin(N) = NumThreads
  BY <1>1, <1>2, <1>5 DEF Begin
<1>8. ASSUME NEW d \in Nat
      PROVE  Due(d) \in Nat \ {0} /\ Begin(d) \in Nat /\ Begin(d + 1) = Begin(d) + Due(d)
  <2>1. PICK a \in Nat, b \in Nat : a = d * Share /\ b = (d + 1) * Share /\ b = a + Share
    BY <1>2, <1>6
  <2>2. Begin(d) = a + (IF d < Surplus THEN d ELSE Surplus)
        /\ Begin(d + 1) = b + (IF d + 1 < Surplus THEN d + 1 ELSE Surplus)
    BY <2>1 DEF Begin
  <2> QED
    BY <1>2, <1>3, <2>1, <2>2 DEF Due
<1> QED
  BY <1>7, <1>8

\* They do not overlap.
LEMMA BeginsAscend ==
  ASSUME NEW d \in Nat, NEW e \in Nat, d < e
  PROVE  Begin(d) + Due(d) <= Begin(e)
<1> DEFINE T == {k \in 0 .. e : d + 1 <= k => Begin(d + 1) <= Begin(k)}
<1>1. \A k \in Nat : Begin(k) \in Nat /\ Begin(k + 1) = Begin(k) + Due(k) /\ Due(k) \in Nat
  BY Begins
<1>2. 0 \in T
  OBVIOUS
<1>3. ASSUME NEW k \in 0 .. e - 1, k \in T PROVE k + 1 \in T
  <2>1. Begin(k + 1) = Begin(k) + Due(k) /\ Due(k) \in Nat /\ Begin(k) \in Nat /\ Begin(d + 1) \in Nat
    BY <1>1
  <2>2. d + 1 <= k + 1 => d + 1 <= k \/ d + 1 = k + 1
    OBVIOUS
  <2>3. d + 1 <= k + 1 => Begin(d + 1) <= Begin(k + 1)
    BY <1>3, <2>1, <2>2
  <2> QED
    BY <2>3
<1> HIDE DEF T
<1>4. 0 .. e \subseteq T
  BY <1>2, <1>3, InductionUpTo
<1> QED
  BY <1>1, <1>4 DEF T

\* The loop over the threads: what it starts with, and its body for thread i - 1.
FirstRow == [domain |-> 0, counter |-> 0, of |-> <<>>,
             first |-> [d \in Domains |-> 0], number |-> [d \in Domains |-> 0]]

Row(i, s) ==
  IF s.counter + 1 = Due(s.domain)
  THEN [domain |-> s.domain + 1, counter |-> 0, of |-> Append(s.of, s.domain),
        first |-> [s.first EXCEPT ![s.domain] = i - (s.counter + 1)],
        number |-> [s.number EXCEPT ![s.domain] = s.counter + 1]]
  ELSE [s EXCEPT !.counter = s.counter + 1, !.of = Append(s.of, s.domain)]

Rows == [domain : Nat, counter : Nat, of : Seq(Nat),
         first : [Domains -> Int], number : [Domains -> Int]]

\* The body stays among the rows.
LEMMA RowTyped ==
  ASSUME NEW i \in Nat, NEW s \in Rows
  PROVE  Row(i, s) \in Rows
<1>1. /\ s.domain \in Nat /\ s.counter \in Nat /\ s.of \in Seq(Nat)
      /\ s.first \in [Domains -> Int] /\ s.number \in [Domains -> Int]
      /\ s = [domain |-> s.domain, counter |-> s.counter, of |-> s.of,
              first |-> s.first, number |-> s.number]
  BY DEF Rows
<1>2. PICK d, c, of, first, number :
         /\ d = s.domain /\ c = s.counter + 1 /\ of = Append(s.of, s.domain)
         /\ first = [s.first EXCEPT ![s.domain] = i - (s.counter + 1)]
         /\ number = [s.number EXCEPT ![s.domain] = s.counter + 1]
  OBVIOUS
<1>3. d \in Nat /\ d + 1 \in Nat /\ c \in Nat /\ i - c \in Int /\ of \in Seq(Nat)
      /\ first \in [Domains -> Int] /\ number \in [Domains -> Int]
  <2>1. d \in Nat /\ d + 1 \in Nat /\ c \in Nat /\ i - c \in Int
    BY <1>1, <1>2
  <2>2. of \in Seq(Nat)
    BY <1>1, <1>2
  <2>3. PICK f, m, x, y : f = s.first /\ m = s.number /\ x = i - (s.counter + 1) /\ y = s.counter + 1
    OBVIOUS
  <2>4. f \in [Domains -> Int] /\ m \in [Domains -> Int] /\ x \in Int /\ y \in Int
    BY <1>1, <2>3
  <2>5. first = [f EXCEPT ![d] = x] /\ number = [m EXCEPT ![d] = y]
    BY <1>2, <2>3
  <2>6. first \in [Domains -> Int] /\ number \in [Domains -> Int]
    BY <2>4, <2>5
  <2> QED
    BY <2>1, <2>2, <2>6
<1>4. Row(i, s) = IF c = Due(d)
                  THEN [domain |-> d + 1, counter |-> 0, of |-> of, first |-> first, number |-> number]
                  ELSE [domain |-> d, counter |-> c, of |-> of, first |-> s.first, number |-> s.number]
  <2>1. Row(i, s) = IF c = Due(d)
                    THEN [domain |-> d + 1, counter |-> 0, of |-> of, first |-> first, number |-> number]
                    ELSE [s EXCEPT !.counter = c, !.of = of]
    BY <1>2 DEF Row
  <2>2. [s EXCEPT !.counter = c, !.of = of] =
          [domain |-> d, counter |-> c, of |-> of, first |-> s.first, number |-> s.number]
    <3>1. PICK r : r = [s EXCEPT !.counter = c, !.of = of]
      OBVIOUS
    <3>2. r \in Rows
      BY <1>1, <1>3, <3>1 DEF Rows
    <3>3. /\ r.domain = d /\ r.counter = c /\ r.of = of
          /\ r.first = s.first /\ r.number = s.number
      BY <1>1, <1>2, <3>1
    <3>4. r = [domain |-> r.domain, counter |-> r.counter, of |-> r.of,
               first |-> r.first, number |-> r.number]
      BY <3>2 DEF Rows
    <3> QED
      BY <3>1, <3>3, <3>4
  <2> QED
    BY <2>1, <2>2
<1> QED
  BY <1>1, <1>3, <1>4, SMTT(30) DEF Rows

\* So the loop computes a row after every thread.
LEMMA TableRows ==
  /\ TableUpTo[0] = FirstRow
  /\ \A i \in 0 .. NumThreads : TableUpTo[i] \in Rows
  /\ \A i \in 1 .. NumThreads : TableUpTo[i] = Row(i, TableUpTo[i - 1])
<1> DEFINE N == NumThreads
           step == [x \in (1 .. N) \X Rows |-> Row(x[1], x[2])]
           F(s) == [i \in 0 .. N |-> IF i = 0 THEN FirstRow ELSE Row(i, s[i - 1])]
<1>1. N \in Nat
  BY PoolAssumption
<1>2. FirstRow \in Rows
  BY DEF FirstRow, Rows
<1>3. step \in [(1 .. N) \X Rows -> Rows]
  <2>1. \A x \in (1 .. N) \X Rows : Row(x[1], x[2]) \in Rows
    BY RowTyped
  <2> QED
    BY <2>1
<1>4. \A i \in 1 .. N : \A x \in Rows : step[<<i, x>>] = Row(i, x)
  OBVIOUS
<1> HIDE DEF step
<1>5. PICK s : /\ s \in [0 .. N -> Rows] /\ s[0] = FirstRow
               /\ \A i \in 1 .. N : s[i] = step[<<i, s[i - 1]>>]
  <2>1. Continued(N, Rows, FirstRow, step)
    BY <1>1, <1>2, <1>3, Recursion
  <2> QED
    BY <2>1 DEF Continued
<1>6. s = F(s)
  <2>1. ASSUME NEW i \in 0 .. N PROVE s[i] = IF i = 0 THEN FirstRow ELSE Row(i, s[i - 1])
    <3>1. CASE i = 0
      BY <1>5, <3>1
    <3>2. CASE i # 0
      <4>1. i \in 1 .. N /\ i - 1 \in 0 .. N
        BY <1>1, <3>2
      <4>2. s[i - 1] \in Rows
        BY <1>5, <4>1
      <4> QED
        BY <1>4, <1>5, <3>2, <4>1, <4>2
    <3> QED
      BY <3>1, <3>2
  <2> QED
    BY <1>5, <2>1
<1>7. TableUpTo = CHOOSE table : table = F(table)
  BY DEF TableUpTo, Row, FirstRow, Due, Share, Surplus
<1>8. TableUpTo = F(TableUpTo)
  <2> HIDE DEF F
  <2>1. PICK table : table = CHOOSE r : r = F(r)
    OBVIOUS
  <2>2. table = F(table)
    BY <1>6, <2>1
  <2> QED
    BY <1>7, <2>1, <2>2
<1>9. \A i \in 0 .. N : TableUpTo[i] = IF i = 0 THEN FirstRow ELSE Row(i, TableUpTo[i - 1])
  <2>1. PICK table : table = TableUpTo
    OBVIOUS
  <2>2. table = F(table)
    BY <1>8, <2>1
  <2>3. \A i \in 0 .. N : table[i] = IF i = 0 THEN FirstRow ELSE Row(i, table[i - 1])
    BY <2>2
  <2> QED
    BY <2>1, <2>3
<1>10. \A i \in 1 .. N : TableUpTo[i] = Row(i, TableUpTo[i - 1])
  BY <1>1, <1>9
<1>11. \A i \in 0 .. N : TableUpTo[i] \in Rows
  <2> DEFINE T == {i \in 0 .. N : TableUpTo[i] \in Rows}
  <2>1. 0 \in T
    BY <1>1, <1>2, <1>9
  <2>2. ASSUME NEW i \in 0 .. N - 1, i \in T PROVE i + 1 \in T
    <3>1. i + 1 \in 1 .. N /\ (i + 1) - 1 = i /\ i + 1 \in Nat
      BY <1>1
    <3>2. TableUpTo[i + 1] = Row(i + 1, TableUpTo[i]) /\ TableUpTo[i] \in Rows
      BY <1>10, <2>2, <3>1
    <3>3. TableUpTo[i + 1] \in Rows
      BY <3>1, <3>2, RowTyped
    <3> QED
      BY <1>1, <3>1, <3>3
  <2> HIDE DEF T
  <2>3. 0 .. N \subseteq T
    BY <1>1, <2>1, <2>2, InductionUpTo
  <2> QED
    BY <2>3 DEF T
<1> QED
  BY <1>1, <1>9, <1>10, <1>11

\* After i threads: the domains before the one at hand have their share, and the
\* domain at hand has the threads from there on.
RowInv(i, x) ==
  /\ x.domain <= NumDomains /\ i = Begin(x.domain) + x.counter /\ Len(x.of) = i
  /\ x.domain < NumDomains => x.counter < Due(x.domain)
  /\ x.domain = NumDomains => x.counter = 0
  /\ \A d \in Domains : d < x.domain => x.first[d] = Begin(d) /\ x.number[d] = Due(d)
  /\ \A d \in Nat : \A k \in Nat :
       /\ d < x.domain /\ k < Due(d) => x.of[Begin(d) + k + 1] = d
       /\ d = x.domain /\ k < x.counter => x.of[Begin(d) + k + 1] = d

\* The body of the loop keeps it.
LEMMA RowStep ==
  ASSUME NEW i \in 1 .. NumThreads, NEW s \in Rows, RowInv(i - 1, s)
  PROVE  RowInv(i, Row(i, s))
<1>1. NumDomains \in Nat \ {0} /\ NumThreads \in Nat /\ i \in Nat
  BY PartitionAssumption, PoolAssumption
<1>2. PICK d, x, of, first, number :
         d = s.domain /\ x = s.counter /\ of = s.of /\ first = s.first /\ number = s.number
  OBVIOUS
<1>3. /\ d \in Nat /\ x \in Nat /\ of \in Seq(Nat)
      /\ first \in [Domains -> Int] /\ number \in [Domains -> Int]
  BY <1>2 DEF Rows
<1>4. \A e \in Nat : Due(e) \in Nat \ {0} /\ Begin(e) \in Nat /\ Begin(e + 1) = Begin(e) + Due(e)
  BY Begins
<1>5. /\ d <= NumDomains /\ i - 1 = Begin(d) + x /\ Len(of) = i - 1
      /\ d < NumDomains => x < Due(d)
      /\ d = NumDomains => x = 0
      /\ \A e \in Domains : e < d => first[e] = Begin(e) /\ number[e] = Due(e)
      /\ \A e \in Nat : \A k \in Nat :
           /\ e < d /\ k < Due(e) => of[Begin(e) + k + 1] = e
           /\ e = d /\ k < x => of[Begin(e) + k + 1] = e
  BY <1>2 DEF RowInv
<1>6. d < NumDomains /\ x < Due(d) /\ d \in Domains
  <2>1. d # NumDomains
    <3>1. Begin(NumDomains) = NumThreads
      BY Begins
    <3> QED
      BY <1>1, <1>3, <1>5, <3>1
  <2> QED
    BY <1>1, <1>3, <1>5, <2>1 DEF Domains
<1>7. PICK all : all = Append(of, d)
  OBVIOUS
<1>8. Len(all) = i /\ all[i] = d /\ \A j \in 1 .. i - 1 : all[j] = of[j]
  <2>1. Len(all) = Len(of) + 1 /\ all[Len(of) + 1] = d /\ \A j \in 1 .. Len(of) : all[j] = of[j]
    BY <1>3, <1>7
  <2> QED
    BY <1>1, <1>5, <2>1
<1>9. ASSUME NEW e \in Nat, NEW k \in Nat, e < d, k < Due(e) PROVE all[Begin(e) + k + 1] = e
  <2>1. Begin(e) + Due(e) <= Begin(d)
    BY <1>3, <1>9, BeginsAscend
  <2>2. Begin(e) + k + 1 \in 1 .. i - 1
    <3>1. PICK b \in Nat, u \in Nat, c \in Nat : b = Begin(e) /\ u = Due(e) /\ c = Begin(d)
      BY <1>3, <1>4
    <3>2. i - 1 = c + x /\ b + u <= c /\ k < u
      BY <1>5, <1>9, <2>1, <3>1
    <3>3. b + k + 1 \in 1 .. i - 1
      BY <1>1, <1>3, <3>2
    <3> QED
      BY <3>1, <3>3
  <2> QED
    BY <1>5, <1>8, <1>9, <2>2
<1>10. ASSUME NEW k \in Nat, k < x + 1 PROVE all[Begin(d) + k + 1] = d
  <2>1. Begin(d) \in Nat
    BY <1>3, <1>4
  <2>2. CASE k = x
    <3>1. Begin(d) + k + 1 = i
      BY <1>1, <1>3, <1>5, <2>1, <2>2
    <3> QED
      BY <1>8, <3>1
  <2>3. CASE k < x
    <3>1. Begin(d) + k + 1 \in 1 .. i - 1
      BY <1>1, <1>3, <1>5, <2>1, <2>3, SMTT(30)
    <3> QED
      BY <1>3, <1>5, <1>8, <2>3, <3>1
  <2> QED
    BY <1>3, <1>10, <2>2, <2>3
<1>11. Begin(d) \in Nat /\ Due(d) \in Nat /\ Begin(d + 1) = Begin(d) + Due(d) /\ d + 1 \in Nat
  <2>1. PICK e \in Nat : e = d
    BY <1>3
  <2>2. Begin(e) \in Nat /\ Due(e) \in Nat /\ Begin(e + 1) = Begin(e) + Due(e)
    BY <1>4
  <2> QED
    BY <2>1, <2>2
<1>12. PICK r : r = Row(i, s)
  OBVIOUS
<1>13. CASE x + 1 = Due(d)
  <2>1. PICK f, m : f = [first EXCEPT ![d] = i - (x + 1)] /\ m = [number EXCEPT ![d] = x + 1]
    OBVIOUS
  <2>2. r = [domain |-> d + 1, counter |-> 0, of |-> all, first |-> f, number |-> m]
    BY <1>2, <1>7, <1>12, <1>13, <2>1 DEF Row
  <2>3. r.domain = d + 1 /\ r.counter = 0 /\ r.of = all /\ r.first = f /\ r.number = m
    BY <2>2
  <2>4. i - (x + 1) = Begin(d) /\ i = Begin(d + 1) + 0
    <3>1. PICK b, u, c : /\ b \in Nat /\ u \in Nat /\ c \in Nat
                       /\ b = Begin(d) /\ u = Due(d) /\ c = Begin(d + 1)
      <4>1. Begin(d + 1) \in Nat
        BY <1>11
      <4> QED
        BY <1>11, <4>1
    <3>2. i - 1 = b + x /\ x + 1 = u /\ c = b + u
      BY <1>5, <1>11, <1>13, <3>1
    <3>3. i - (x + 1) = b /\ i = c + 0
      BY <1>1, <1>3, <3>1, <3>2, SMTT(30)
    <3> QED
      BY <3>1, <3>3
  <2>5. \A e \in Domains : e < d + 1 => f[e] = Begin(e) /\ m[e] = Due(e)
    <3> SUFFICES ASSUME NEW e \in Domains, e < d + 1 PROVE f[e] = Begin(e) /\ m[e] = Due(e)
      OBVIOUS
    <3>1. CASE e = d
      BY <1>3, <1>6, <1>13, <2>1, <2>4, <3>1
    <3>2. CASE e # d
      <4>1. e < d
        BY <1>1, <1>3, <3>2 DEF Domains
      <4> QED
        BY <1>3, <1>5, <2>1, <3>2, <4>1
    <3> QED
      BY <3>1, <3>2
  <2>6. \A e \in Nat : \A k \in Nat : e < d + 1 /\ k < Due(e) => all[Begin(e) + k + 1] = e
    <3> SUFFICES ASSUME NEW e \in Nat, NEW k \in Nat, e < d + 1, k < Due(e)
                 PROVE  all[Begin(e) + k + 1] = e
      OBVIOUS
    <3>1. CASE e = d
      BY <1>10, <1>13, <3>1
    <3>2. CASE e < d
      BY <1>9, <3>2
    <3> QED
      BY <1>3, <3>1, <3>2
  <2>7. /\ d + 1 <= NumDomains /\ 0 < Due(d + 1) /\ \A k \in Nat : ~(k < 0)
    <3>1. PICK e \in Nat : e = d + 1
      BY <1>11
    <3>2. 0 < Due(e)
      BY <1>4
    <3> QED
      BY <1>1, <1>3, <1>6, <3>1, <3>2
  <2> QED
    BY <1>8, <1>12, <2>3, <2>4, <2>5, <2>6, <2>7 DEF RowInv
<1>14. CASE x + 1 # Due(d)
  <2>1. r = [s EXCEPT !.counter = x + 1, !.of = all]
    BY <1>2, <1>7, <1>12, <1>14 DEF Row
  <2>2. r.domain = d /\ r.counter = x + 1 /\ r.of = all /\ r.first = first /\ r.number = number
    BY <1>2, <2>1 DEF Rows
  <2>3. i = Begin(d) + (x + 1) /\ x + 1 < Due(d) /\ d # NumDomains /\ d <= NumDomains
    <3>1. PICK b \in Nat, u \in Nat : b = Begin(d) /\ u = Due(d)
      BY <1>11
    <3>2. i - 1 = b + x /\ x + 1 # u /\ x < u
      BY <1>5, <1>6, <1>14, <3>1
    <3>3. i = b + (x + 1) /\ x + 1 < u
      BY <1>1, <1>3, <3>2
    <3> QED
      BY <1>1, <1>3, <1>6, <3>1, <3>3
  <2> QED
    BY <1>5, <1>8, <1>9, <1>10, <1>12, <2>2, <2>3 DEF RowInv
<1> QED
  BY <1>13, <1>14

\* The constructor's tables, for any number of domains and of threads: every domain
\* has threads, and threadToDomain names it for each of them.
THEOREM TableCorrect ==
  \A d \in Domains :
    /\ Table.first[d] = Begin(d) /\ Table.number[d] = Due(d)
    /\ \A k \in 0 .. Due(d) - 1 :
         Begin(d) + k \in Threads /\ threadToDomain[Begin(d) + k] = d
<1> DEFINE N == NumThreads
<1>1. NumDomains \in Nat \ {0} /\ N \in Nat
  BY PartitionAssumption, PoolAssumption
<1>2. \A i \in 0 .. N : RowInv(i, TableUpTo[i])
  <2> DEFINE T == {i \in 0 .. N : RowInv(i, TableUpTo[i])}
  <2>1. 0 \in T
    <3>1. PICK r : r = FirstRow
      OBVIOUS
    <3>2. r.domain = 0 /\ r.counter = 0 /\ r.of = <<>>
      BY <3>1 DEF FirstRow
    <3>3. 0 < Due(0) /\ Begin(0) = 0 /\ Due(0) \in Nat
      BY Begins
    <3>4. RowInv(0, r)
      BY <1>1, <3>2, <3>3 DEF RowInv, Domains
    <3> QED
      BY <1>1, <3>1, <3>4, TableRows
  <2>2. ASSUME NEW i \in 0 .. N - 1, i \in T PROVE i + 1 \in T
    <3>1. i + 1 \in 1 .. N /\ (i + 1) - 1 = i /\ i \in 0 .. N
      BY <1>1
    <3>2. PICK s : s = TableUpTo[i]
      OBVIOUS
    <3>3. s \in Rows /\ RowInv((i + 1) - 1, s)
      BY <2>2, <3>1, <3>2, TableRows
    <3>4. RowInv(i + 1, Row(i + 1, s))
      BY <3>1, <3>3, RowStep
    <3>5. TableUpTo[i + 1] = Row(i + 1, s)
      BY <3>1, <3>2, TableRows
    <3> QED
      BY <1>1, <3>1, <3>4, <3>5
  <2> HIDE DEF T
  <2>3. 0 .. N \subseteq T
    BY <1>1, <2>1, <2>2, InductionUpTo
  <2> QED
    BY <2>3 DEF T
<1>3. PICK x : x = Table
  OBVIOUS
<1>4. x \in Rows /\ RowInv(N, x)
  BY <1>1, <1>2, <1>3, TableRows DEF Table
<1>5. x.domain \in Nat /\ x.counter \in Nat
  BY <1>4 DEF Rows
<1>6. x.domain = NumDomains
  <2> SUFFICES ASSUME x.domain # NumDomains PROVE FALSE
    OBVIOUS
  <2>1. x.domain < NumDomains /\ x.counter < Due(x.domain) /\ N = Begin(x.domain) + x.counter
    BY <1>1, <1>4, <1>5 DEF RowInv
  <2>2. Begin(x.domain) + Due(x.domain) <= Begin(NumDomains) /\ Begin(NumDomains) = N
    BY <1>1, <1>5, <2>1, BeginsAscend, Begins
  <2>3. Begin(x.domain) \in Nat /\ Due(x.domain) \in Nat
    BY <1>5, Begins
  <2> QED
    BY <1>1, <1>5, <2>1, <2>2, <2>3
<1>7. ASSUME NEW d \in Domains
      PROVE  x.first[d] = Begin(d) /\ x.number[d] = Due(d)
  BY <1>1, <1>4, <1>6 DEF RowInv, Domains
<1>8. ASSUME NEW d \in Domains, NEW k \in 0 .. Due(d) - 1
      PROVE  Begin(d) + k \in Threads /\ threadToDomain[Begin(d) + k] = d
  <2>1. d \in Nat /\ d < NumDomains
    BY <1>1 DEF Domains
  <2>2. Begin(d) \in Nat /\ Due(d) \in Nat /\ k \in Nat /\ k < Due(d)
    BY <2>1, Begins
  <2>3. Begin(d) + Due(d) <= N
    BY <1>1, <2>1, BeginsAscend, Begins
  <2>4. Begin(d) + k \in Threads
    BY <1>1, <2>2, <2>3 DEF Threads
  <2>5. x.of[Begin(d) + k + 1] = d
    BY <1>4, <1>6, <2>1, <2>2 DEF RowInv
  <2> QED
    BY <1>3, <2>4, <2>5 DEF threadToDomain
<1> QED
  BY <1>3, <1>7, <1>8

\* Every vertex is in some domain, and the thread that its task is given to belongs to it.
LEMMA ThreadOf ==
  ASSUME Typed, NEW v \in Nat
  PROVE  /\ DomainOf(v) \in Domains
         /\ ThreadFor(v) \in Threads /\ threadToDomain[ThreadFor(v)] = DomainOf(v)
<1>1. PICK p : p = GetPartition(v)
  OBVIOUS
<1>2. /\ NumDomains \in Nat \ {0} /\ PartitionsPerDomain \in Nat \ {0}
      /\ p \in Nat /\ p < NumDomains * PartitionsPerDomain
  <2>1. p \in Partitions
    BY <1>1, PartitionOf
  <2>2. NumPartitions \in Nat
    BY Counts
  <2>3. p \in Nat /\ p < NumPartitions
    BY <2>1, <2>2 DEF Partitions
  <2> QED
    BY <2>3, PartitionAssumption DEF NumPartitions
<1>3. p \div PartitionsPerDomain \in Nat /\ p \div PartitionsPerDomain < NumDomains
  BY <1>2, Division
<1>4. PICK d \in Domains : d = DomainOf(v)
  BY <1>1, <1>2, <1>3 DEF DomainOf, Domains
<1>5. Table.first[d] = Begin(d) /\ Table.number[d] = Due(d)
      /\ \A k \in 0 .. Due(d) - 1 :
           Begin(d) + k \in Threads /\ threadToDomain[Begin(d) + k] = d
  BY TableCorrect
<1>6. PICK k : k = indeces[d] % Due(d)
  OBVIOUS
<1>7. k \in 0 .. Due(d) - 1
  <2>1. d \in Nat
    BY <1>2 DEF Domains
  <2>2. PICK u \in Nat \ {0}, n \in Nat : u = Due(d) /\ n = indeces[d]
    BY <2>1, Begins DEF Typed
  <2>3. n % u \in 0 .. u - 1
    OBVIOUS
  <2> QED
    BY <1>6, <2>2, <2>3
<1>8. ThreadFor(v) = Begin(d) + k
  BY <1>4, <1>5, <1>6 DEF ThreadFor
<1> QED
  BY <1>4, <1>5, <1>7, <1>8

\* A task is put into the queue of such a thread, and leaves it only for that thread.
LEMMA DomainStep == Typed /\ TasksInDomain /\ [Next]_vars => TasksInDomain'
<1> SUFFICES ASSUME Typed, TasksInDomain, [Next]_vars PROVE TasksInDomain'
  OBVIOUS
<1>1. \A v : DomainOf(v)' = DomainOf(v)
  BY DEF DomainOf, GetPartition, distribution
<1>2. \A t \in Threads : threadToDomain[t]' = threadToDomain[t]
  BY DEF threadToDomain
<1>3. CASE UNCHANGED tasks
  BY <1>1, <1>2, <1>3 DEF TasksInDomain
<1>4. ASSUME NEW t \in Threads, NEW q \in Seq(Items), tasks' = [tasks EXCEPT ![t] = q],
             \A i \in DOMAIN q : threadToDomain[t] = DomainOf(q[i][2])
      PROVE  TasksInDomain'
  <2>1. \A u \in Threads : tasks'[u] = IF u = t THEN q ELSE tasks[u]
    BY <1>4 DEF Typed
  <2>2. ASSUME NEW u \in Threads, NEW i \in DOMAIN tasks'[u]
        PROVE  (threadToDomain[u] = DomainOf(tasks[u][i][2]))'
    <3>1. threadToDomain[u] = DomainOf(tasks'[u][i][2])
      <4>1. CASE u = t
        BY <1>4, <2>1, <2>2, <4>1
      <4>2. CASE u # t
        BY <2>1, <2>2, <4>2 DEF TasksInDomain
      <4> QED
        BY <4>1, <4>2
    <3> QED
      BY <3>1 DEF threadToDomain, DomainOf, GetPartition, distribution
  <2> QED
    BY <2>2 DEF TasksInDomain
<1>5. CASE Submit /\ Submitted < Len(Tasks)
  <2>1. PICK k : k = Tasks[Submitted + 1]
    OBVIOUS
  <2>2. k \in Items
    <3>1. Submitted \in Nat
      BY SubmittedTyped DEF Typed
    <3> QED
      BY <1>5, <2>1, <3>1, NextTask DEF Typed
  <2>3. PICK t \in Threads : t = ThreadFor(k[2]) /\ threadToDomain[t] = DomainOf(k[2])
    BY <2>2, TaskTyped, ThreadOf
  <2>4. PICK o : o = tasks[t]
    OBVIOUS
  <2>5. o \in Seq(Items) /\ \A i \in DOMAIN o : threadToDomain[t] = DomainOf(o[i][2])
    BY <2>4 DEF Typed, TasksInDomain
  <2>6. PICK q : q = Append(o, k)
    OBVIOUS
  <2>7. q \in Seq(Items) /\ \A i \in DOMAIN q : (i \in DOMAIN o /\ q[i] = o[i]) \/ q[i] = k
    <3>1. q \in Seq(Items) /\ Len(q) = Len(o) + 1 /\ q[Len(o) + 1] = k
          /\ \A i \in 1 .. Len(o) : q[i] = o[i]
      BY <2>2, <2>5, <2>6
    <3>2. DOMAIN q = 1 .. Len(q) /\ DOMAIN o = 1 .. Len(o) /\ Len(o) \in Nat
      BY <2>5, <3>1
    <3> QED
      BY <3>1, <3>2
  <2>8. \A i \in DOMAIN q : threadToDomain[t] = DomainOf(q[i][2])
    BY <2>3, <2>5, <2>7
  <2>9. tasks' = [tasks EXCEPT ![t] = q]
    BY <1>5, <2>1, <2>3, <2>4, <2>6 DEF Submit
  <2> QED
    BY <1>4, <2>7, <2>8, <2>9
<1>6. ASSUME NEW t \in Threads, Take(t) PROVE TasksInDomain'
  <2>1. PICK o, q : o = tasks[t] /\ q = Tail(o)
    OBVIOUS
  <2>2. o \in Seq(Items) /\ o # <<>> /\ \A i \in DOMAIN o : threadToDomain[t] = DomainOf(o[i][2])
    BY <1>6, <2>1 DEF Typed, TasksInDomain, Take
  <2>3. q \in Seq(Items) /\ \A i \in DOMAIN q : i + 1 \in DOMAIN o /\ q[i] = o[i + 1]
    <3>1. q \in Seq(Items) /\ Len(o) \in Nat /\ Len(q) = Len(o) - 1
          /\ \A i \in 1 .. Len(q) : q[i] = o[i + 1]
      BY <2>1, <2>2
    <3>2. DOMAIN q = 1 .. Len(q) /\ DOMAIN o = 1 .. Len(o)
      BY <2>2, <3>1
    <3> QED
      BY <3>1, <3>2
  <2>4. \A i \in DOMAIN q : threadToDomain[t] = DomainOf(q[i][2])
    BY <2>2, <2>3
  <2>5. tasks' = [tasks EXCEPT ![t] = q]
    BY <1>6, <2>1 DEF Take
  <2> QED
    BY <1>4, <2>3, <2>4, <2>5
<1>7. ASSUME NEW t \in Threads, Work(t) PROVE TasksInDomain'
  BY <1>3, <1>6, <1>7 DEF Work, Unregister, Register, LockShared, Update, UnlockShared,
     Escalate, Lock, Unlock, Read, Rest, Leave, Same
<1> QED
  BY <1>3, <1>5, <1>7 DEF Next, Main, AddNode, Submit, Stop, Join, vars

\* A task is worked on by a thread of the domain that holds the partition of its
\* source, for any number of threads, domains and partitions, also when the threads
\* cannot be divided evenly and after add_node.
THEOREM TasksInDomainCorrect == Spec => []TasksInDomain
<1>1. Init => TasksInDomain
  BY DEF Init, TasksInDomain
<1> QED
  BY <1>1, DomainStep, TypedCorrect, PTL DEF Spec

----------------------------------------------------------------------------
(* One graph.                                                              *)

\* The numbers of vertices of the partitions ps are those of the constructor and of
\* add_node, and their edges begin at their vertices.
Graphs(ps) ==
  /\ DOMAIN ps = Partitions
  /\ \A p \in Partitions :
       /\ DOMAIN ps[p] = {"n", "edges"}
       /\ ps[p].n \in Nat
       /\ \A e \in ps[p].edges : e \in Nat \X Nat /\ e[1] < ps[p].n
  /\ \A p \in Partitions \ {Last} : ps[p].n = PartitionSize

\* An update in progress is no reading task.
Updates ==
  \A t \in Threads : place[t] \in {"shared", "unlock", "lock", "exclusive"} => task[t][1] # "read"

\* get_n is the number of the first vertex behind the last partition.
LEMMA Total ==
  ASSUME NEW ps, Graphs(ps)
  PROVE  GetN(ps) \in Nat /\ GetN(ps) = distribution[Last] + ps[Last].n
<1> DEFINE step == [x \in (1 .. Last) \X Nat |-> x[2] + ps[x[1]].n]
           F(s) == [i \in Partitions |-> IF i = 0 THEN ps[0].n ELSE s[i - 1] + ps[i].n]
           sum == CHOOSE s : s = F(s)
<1>1. Last \in Nat /\ Partitions = 0 .. Last /\ Last = NumPartitions - 1 /\ 0 \in Partitions
  BY Counts DEF Partitions, Last
<1>2. \A p \in Partitions : ps[p].n \in Nat
  BY DEF Graphs
<1>3. step \in [(1 .. Last) \X Nat -> Nat]
  BY <1>1, <1>2
<1>4. \A i \in 1 .. Last : \A x \in Nat : step[<<i, x>>] = x + ps[i].n
  OBVIOUS
<1> HIDE DEF step
<1>5. PICK s : /\ s \in [0 .. Last -> Nat] /\ s[0] = ps[0].n
                /\ \A i \in 1 .. Last : s[i] = step[<<i, s[i - 1]>>]
  <2>1. ps[0].n \in Nat
    BY <1>1, <1>2
  <2>2. Continued(Last, Nat, ps[0].n, step)
    BY <1>1, <1>3, <2>1, Recursion
  <2> QED
    BY <2>2 DEF Continued
<1>6. s = F(s)
  <2>1. ASSUME NEW i \in Partitions PROVE s[i] = IF i = 0 THEN ps[0].n ELSE s[i - 1] + ps[i].n
    <3>1. CASE i = 0
      BY <1>5, <3>1
    <3>2. CASE i # 0
      <4>1. i \in 1 .. Last /\ i - 1 \in 0 .. Last
        BY <1>1, <3>2
      <4>2. s[i - 1] \in Nat
        BY <1>5, <4>1
      <4> QED
        BY <1>4, <1>5, <3>2, <4>1, <4>2
    <3> QED
      BY <3>1, <3>2
  <2> QED
    BY <1>1, <1>5, <2>1
<1>7. sum = F(sum)
  <2> HIDE DEF F
  <2> QED
    BY <1>6
<1> HIDE DEF sum
<1>8. \A i \in Partitions : sum[i] = distribution[i] + ps[i].n
  <2> DEFINE T == {i \in 0 .. Last : sum[i] = distribution[i] + ps[i].n}
  <2>1. 0 \in T
    BY <1>1, <1>2, <1>7, Starts
  <2>2. ASSUME NEW i \in 0 .. Last - 1, i \in T PROVE i + 1 \in T
    <3>1. i \in Partitions /\ i + 1 \in Partitions /\ i # Last /\ i + 1 # 0 /\ (i + 1) - 1 = i
      BY <1>1
    <3>2. sum[i + 1] = sum[i] + ps[i + 1].n
      BY <1>7, <3>1
    <3>3. distribution[i + 1] = distribution[i] + PartitionSize /\ distribution[i] \in Nat
      BY <3>1, Starts
    <3>4. ps[i].n = PartitionSize
      BY <3>1 DEF Graphs
    <3> QED
      BY <1>1, <1>2, <2>2, <3>1, <3>2, <3>3, <3>4, Counts
  <2> HIDE DEF T
  <2>3. 0 .. Last \subseteq T
    BY <1>1, <2>1, <2>2, InductionUpTo
  <2> QED
    BY <1>1, <2>3 DEF T
<1>9. GetN(ps) = sum[Last]
  BY DEF GetN, VerticesUpTo, sum, Last
<1> QED
  BY <1>1, <1>2, <1>8, <1>9, Starts

\* A number is that of a vertex of the graph if and only if the partition it is
\* looked up in has the vertex.
LEMMA VertexOf ==
  ASSUME NEW ps, Graphs(ps), NEW v \in Nat
  PROVE  /\ Local(v) \in Nat
         /\ v < GetN(ps) <=> Local(v) < ps[GetPartition(v)].n
<1>1. PICK q : q = GetPartition(v)
  OBVIOUS
<1>2. /\ q \in Partitions /\ distribution[q] \in Nat /\ distribution[q] <= v
      /\ q # Last => q + 1 \in Partitions /\ v < distribution[q + 1]
  BY <1>1, PartitionOf
<1>3. Local(v) = v - distribution[q]
  BY <1>1 DEF Local
<1>4. GetN(ps) = distribution[Last] + ps[Last].n /\ Last \in Partitions
      /\ ps[Last].n \in Nat /\ distribution[Last] \in Nat
  <2>1. Last \in Partitions
    BY Counts DEF Last, Partitions
  <2> QED
    BY <2>1, Total, Starts DEF Graphs
<1>5. CASE q = Last
  BY <1>1, <1>2, <1>3, <1>4, <1>5
<1>6. CASE q # Last
  <2>1. distribution[q + 1] = distribution[q] + PartitionSize /\ ps[q].n = PartitionSize
        /\ distribution[q + 1] \in Nat
    BY <1>2, <1>6, Starts DEF Graphs
  <2>2. q + 1 <= Last
    BY <1>2, <1>6, Counts DEF Partitions, Last
  <2>3. distribution[q + 1] <= distribution[Last]
    BY <1>2, <1>4, <1>6, <2>2, Ascending
  <2> QED
    BY <1>1, <1>2, <1>3, <1>4, <1>6, <2>1, <2>3, Counts
<1> QED
  BY <1>5, <1>6

\* Two vertices do not share a place in a partition.
LEMMA Different ==
  ASSUME NEW v \in Nat, NEW w \in Nat,
         GetPartition(v) = GetPartition(w), Local(v) = Local(w)
  PROVE  v = w
<1>1. distribution[GetPartition(v)] \in Nat
  BY PartitionOf
<1> QED
  BY <1>1 DEF Local

\* The edges of the graph are those of the partitions, their sources numbered on
\* from partition to partition.
LEMMA EdgeOf ==
  ASSUME NEW ps, Graphs(ps), NEW s, NEW d
  PROVE  <<s, d>> \in AllEdges(ps) <=>
           s \in Nat /\ s < GetN(ps) /\ <<Local(s), d>> \in ps[GetPartition(s)].edges
<1>1. GetN(ps) \in Nat
  BY Total
<1>2. \A z : z \in 0 .. GetN(ps) - 1 <=> z \in Nat /\ z < GetN(ps)
  BY <1>1
<1>3. ASSUME NEW z \in Nat
      PROVE  d \in GetNeighbourhood(ps, z) <=> <<Local(z), d>> \in ps[GetPartition(z)].edges
  <2>1. GetPartition(z) \in Partitions
    BY PartitionOf
  <2>2. \A e \in ps[GetPartition(z)].edges : e = <<e[1], e[2]>>
    BY <2>1 DEF Graphs
  <2> QED
    BY <2>2 DEF GetNeighbourhood
<1>4. <<s, d>> \in AllEdges(ps) <=> s \in 0 .. GetN(ps) - 1 /\ d \in GetNeighbourhood(ps, s)
  BY DEF AllEdges
<1> QED
  BY <1>2, <1>3, <1>4

\* They are pairs of numbers.
LEMMA EdgePairs ==
  ASSUME NEW ps, Graphs(ps), NEW e \in AllEdges(ps)
  PROVE  e \in Nat \X Nat /\ e = <<e[1], e[2]>>
<1>1. PICK z \in 0 .. GetN(ps) - 1 : e \in {z} \X GetNeighbourhood(ps, z)
  BY DEF AllEdges
<1>2. z \in Nat
  BY <1>1, Total
<1>3. GetPartition(z) \in Partitions
  BY <1>2, PartitionOf
<1>4. GetNeighbourhood(ps, z) \subseteq Nat
  BY <1>3 DEF GetNeighbourhood, Graphs
<1> QED
  BY <1>1, <1>2, <1>4

\* An update changes the edges of one partition, by one edge.
LEMMA Changed ==
  ASSUME NEW ps, Graphs(ps), NEW qs, NEW v \in Nat, NEW d \in Nat,
         qs \in {WithEdge(ps, v, d), WithoutEdge(ps, v, d)}
  PROVE  /\ Graphs(qs) /\ GetN(qs) = GetN(ps)
         /\ \A p \in Partitions : \A a, b :
              ~(p = GetPartition(v) /\ a = Local(v) /\ b = d)
                => (<<a, b>> \in qs[p].edges <=> <<a, b>> \in ps[p].edges)
         /\ qs = WithEdge(ps, v, d) /\ v < GetN(ps)
              => <<Local(v), d>> \in qs[GetPartition(v)].edges
         /\ qs = WithEdge(ps, v, d) /\ ~(v < GetN(ps)) => qs = ps
         /\ qs = WithoutEdge(ps, v, d) => <<Local(v), d>> \notin qs[GetPartition(v)].edges
<1>1. PICK q, l : q = GetPartition(v) /\ l = Local(v)
  OBVIOUS
<1>2. q \in Partitions /\ l \in Nat /\ (v < GetN(ps) <=> l < ps[q].n)
  BY <1>1, PartitionOf, VertexOf
<1>3. DOMAIN ps = Partitions /\ \A p \in Partitions : DOMAIN ps[p] = {"n", "edges"}
  BY DEF Graphs
<1>4. WithEdge(ps, v, d) = IF l < ps[q].n
                           THEN [ps EXCEPT ![q].edges = @ \cup {<<l, d>>}] ELSE ps
  BY <1>1 DEF WithEdge
<1>5. WithoutEdge(ps, v, d) = [ps EXCEPT ![q].edges = @ \ {<<l, d>>}]
  BY <1>1 DEF WithoutEdge
<1>6. ASSUME NEW S, qs = [ps EXCEPT ![q].edges = S]
      PROVE  /\ DOMAIN qs = Partitions
             /\ \A p \in Partitions : /\ DOMAIN qs[p] = {"n", "edges"} /\ qs[p].n = ps[p].n
                                      /\ qs[p].edges = IF p = q THEN S ELSE ps[p].edges
  BY <1>2, <1>3, <1>6
<1>7. ASSUME NEW S, qs = [ps EXCEPT ![q].edges = S],
             \A e \in S : e \in ps[q].edges \/ (e = <<l, d>> /\ l < ps[q].n)
      PROVE  Graphs(qs) /\ GetN(qs) = GetN(ps)
  <2>1. Graphs(qs)
    <3>1. <<l, d>> \in Nat \X Nat /\ <<l, d>>[1] = l
      BY <1>2
    <3> QED
      BY <1>2, <1>6, <1>7, <3>1 DEF Graphs
  <2>2. qs[Last].n = ps[Last].n
    <3>1. Last \in Partitions
      BY Counts DEF Last, Partitions
    <3> QED
      BY <1>6, <1>7, <3>1
  <2> QED
    BY <2>1, <2>2, Total
<1>8. ASSUME qs = WithoutEdge(ps, v, d) PROVE <<l, d>> \notin qs[q].edges
  <2>1. PICK S : S = ps[q].edges \ {<<l, d>>}
    OBVIOUS
  <2>2. qs = [ps EXCEPT ![q].edges = S]
    BY <1>5, <1>8, <2>1
  <2>3. qs[q].edges = S
    BY <1>2, <1>6, <2>2
  <2> QED
    BY <2>1, <2>3
<1>9. CASE qs = WithEdge(ps, v, d) /\ ~(l < ps[q].n)
  <2>1. qs = ps
    BY <1>4, <1>9
  <2>2. qs = WithoutEdge(ps, v, d) => <<l, d>> \notin qs[q].edges
    BY <1>8
  <2> QED
    BY <1>1, <1>2, <1>9, <2>1, <2>2
<1>10. CASE qs = WithEdge(ps, v, d) /\ l < ps[q].n
  <2>1. PICK S : S = ps[q].edges \cup {<<l, d>>}
    OBVIOUS
  <2>2. qs = [ps EXCEPT ![q].edges = S]
    BY <1>4, <1>10, <2>1
  <2>3. Graphs(qs) /\ GetN(qs) = GetN(ps)
    <3>1. \A e \in S : e \in ps[q].edges \/ (e = <<l, d>> /\ l < ps[q].n)
      BY <1>10, <2>1
    <3> QED
      BY <1>7, <2>2, <3>1
  <2>4. qs[q].edges = S /\ \A p \in Partitions : p # q => qs[p].edges = ps[p].edges
    BY <1>2, <1>6, <2>2
  <2>5. qs = WithoutEdge(ps, v, d) => <<l, d>> \notin qs[q].edges
    BY <1>8
  <2>6. \A a, b : ~(a = l /\ b = d) => (<<a, b>> \in S <=> <<a, b>> \in ps[q].edges)
    BY <2>1
  <2>7. <<l, d>> \in S
    BY <2>1
  <2>8. \A p \in Partitions : \A a, b :
              ~(p = q /\ a = l /\ b = d)
                => (<<a, b>> \in qs[p].edges <=> <<a, b>> \in ps[p].edges)
    BY <2>4, <2>6
  <2> QED
    BY <1>1, <1>2, <1>10, <2>3, <2>4, <2>5, <2>7, <2>8
<1>11. CASE qs = WithoutEdge(ps, v, d)
  <2>1. PICK S : S = ps[q].edges \ {<<l, d>>}
    OBVIOUS
  <2>2. qs = [ps EXCEPT ![q].edges = S]
    BY <1>5, <1>11, <2>1
  <2>3. Graphs(qs) /\ GetN(qs) = GetN(ps)
    <3>1. \A e \in S : e \in ps[q].edges \/ (e = <<l, d>> /\ l < ps[q].n)
      BY <2>1
    <3> QED
      BY <1>7, <2>2, <3>1
  <2>4. qs[q].edges = S /\ \A p \in Partitions : p # q => qs[p].edges = ps[p].edges
    BY <1>2, <1>6, <2>2
  <2>5. \A a, b : ~(a = l /\ b = d) => (<<a, b>> \in S <=> <<a, b>> \in ps[q].edges)
    BY <2>1
  <2>6. <<l, d>> \notin S
    BY <2>1
  <2>7. \A p \in Partitions : \A a, b :
              ~(p = q /\ a = l /\ b = d)
                => (<<a, b>> \in qs[p].edges <=> <<a, b>> \in ps[p].edges)
    BY <2>4, <2>5
  <2>8. ASSUME qs = WithEdge(ps, v, d) PROVE ~(l < ps[q].n)
    BY <1>2, <1>4, <1>6, <2>4, <2>6, <2>8
  <2> QED
    BY <1>1, <1>2, <1>4, <1>11, <2>3, <2>4, <2>6, <2>7, <2>8
<1> QED
  BY <1>9, <1>10, <1>11

\* The insertion of an edge adds it to the graph, and to no other place of it; where
\* the source is no vertex, it changes nothing.
LEMMA Inserted ==
  ASSUME NEW ps, Graphs(ps), NEW v \in Nat, NEW d \in Nat
  PROVE  AllEdges(WithEdge(ps, v, d)) =
           IF v < GetN(ps) THEN AllEdges(ps) \cup {<<v, d>>} ELSE AllEdges(ps)
<1>1. PICK qs : qs = WithEdge(ps, v, d)
  OBVIOUS
<1>2. /\ Graphs(qs) /\ GetN(qs) = GetN(ps)
      /\ \A p \in Partitions : \A a, b :
           ~(p = GetPartition(v) /\ a = Local(v) /\ b = d)
             => (<<a, b>> \in qs[p].edges <=> <<a, b>> \in ps[p].edges)
      /\ v < GetN(ps) => <<Local(v), d>> \in qs[GetPartition(v)].edges
      /\ ~(v < GetN(ps)) => qs = ps
  BY <1>1, Changed
<1>3. CASE ~(v < GetN(ps))
  BY <1>1, <1>2, <1>3
<1>4. CASE v < GetN(ps)
  <2>1. \A s, b : <<s, b>> \in AllEdges(qs) <=> <<s, b>> \in AllEdges(ps) \/ (s = v /\ b = d)
    <3> SUFFICES ASSUME NEW s, NEW b
                 PROVE  <<s, b>> \in AllEdges(qs) <=> <<s, b>> \in AllEdges(ps) \/ (s = v /\ b = d)
      OBVIOUS
    <3>1. CASE s \notin Nat
      BY <1>2, <3>1, EdgeOf
    <3>2. CASE s \in Nat /\ ~(s = v /\ b = d)
      <4>1. GetPartition(s) \in Partitions
        BY <3>2, PartitionOf
      <4>2. ~(GetPartition(s) = GetPartition(v) /\ Local(s) = Local(v) /\ b = d)
        BY <3>2, Different
      <4> QED
        BY <1>2, <3>2, <4>1, <4>2, EdgeOf
    <3>3. CASE s = v /\ b = d
      BY <1>2, <1>4, <3>3, EdgeOf
    <3> QED
      BY <3>1, <3>2, <3>3
  <2>2. \A e \in AllEdges(qs) : e = <<e[1], e[2]>>
    BY <1>2, EdgePairs
  <2>3. \A e \in AllEdges(ps) : e = <<e[1], e[2]>>
    BY EdgePairs
  <2>4. AllEdges(qs) = AllEdges(ps) \cup {<<v, d>>}
    BY <2>1, <2>2, <2>3
  <2> QED
    BY <1>1, <1>4, <2>4
<1> QED
  BY <1>3, <1>4

\* The removal of an edge removes it, and nothing else.
LEMMA Removed ==
  ASSUME NEW ps, Graphs(ps), NEW v \in Nat, NEW d \in Nat
  PROVE  /\ AllEdges(WithoutEdge(ps, v, d)) = AllEdges(ps) \ {<<v, d>>}
         /\ ~(v < GetN(ps)) => <<v, d>> \notin AllEdges(ps)
<1>1. PICK qs : qs = WithoutEdge(ps, v, d)
  OBVIOUS
<1>2. /\ Graphs(qs) /\ GetN(qs) = GetN(ps)
      /\ \A p \in Partitions : \A a, b :
           ~(p = GetPartition(v) /\ a = Local(v) /\ b = d)
             => (<<a, b>> \in qs[p].edges <=> <<a, b>> \in ps[p].edges)
      /\ <<Local(v), d>> \notin qs[GetPartition(v)].edges
  BY <1>1, Changed
<1>3. \A s, b : <<s, b>> \in AllEdges(qs) <=> <<s, b>> \in AllEdges(ps) /\ ~(s = v /\ b = d)
  <2> SUFFICES ASSUME NEW s, NEW b
               PROVE  <<s, b>> \in AllEdges(qs) <=> <<s, b>> \in AllEdges(ps) /\ ~(s = v /\ b = d)
    OBVIOUS
  <2>1. CASE s \notin Nat
    BY <1>2, <2>1, EdgeOf
  <2>2. CASE s \in Nat /\ ~(s = v /\ b = d)
    <3>1. GetPartition(s) \in Partitions
      BY <2>2, PartitionOf
    <3>2. ~(GetPartition(s) = GetPartition(v) /\ Local(s) = Local(v) /\ b = d)
      BY <2>2, Different
    <3> QED
      BY <1>2, <2>2, <3>1, <3>2, EdgeOf
  <2>3. CASE s = v /\ b = d
    BY <1>2, <2>3, EdgeOf
  <2> QED
    BY <2>1, <2>2, <2>3
<1>4. \A e \in AllEdges(qs) : e = <<e[1], e[2]>>
  BY <1>2, EdgePairs
<1>5. \A e \in AllEdges(ps) : e = <<e[1], e[2]>>
  BY EdgePairs
<1>6. AllEdges(qs) = AllEdges(ps) \ {<<v, d>>}
  BY <1>3, <1>4, <1>5
<1> QED
  BY <1>1, <1>6, EdgeOf

\* A new vertex has no edges, for no partition has an edge from a number it has not
\* yet given to a vertex.
LEMMA Added ==
  ASSUME NEW ps, Graphs(ps)
  PROVE  /\ GetN(WithNode(ps)) = GetN(ps) + 1
         /\ AllEdges(WithNode(ps)) = AllEdges(ps)
<1>1. PICK qs : qs = WithNode(ps)
  OBVIOUS
<1>2. Last \in Partitions /\ DOMAIN ps = Partitions
      /\ \A p \in Partitions : DOMAIN ps[p] = {"n", "edges"}
  BY Counts DEF Graphs, Last, Partitions
<1>3. qs = [ps EXCEPT ![Last].n = @ + 1]
  BY <1>1 DEF WithNode, Last
<1>4. /\ DOMAIN qs = Partitions
      /\ \A p \in Partitions : /\ DOMAIN qs[p] = {"n", "edges"} /\ qs[p].edges = ps[p].edges
                               /\ qs[p].n = IF p = Last THEN ps[p].n + 1 ELSE ps[p].n
  BY <1>2, <1>3
<1>5. Graphs(qs)
  <2>1. \A p \in Partitions : ps[p].n \in Nat /\ qs[p].n \in Nat /\ ps[p].n <= qs[p].n
    BY <1>4 DEF Graphs
  <2>2. ASSUME NEW p \in Partitions, NEW e \in qs[p].edges
        PROVE  e \in Nat \X Nat /\ e[1] < qs[p].n
    <3>1. e \in Nat \X Nat /\ e[1] < ps[p].n
      BY <1>4, <2>2 DEF Graphs
    <3>2. e[1] \in Nat
      BY <3>1
    <3> QED
      BY <2>1, <3>1, <3>2
  <2>3. \A p \in Partitions \ {Last} : qs[p].n = PartitionSize
    BY <1>4 DEF Graphs
  <2> QED
    BY <1>4, <2>1, <2>2, <2>3 DEF Graphs
<1>6. GetN(qs) = GetN(ps) + 1
  BY <1>2, <1>4, <1>5, Total, Starts DEF Graphs
<1>7. \A s, b : <<s, b>> \in AllEdges(qs) <=> <<s, b>> \in AllEdges(ps)
  <2> SUFFICES ASSUME NEW s \in Nat, NEW b
               PROVE  <<s, b>> \in AllEdges(qs) <=> <<s, b>> \in AllEdges(ps)
    BY <1>5, EdgeOf
  <2>1. GetPartition(s) \in Partitions
    BY PartitionOf
  <2>2. qs[GetPartition(s)].edges = ps[GetPartition(s)].edges
    BY <1>4, <2>1
  <2>3. <<Local(s), b>> \in ps[GetPartition(s)].edges => s < GetN(ps)
    <3>1. ASSUME <<Local(s), b>> \in ps[GetPartition(s)].edges
          PROVE  Local(s) < ps[GetPartition(s)].n
      <4>1. PICK e \in ps[GetPartition(s)].edges : e = <<Local(s), b>>
        BY <3>1
      <4>2. e[1] < ps[GetPartition(s)].n /\ e[1] = Local(s)
        BY <2>1, <4>1 DEF Graphs
      <4> QED
        BY <4>2
    <3> QED
      BY <3>1, VertexOf
  <2>4. GetN(ps) \in Nat
    BY Total
  <2> QED
    BY <1>5, <1>6, <2>2, <2>3, <2>4, EdgeOf
<1>8. \A e \in AllEdges(qs) : e = <<e[1], e[2]>>
  BY <1>5, EdgePairs
<1>9. \A e \in AllEdges(ps) : e = <<e[1], e[2]>>
  BY EdgePairs
<1>10. AllEdges(qs) = AllEdges(ps)
  BY <1>7, <1>8, <1>9
<1> QED
  BY <1>1, <1>6, <1>10

----------------------------------------------------------------------------
\* The edges with their values, and the calls under way, as the graph sees them
Shown == {e \o <<1>> : e \in AllEdges(partitions)}
Calls == [t \in Threads |-> Pending(t)]

\* Where an operation has begun and has not yet happened
Open == {"unregister", "register", "call", "shared", "lock", "exclusive"}

\* An update of an edge that the graph has a source for
Effective(k) == k[1] # "read" /\ k[2] < GetN(partitions)

\* What a thread has under way
LEMMA PendingOf ==
  ASSUME NEW t
  PROVE  Pending(t) = IF place[t] \in Open /\ Effective(task[t])
                      THEN [kind |-> task[t][1], key |-> <<task[t][2], task[t][3]>>, value |-> 1]
                      ELSE [kind |-> "none"]
  BY DEF Pending, Open, Effective

\* An edge with its value is a triple.
LEMMA Triple ==
  ASSUME NEW a \in Nat, NEW b \in Nat
  PROVE  <<a, b>> \o <<1>> = <<a, b, 1>>
<1>1. PICK s, r : s = <<a, b>> /\ r = <<1>>
  OBVIOUS
<1>2. s \in Seq(Nat) /\ r \in Seq(Nat)
  BY <1>1
<1>3. Len(s) = 2 /\ s[1] = a /\ s[2] = b /\ Len(r) = 1 /\ r[1] = 1
  BY <1>1
<1>4. PICK x : x = s \o r
  OBVIOUS
<1>5. /\ x \in Seq(Nat) /\ Len(x) = Len(s) + Len(r)
      /\ \A i \in 1 .. Len(s) + Len(r) : x[i] = IF i <= Len(s) THEN s[i] ELSE r[i - Len(s)]
  BY <1>2, <1>4, ConcatProperties
<1>6. Len(x) = 3 /\ x[1] = a /\ x[2] = b /\ x[3] = 1
  BY <1>3, <1>5
<1>7. x = <<a, b, 1>>
  <2>1. x \in Seq(Nat) /\ Len(x) = 3
    BY <1>5, <1>6
  <2> QED
    BY <1>6, <2>1
<1> QED
  BY <1>1, <1>4, <1>7

\* The types say what the partitions are.
LEMMA PartitionsAreGraphs == Typed /\ Sizes => Graphs(partitions)
  BY DEF Typed, EdgesTyped, Sizes, Graphs

\* An update that happens changes the edges shown as the graph does.
LEMMA ShownAfter ==
  ASSUME Graphs(partitions), NEW k \in Items, Effective(k),
         NEW qs, qs = IF k[1] = "add" THEN WithEdge(partitions, k[2], k[3])
                                      ELSE WithoutEdge(partitions, k[2], k[3])
  PROVE  {e \o <<1>> : e \in AllEdges(qs)} =
           IF k[1] = "add"
           THEN {e \in Shown : <<e[1], e[2]>> # <<k[2], k[3]>>} \cup {<<k[2], k[3]>> \o <<1>>}
           ELSE {e \in Shown : <<e[1], e[2]>> # <<k[2], k[3]>>}
<1>1. PICK v, d : v = k[2] /\ d = k[3]
  OBVIOUS
<1>2. v \in Nat /\ d \in Nat /\ v < GetN(partitions)
  BY <1>1, TaskTyped DEF Effective
<1>3. PICK E : E = AllEdges(partitions)
  OBVIOUS
<1>4. \A e \in E : e \in Nat \X Nat /\ e = <<e[1], e[2]>>
  BY <1>3, EdgePairs
<1>5. \A e \in Nat \X Nat : e \o <<1>> = <<e[1], e[2], 1>>
  <2> SUFFICES ASSUME NEW e \in Nat \X Nat PROVE e \o <<1>> = <<e[1], e[2], 1>>
    OBVIOUS
  <2>1. PICK a \in Nat, b \in Nat : e = <<a, b>>
    OBVIOUS
  <2> QED
    BY <2>1, Triple
<1>6. Shown = {<<e[1], e[2], 1>> : e \in E}
  BY <1>3, <1>4, <1>5, ZenonT(30) DEF Shown
<1>7. {e \in Shown : <<e[1], e[2]>> # <<v, d>>} = {<<e[1], e[2], 1>> : e \in E \ {<<v, d>>}}
  <2>1. \A e \in E : <<<<e[1], e[2], 1>>[1], <<e[1], e[2], 1>>[2]>> = e
    BY <1>4
  <2> QED
    BY <1>6, <2>1
<1>8. CASE k[1] = "add"
  <2>1. qs = WithEdge(partitions, v, d)
    BY <1>1, <1>8
  <2>2. AllEdges(qs) = E \cup {<<v, d>>}
    BY <1>2, <1>3, <2>1, Inserted
  <2>3. <<v, d>> \in Nat \X Nat /\ <<v, d>> \o <<1>> = <<v, d, 1>>
    BY <1>2, Triple
  <2>4. {e \o <<1>> : e \in AllEdges(qs)} = {<<e[1], e[2], 1>> : e \in E \cup {<<v, d>>}}
    <3>1. PICK A : A = E \cup {<<v, d>>} /\ A = AllEdges(qs)
      BY <2>2
    <3>2. \A e \in A : e \o <<1>> = <<e[1], e[2], 1>>
      BY <1>4, <1>5, <2>3, <3>1
    <3>3. {e \o <<1>> : e \in A} = {<<e[1], e[2], 1>> : e \in A}
      BY <3>2
    <3> QED
      BY <3>1, <3>3
  <2>5. {<<e[1], e[2], 1>> : e \in E \cup {<<v, d>>}}
          = {<<e[1], e[2], 1>> : e \in E \ {<<v, d>>}} \cup {<<v, d, 1>>}
    <3>1. PICK A : A = E \ {<<v, d>>} /\ E \cup {<<v, d>>} = A \cup {<<v, d>>}
      OBVIOUS
    <3>2. {<<e[1], e[2], 1>> : e \in A \cup {<<v, d>>}}
            = {<<e[1], e[2], 1>> : e \in A} \cup {<<v, d, 1>>}
      <4>1. PICK x : x = <<v, d>>
        OBVIOUS
      <4>2. <<x[1], x[2], 1>> = <<v, d, 1>>
        BY <4>1
      <4>3. {<<e[1], e[2], 1>> : e \in A \cup {x}}
              = {<<e[1], e[2], 1>> : e \in A} \cup {<<x[1], x[2], 1>>}
        OBVIOUS
      <4> QED
        BY <4>1, <4>2, <4>3
    <3> QED
      BY <3>1, <3>2
  <2> QED
    BY <1>1, <1>7, <1>8, <2>3, <2>4, <2>5
<1>9. CASE k[1] # "add"
  <2>1. qs = WithoutEdge(partitions, v, d)
    BY <1>1, <1>9
  <2>2. AllEdges(WithoutEdge(partitions, v, d)) = AllEdges(partitions) \ {<<v, d>>}
    BY <1>2, Removed
  <2>3. AllEdges(qs) = E \ {<<v, d>>}
    BY <1>3, <2>1, <2>2
  <2>4. {e \o <<1>> : e \in AllEdges(qs)} = {<<e[1], e[2], 1>> : e \in E \ {<<v, d>>}}
    <3>1. PICK A : A = E \ {<<v, d>>} /\ A = AllEdges(qs)
      BY <2>3
    <3>2. \A e \in A : e \o <<1>> = <<e[1], e[2], 1>>
      BY <1>4, <1>5, <3>1
    <3>3. {e \o <<1>> : e \in A} = {<<e[1], e[2], 1>> : e \in A}
      BY <3>2
    <3> QED
      BY <3>1, <3>3
  <2> QED
    BY <1>1, <1>7, <1>9, <2>4
<1> QED
  BY <1>8, <1>9

\* One that is not effective changes nothing.
LEMMA ShownSame ==
  ASSUME Graphs(partitions), NEW k \in Items, k[1] # "read", ~Effective(k),
         NEW qs, qs = IF k[1] = "add" THEN WithEdge(partitions, k[2], k[3])
                                      ELSE WithoutEdge(partitions, k[2], k[3])
  PROVE  AllEdges(qs) = AllEdges(partitions)
<1>1. k[2] \in Nat /\ k[3] \in Nat /\ ~(k[2] < GetN(partitions))
  BY TaskTyped DEF Effective
<1>2. CASE k[1] = "add"
  BY <1>1, <1>2, Inserted
<1>3. CASE k[1] # "add"
  <2>1. AllEdges(qs) = AllEdges(partitions) \ {<<k[2], k[3]>>}
    BY <1>1, <1>3, Removed, ZenonT(30)
  <2>2. <<k[2], k[3]>> \notin AllEdges(partitions)
    BY <1>1, Removed
  <2> QED
    BY <2>1, <2>2
<1> QED
  BY <1>2, <1>3

----------------------------------------------------------------------------
\* A thread goes to an update only with a task that is one.
LEMMA UpdatesStep == Updates /\ Typed /\ [Next]_vars => Updates'
<1> SUFFICES ASSUME Updates, Typed, [Next]_vars PROVE Updates'
  OBVIOUS
<1> DEFINE Updating == {"shared", "unlock", "lock", "exclusive"}
<1>1. DOMAIN place = Threads /\ DOMAIN task = Threads
  BY DEF Typed
<1>2. CASE UNCHANGED <<place, task>>
  BY <1>2 DEF Updates
<1>3. CASE UNCHANGED task /\ \A t \in Threads : place'[t] \in Updating => task[t][1] # "read"
  BY <1>3 DEF Updates
<1>4. CASE Submit
  <2>1. CASE place' = [t \in Threads |-> "loop"] /\ UNCHANGED task
    BY <1>3, <2>1
  <2> QED
    BY <1>2, <1>4, <2>1 DEF Submit
<1>5. ASSUME NEW t \in Threads, Take(t) PROVE Updates'
  <2>1. PICK k, to : /\ task' = [task EXCEPT ![t] = k] /\ place' = [place EXCEPT ![t] = to]
                     /\ to \in {"call", "register", "unregister"}
    BY <1>5 DEF Take, AfterTake
  <2> QED
    BY <1>1, <2>1 DEF Updates
<1>6. ASSUME NEW t \in Threads, NEW to, place' = [place EXCEPT ![t] = to], UNCHANGED task,
             to \in Updating => task[t][1] # "read"
      PROVE  Updates'
  BY <1>1, <1>6 DEF Updates
<1>7. ASSUME NEW t \in Threads, LockShared(t) \/ Update(t) \/ Escalate(t) \/ Lock(t)
      PROVE  Updates'
  <2>1. UNCHANGED task /\ task[t][1] # "read"
        /\ \E to \in Updating : place' = [place EXCEPT ![t] = to]
    BY <1>7 DEF LockShared, Update, Escalate, Lock, Goto, Same, Updates
  <2> QED
    BY <1>6, <2>1
<1>8. ASSUME NEW t \in Threads,
             \/ Unregister(t) \/ Register(t) \/ UnlockShared(t) \/ Unlock(t)
             \/ Read(t) \/ Leave(t)
      PROVE  Updates'
  <2>1. UNCHANGED task
        /\ \E to \in {"register", "call", "loop", "ended"} : place' = [place EXCEPT ![t] = to]
    BY <1>8 DEF Unregister, Register, UnlockShared, Unlock, Read, Leave, Goto, Same
  <2> QED
    BY <1>6, <2>1
<1>9. ASSUME NEW t \in Threads, Work(t) PROVE Updates'
  BY <1>2, <1>5, <1>7, <1>8, <1>9 DEF Work, Rest
<1> QED
  BY <1>2, <1>4, <1>9 DEF Next, Main, AddNode, Stop, Join, vars

\* What the steps rely on
GraphInv == Typed /\ Sizes /\ Updates

\* Every state of the pool satisfies it.
LEMMA GraphInvCorrect == Spec => []GraphInv
<1>1. Init => Updates
  BY DEF Init, Updates
<1> QED
  BY <1>1, UpdatesStep, TypedCorrect, PTL DEF Spec, GraphInv

\* A step that changes no partition and no open call is none of the graph's.
LEMMA Stutters ==
  ASSUME UNCHANGED partitions, \A t \in Threads : Pending(t)' = Pending(t)
  PROVE  UNCHANGED <<GetN(partitions), Shown, Calls>>
<1>1. GetN(partitions)' = GetN(partitions)
  BY DEF GetN, VerticesUpTo
<1>2. Shown' = Shown
  BY DEF Shown, AllEdges, GetNeighbourhood, GetN, VerticesUpTo, GetPartition, Local, distribution
<1>3. Calls' = Calls
  BY DEF Calls
<1> QED
  BY <1>1, <1>2, <1>3

\* The primes are those of the variables.
LEMMA Primes ==
  /\ GetN(partitions)' = GetN(partitions')
  /\ Shown' = {e \o <<1>> : e \in AllEdges(partitions')}
<1>1. GetN(partitions)' = GetN(partitions')
  BY DEF GetN, VerticesUpTo
<1>2. AllEdges(partitions)' = AllEdges(partitions')
  BY DEF AllEdges, GetNeighbourhood, GetN, VerticesUpTo, GetPartition, Local, distribution
<1> QED
  BY <1>1, <1>2 DEF Shown

\* What a thread has under way after a step that keeps the number of vertices
LEMMA PendingNext ==
  ASSUME NEW t, GetN(partitions') = GetN(partitions)
  PROVE  Pending(t)' = IF place'[t] \in Open /\ Effective(task'[t])
                       THEN [kind |-> task'[t][1], key |-> <<task'[t][2], task'[t][3]>>,
                             value |-> 1]
                       ELSE [kind |-> "none"]
<1>1. Effective(task[t])' <=> Effective(task'[t])
  BY Primes DEF Effective
<1>2. Pending(t)' = IF place'[t] \in Open /\ Effective(task[t])'
                    THEN [kind |-> task'[t][1], key |-> <<task'[t][2], task'[t][3]>>, value |-> 1]
                    ELSE [kind |-> "none"]
  BY DEF Pending, Open, Effective
<1> QED
  BY <1>1, <1>2

\* A step of t to the place to with the task k leaves the calls of the others alone.
LEMMA CallsNext ==
  ASSUME Typed, NEW t \in Threads, NEW to, NEW k,
         GetN(partitions') = GetN(partitions),
         place' = [place EXCEPT ![t] = to], task' = [task EXCEPT ![t] = k]
  PROVE  /\ \A u \in Threads \ {t} : Pending(u)' = Pending(u)
         /\ Pending(t)' = IF to \in Open /\ Effective(k)
                          THEN [kind |-> k[1], key |-> <<k[2], k[3]>>, value |-> 1]
                          ELSE [kind |-> "none"]
         /\ \A x : Pending(t)' = x => Calls' = [Calls EXCEPT ![t] = x]
<1>1. DOMAIN place = Threads /\ DOMAIN task = Threads
  BY DEF Typed
<1>2. /\ place'[t] = to /\ task'[t] = k
      /\ \A u \in Threads \ {t} : place'[u] = place[u] /\ task'[u] = task[u]
  BY <1>1
<1>3. \A u \in Threads \ {t} : Pending(u)' = Pending(u)
  <2> TAKE u \in Threads \ {t}
  <2>1. Pending(u)' = IF place'[u] \in Open /\ Effective(task'[u])
                      THEN [kind |-> task'[u][1], key |-> <<task'[u][2], task'[u][3]>>, value |-> 1]
                      ELSE [kind |-> "none"]
    BY PendingNext
  <2>2. Pending(u) = IF place[u] \in Open /\ Effective(task[u])
                     THEN [kind |-> task[u][1], key |-> <<task[u][2], task[u][3]>>, value |-> 1]
                     ELSE [kind |-> "none"]
    BY PendingOf
  <2> QED
    BY <1>2, <2>1, <2>2
<1>4. Pending(t)' = IF to \in Open /\ Effective(k)
                    THEN [kind |-> k[1], key |-> <<k[2], k[3]>>, value |-> 1]
                    ELSE [kind |-> "none"]
  BY <1>2, PendingNext
<1>5. ASSUME NEW x, Pending(t)' = x PROVE Calls' = [Calls EXCEPT ![t] = x]
  <2>1. Calls' = [u \in Threads |-> Pending(u)']
    BY DEF Calls
  <2>2. \A u \in Threads : Pending(u)' = IF u = t THEN x ELSE Pending(u)
    BY <1>3, <1>5
  <2>3. [Calls EXCEPT ![t] = x] = [u \in Threads |-> IF u = t THEN x ELSE Pending(u)]
    BY DEF Calls
  <2> QED
    BY <2>1, <2>2, <2>3
<1> QED
  BY <1>3, <1>4, <1>5

\* A task that a thread takes is a call of the graph, if it is an update of an edge
\* from a vertex that exists.
LEMMA TakeCalls ==
  ASSUME GraphInv, NEW t \in Threads, Take(t)
  PROVE  G!Call(t) \/ UNCHANGED <<GetN(partitions), Shown, Calls>>
<1>1. PICK k, to : /\ k = Head(tasks[t]) /\ UNCHANGED partitions
                   /\ task' = [task EXCEPT ![t] = k] /\ place' = [place EXCEPT ![t] = to]
                   /\ to \in {"call", "register", "unregister"}
  BY DEF Take, AfterTake
<1>2. k \in Items
  <2>1. tasks[t] \in Seq(Items) /\ tasks[t] # <<>>
    BY DEF GraphInv, Typed, Take
  <2> QED
    BY <1>1, <2>1
<1>3. place[t] = "loop" /\ to \in Open
  BY <1>1 DEF Take, Open
<1>4. Pending(t) = [kind |-> "none"]
  BY <1>3, PendingOf DEF Open
<1>5. /\ \A u \in Threads \ {t} : Pending(u)' = Pending(u)
      /\ Pending(t)' = IF Effective(k)
                       THEN [kind |-> k[1], key |-> <<k[2], k[3]>>, value |-> 1]
                       ELSE [kind |-> "none"]
      /\ \A x : Pending(t)' = x => Calls' = [Calls EXCEPT ![t] = x]
  BY <1>1, <1>3, CallsNext DEF GraphInv
<1>6. CASE ~Effective(k)
  <2>1. \A u \in Threads : Pending(u)' = Pending(u)
    BY <1>4, <1>5, <1>6
  <2> QED
    BY <1>1, <2>1, Stutters
<1>7. CASE Effective(k)
  <2>1. PICK c : c = [kind |-> k[1], key |-> <<k[2], k[3]>>, value |-> 1]
    OBVIOUS
  <2>2. Calls' = [Calls EXCEPT ![t] = c]
    BY <1>5, <1>7, <2>1
  <2>3. c \in G!GraphCalls
    <3>1. k[1] \in {"add", "remove"}
      BY <1>2, <1>7, TaskTyped DEF Kinds, Effective
    <3>2. PICK i \in DOMAIN Tasks : k = Tasks[i]
      BY <1>2 DEF Items
    <3>3. <<k[2], k[3]>> \in {<<Tasks[j][2], Tasks[j][3]>> : j \in DOMAIN Tasks}
      BY <3>2
    <3>4. PICK key \in {<<Tasks[j][2], Tasks[j][3]>> : j \in DOMAIN Tasks} : key = <<k[2], k[3]>>
      BY <3>3
    <3>5. c = G!CallOf(k[1], key, 1)
      BY <2>1, <3>4 DEF G!CallOf
    <3> QED
      BY <3>1, <3>4, <3>5 DEF G!GraphCalls
  <2>4. c.key[1] \in 0 .. GetN(partitions) - 1
    <3>1. c.key[1] = k[2]
      BY <2>1
    <3>2. k[2] \in Nat /\ k[2] < GetN(partitions)
      BY <1>2, <1>7, TaskTyped DEF Effective
    <3>3. GetN(partitions) \in Nat
      BY PartitionsAreGraphs, Total DEF GraphInv
    <3> QED
      BY <3>1, <3>2, <3>3
  <2>5. Calls[t] = G!NoCall
    BY <1>4 DEF Calls, G!NoCall
  <2>6. UNCHANGED <<GetN(partitions), Shown>>
    BY <1>1, Primes DEF Shown
  <2> QED
    BY <2>2, <2>3, <2>4, <2>5, <2>6 DEF G!Call, Shown, Calls
<1> QED
  BY <1>6, <1>7

\* The update happens where the partition is changed, in the shared section or in
\* the exclusive one.
LEMMA UpdateHappens ==
  ASSUME GraphInv, NEW t \in Threads, Update(t) \/ Unlock(t)
  PROVE  G!Happen(t) \/ UNCHANGED <<GetN(partitions), Shown, Calls>>
<1>1. PICK k, to, qs : /\ k = task[t] /\ qs = partitions' /\ to \in {"unlock", "loop"}
                       /\ place' = [place EXCEPT ![t] = to] /\ UNCHANGED task
                       /\ qs = IF k[1] = "add" THEN WithEdge(partitions, k[2], k[3])
                                               ELSE WithoutEdge(partitions, k[2], k[3])
  BY DEF Update, Unlock, Updated, Goto, Same
<1>2. place[t] \in {"shared", "exclusive"}
  BY DEF Update, Unlock, Goto
<1>3. k \in Items /\ k[1] # "read" /\ task' = [task EXCEPT ![t] = k]
  BY <1>1, <1>2 DEF GraphInv, Updates, Typed, Working, InOperation
<1>4. Graphs(partitions)
  BY PartitionsAreGraphs DEF GraphInv
<1>5. GetN(qs) = GetN(partitions)
  <2>1. PICK v \in Nat, d \in Nat : v = k[2] /\ d = k[3]
    BY <1>3, TaskTyped
  <2>2. qs \in {WithEdge(partitions, v, d), WithoutEdge(partitions, v, d)}
    BY <1>1, <2>1
  <2> QED
    BY <1>4, <2>2, Changed
<1>6. /\ \A u \in Threads \ {t} : Pending(u)' = Pending(u)
      /\ Pending(t)' = [kind |-> "none"]
      /\ \A x : Pending(t)' = x => Calls' = [Calls EXCEPT ![t] = x]
  <2>1. to \notin Open
    BY <1>1 DEF Open
  <2>2. /\ \A u \in Threads \ {t} : Pending(u)' = Pending(u)
        /\ Pending(t)' = IF to \in Open /\ Effective(k)
                         THEN [kind |-> k[1], key |-> <<k[2], k[3]>>, value |-> 1]
                         ELSE [kind |-> "none"]
        /\ \A x : Pending(t)' = x => Calls' = [Calls EXCEPT ![t] = x]
    BY <1>1, <1>3, <1>5, CallsNext DEF GraphInv
  <2> QED
    BY <2>1, <2>2
<1>7. GetN(partitions)' = GetN(partitions)
  BY <1>1, <1>5, Primes
<1>8. CASE ~Effective(k)
  <2>1. AllEdges(qs) = AllEdges(partitions)
    BY <1>1, <1>3, <1>4, <1>8, ShownSame
  <2>2. Shown' = Shown
    BY <1>1, <2>1, Primes DEF Shown
  <2>3. Pending(t) = [kind |-> "none"]
    BY <1>1, <1>8, PendingOf
  <2>4. Calls' = Calls
    BY <1>6, <2>3 DEF Calls
  <2> QED
    BY <1>7, <2>2, <2>4
<1>9. CASE Effective(k)
  <2>1. PICK c : c = [kind |-> k[1], key |-> <<k[2], k[3]>>, value |-> 1]
    OBVIOUS
  <2>2. Calls[t] = c
    BY <1>1, <1>2, <1>9, <2>1, PendingOf DEF Open, Calls
  <2>3. c # G!NoCall
    <3>1. c.kind # "none"
      BY <1>3, <2>1, TaskTyped DEF Kinds
    <3> QED
      BY <3>1 DEF G!NoCall
  <2>4. Calls' = [Calls EXCEPT ![t] = G!NoCall]
    BY <1>6 DEF G!NoCall
  <2>5. Shown' = G!After(c)
    <3>1. {e \o <<1>> : e \in AllEdges(qs)} =
           IF k[1] = "add"
           THEN {e \in Shown : <<e[1], e[2]>> # <<k[2], k[3]>>} \cup {<<k[2], k[3]>> \o <<1>>}
           ELSE {e \in Shown : <<e[1], e[2]>> # <<k[2], k[3]>>}
      BY <1>1, <1>3, <1>4, <1>9, ShownAfter
    <3>2. Shown' = {e \o <<1>> : e \in AllEdges(qs)}
      BY <1>1, Primes
    <3>3. c.kind = k[1] /\ c.key = <<k[2], k[3]>> /\ c.value = 1
      BY <2>1
    <3>4. G!After(c) =
           IF c.kind = "add"
           THEN {e \in Shown : <<e[1], e[2]>> # c.key} \cup {c.key \o <<c.value>>}
           ELSE {e \in Shown : <<e[1], e[2]>> # c.key}
      BY DEF G!After, G!Without, Shown
    <3> QED
      BY <3>1, <3>2, <3>3, <3>4
  <2> QED
    BY <1>7, <2>2, <2>3, <2>4, <2>5 DEF G!Happen, Shown, Calls
<1> QED
  BY <1>8, <1>9

\* add_node gives the graph a vertex without edges; nothing is under way then.
LEMMA NodeAdds ==
  ASSUME GraphInv, AddNode
  PROVE  G!AddVertex
<1>1. partitions' = WithNode(partitions) /\ UNCHANGED <<place, task>> /\ main = "submit"
  BY DEF AddNode
<1>2. Graphs(partitions)
  BY PartitionsAreGraphs DEF GraphInv
<1>3. GetN(partitions)' = GetN(partitions) + 1 /\ Shown' = Shown
  BY <1>1, <1>2, Added, Primes DEF Shown
<1>4. \A t \in Threads : place[t] = "off" /\ place'[t] = "off"
  BY <1>1 DEF GraphInv, Typed
<1>5. \A t \in Threads : Pending(t) = [kind |-> "none"] /\ Pending(t)' = [kind |-> "none"]
  BY <1>4 DEF Pending
<1>6. Calls' = Calls
  BY <1>5 DEF Calls
<1> QED
  BY <1>3, <1>6 DEF G!AddVertex, Shown, Calls

\* Every other step of a thread leaves the graph alone: what is under way stays so.
LEMMA OthersStutter ==
  ASSUME GraphInv, NEW t \in Threads,
         \/ Unregister(t) \/ Register(t) \/ LockShared(t) \/ UnlockShared(t)
         \/ Escalate(t) \/ Lock(t) \/ Read(t) \/ Rest(t) \/ Leave(t)
  PROVE  UNCHANGED <<GetN(partitions), Shown, Calls>>
<1>1. UNCHANGED partitions /\ UNCHANGED task
  BY DEF Unregister, Register, LockShared, UnlockShared, Escalate, Lock, Read, Rest, Leave, Same
<1>2. ASSUME NEW to, place' = [place EXCEPT ![t] = to],
             (to \in Open <=> place[t] \in Open) \/ ~Effective(task[t])
      PROVE  UNCHANGED <<GetN(partitions), Shown, Calls>>
  <2>1. task' = [task EXCEPT ![t] = task[t]]
    BY <1>1 DEF GraphInv, Typed
  <2>2. /\ \A u \in Threads \ {t} : Pending(u)' = Pending(u)
        /\ Pending(t)' = IF to \in Open /\ Effective(task[t])
                         THEN [kind |-> task[t][1], key |-> <<task[t][2], task[t][3]>>, value |-> 1]
                         ELSE [kind |-> "none"]
    BY <1>1, <1>2, <2>1, CallsNext DEF GraphInv
  <2>3. Pending(t)' = Pending(t)
    BY <1>2, <2>2, PendingOf
  <2> QED
    BY <1>1, <2>2, <2>3, Stutters
<1>3. CASE Rest(t)
  <2>1. place' = [place EXCEPT ![t] = place[t]]
    BY <1>3 DEF Rest, GraphInv, Typed
  <2> QED
    BY <1>2, <2>1
<1>4. CASE Read(t)
  BY <1>2, <1>4 DEF Read, Goto, Effective
<1>5. CASE UnlockShared(t) \/ Leave(t)
  <2>1. \E to \in {"loop", "ended"} : place' = [place EXCEPT ![t] = to]
        /\ place[t] \in {"unlock", "loop"}
    BY <1>5 DEF UnlockShared, Leave, Goto
  <2> QED
    BY <1>2, <2>1 DEF Open
<1>6. CASE Unregister(t) \/ Register(t) \/ LockShared(t) \/ Escalate(t) \/ Lock(t)
  <2>1. /\ \E to \in Open : place' = [place EXCEPT ![t] = to]
        /\ place[t] \in Open
    BY <1>6 DEF Unregister, Register, LockShared, Escalate, Lock, Goto, Open
  <2> QED
    BY <1>2, <2>1
<1> QED
  BY <1>3, <1>4, <1>5, <1>6

\* Each step of the pool is a step of the graph or leaves it alone.
LEMMA GraphStep ==
  ASSUME GraphInv, [Next]_vars
  PROVE  G!GraphNext \/ UNCHANGED <<GetN(partitions), Shown, Calls>>
<1>1. CASE UNCHANGED <<partitions, place, task>>
  <2>1. \A t \in Threads : Pending(t)' = Pending(t)
    BY <1>1, PendingNext, PendingOf
  <2> QED
    BY <1>1, <2>1, Stutters
<1>2. CASE AddNode
  BY <1>2, NodeAdds DEF G!GraphNext
<1>3. CASE Submit
  <2>1. CASE UNCHANGED <<partitions, task>> /\ main = "submit"
             /\ place' = [t \in Threads |-> "loop"]
    <3>1. \A t \in Threads : place[t] \notin Open /\ place'[t] \notin Open
      BY <2>1 DEF GraphInv, Typed, Open
    <3>2. \A t \in Threads : Pending(t)' = Pending(t)
      BY <2>1, <3>1, PendingNext, PendingOf
    <3> QED
      BY <2>1, <3>2, Stutters
  <2> QED
    BY <1>1, <1>3, <2>1 DEF Submit
<1>4. ASSUME NEW t \in Threads, Work(t)
      PROVE  G!GraphNext \/ UNCHANGED <<GetN(partitions), Shown, Calls>>
  BY <1>4, TakeCalls, UpdateHappens, OthersStutter DEF Work, G!GraphNext
<1> QED
  BY <1>1, <1>2, <1>3, <1>4 DEF Next, Main, Stop, Join, vars

\* The partitions together are the graph that one PCSR promises: a task changes the
\* one edge that it names, between the time a thread takes it and its last step, for
\* any sizes, any spread of the threads, and any tasks.
THEOREM PartitionsImplementGraph == Spec => ImplementsGraph
<1>1. Init => G!GraphInit
  <2> SUFFICES ASSUME Init PROVE G!GraphInit
    OBVIOUS
  <2>1. Graphs(partitions)
    BY TypedInit, SizesInit, PartitionsAreGraphs
  <2>2. GetN(partitions) \in Nat
    BY <2>1, Total
  <2>3. AllEdges(partitions) = {}
    <3>1. \A p \in Partitions : partitions[p].edges = {}
      BY DEF Init, InitialPartitions
    <3>2. ASSUME NEW e \in AllEdges(partitions) PROVE FALSE
      <4>1. e = <<e[1], e[2]>>
        BY <2>1, EdgePairs
      <4>2. e[1] \in Nat /\ <<Local(e[1]), e[2]>> \in partitions[GetPartition(e[1])].edges
        BY <2>1, <4>1, EdgeOf
      <4>3. GetPartition(e[1]) \in Partitions
        BY <4>2, PartitionOf
      <4> QED
        BY <3>1, <4>2, <4>3
    <3> QED
      BY <3>2
  <2>4. \A t \in Threads : Pending(t) = [kind |-> "none"]
    BY PendingOf DEF Init, Open
  <2> QED
    BY <2>2, <2>3, <2>4 DEF G!GraphInit, G!NoCall
<1>2. GraphInv /\ [Next]_vars
        => [G!GraphNext]_<<GetN(partitions), {e \o <<1>> : e \in AllEdges(partitions)},
                           [t \in Threads |-> Pending(t)]>>
  BY GraphStep DEF Shown, Calls
<1> QED
  BY <1>1, <1>2, GraphInvCorrect, PTL DEF Spec, ImplementsGraph, G!GraphSpec
=============================================================================
