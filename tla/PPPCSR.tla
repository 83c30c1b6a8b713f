------------------------------- MODULE PPPCSR -------------------------------
(***************************************************************************)
(* pppcsr/PPPCSR.cpp: a graph that is cut into partitions, ranges of       *)
(* vertices each with a PCSR of its own.  A partition is taken as the      *)
(* graph that a PCSR promises (Graph.tla): its number of vertices and its  *)
(* edges, whose sources are numbered from 0 in each partition and whose    *)
(* destinations are vertices of the whole graph.                           *)
(***************************************************************************)
EXTENDS Integers, FiniteSets

CONSTANTS InitVertices,         \* init_n
          NumDomains,           \* numDomain
          PartitionsPerDomain

ASSUME PartitionAssumption ==
  /\ InitVertices \in Nat
  /\ NumDomains \in Nat \ {0} /\ PartitionsPerDomain \in Nat \ {0}

NumPartitions == NumDomains * PartitionsPerDomain

Partitions == 0 .. NumPartitions - 1

\* The division is one of integers: std::ceil has nothing left to round up.
PartitionSize == InitVertices \div NumPartitions

\* The number of the first vertex of each partition
distribution == [i \in Partitions |-> i * PartitionSize]

\* The last partition takes what is left.
InitialSize(i) ==
  IF i = NumPartitions - 1 THEN InitVertices - i * PartitionSize ELSE PartitionSize

\* Wrong variant: a partition's first vertex is taken to be its predecessor's.
GetPartitionInclusive(v) ==
  LET beyond == {i \in Partitions \ {0} : distribution[i] >= v}
  IN  IF beyond = {} THEN NumPartitions - 1
      ELSE (CHOOSE i \in beyond : \A j \in beyond : i <= j) - 1

\* get_partiton: the partition before the first one that begins beyond v
GetPartition(v) ==
  LET beyond == {i \in Partitions \ {0} : distribution[i] > v}
  IN  IF beyond = {} THEN NumPartitions - 1
      ELSE (CHOOSE i \in beyond : \A j \in beyond : i <= j) - 1

\* The number of v in its partition
Local(v) == v - distribution[GetPartition(v)]

----------------------------------------------------------------------------
(* The operations, on the partitions ps.                                   *)

InitialPartitions == [i \in Partitions |-> [n |-> InitialSize(i), edges |-> {}]]

WithNode(ps) == [ps EXCEPT ![NumPartitions - 1].n = @ + 1]

\* Wrong variant: a source that is not there is not noticed.
WithEdgeUnchecked(ps, src, dest) ==
  [ps EXCEPT ![GetPartition(src)].edges = @ \cup {<<Local(src), dest>>}]

\* Wrong variant: the destination is numbered from 0 in the partition, too.
WithEdgeLocal(ps, src, dest) ==
  IF Local(src) < ps[GetPartition(src)].n
  THEN [ps EXCEPT ![GetPartition(src)].edges = @ \cup {<<Local(src), Local(dest)>>}]
  ELSE ps

\* PCSR::add_edge ignores a source that it does not have.
WithEdge(ps, src, dest) ==
  IF Local(src) < ps[GetPartition(src)].n
  THEN [ps EXCEPT ![GetPartition(src)].edges = @ \cup {<<Local(src), dest>>}]
  ELSE ps

WithoutEdge(ps, src, dest) ==
  [ps EXCEPT ![GetPartition(src)].edges = @ \ {<<Local(src), dest>>}]

GetNeighbourhood(ps, src) ==
  {e[2] : e \in {x \in ps[GetPartition(src)].edges : x[1] = Local(src)}}

\* get_n, a sum over the partitions
VerticesUpTo(ps) ==
  LET sum[i \in Partitions] == IF i = 0 THEN ps[0].n ELSE sum[i - 1] + ps[i].n
  IN  sum

GetN(ps) == VerticesUpTo(ps)[NumPartitions - 1]

\* The edges of the whole graph, as get_neighbourhood returns them
AllEdges(ps) ==
  UNION {{s} \X GetNeighbourhood(ps, s) : s \in 0 .. GetN(ps) - 1}

----------------------------------------------------------------------------
\* The vertices of the partitions, numbered on from partition to partition, are
\* found by get_partiton where they are: no two have the same number, and the
\* rounding down of the size and the longer last partition leave no gap.
Placed(ps) ==
  \A p \in Partitions : \A i \in 0 .. ps[p].n - 1 :
    GetPartition(distribution[p] + i) = p
=============================================================================
