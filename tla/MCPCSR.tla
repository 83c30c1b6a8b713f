------------------------------ MODULE MCPCSR ------------------------------
(* Small instances of PCSR.tla: 8 to 32 slots in 2 or 4 leaves.            *)
EXTENDS PCSR, TLC

CONSTANTS t1, t2

\* Where the sum of doubles in redistribute falls just below a whole number,
\* for all arrays of up to 32 slots (the first of the elements never moves).
RoundsLow32 ==
  {<<8, 8, 6, 3>>}
    \cup {<<0, 16, 12, k>> : k \in {3, 6, 9}}
    \cup {<<16, 16, 6, 3>>, <<16, 16, 10, 5>>, <<0, 32, 18, 9>>}
    \cup {<<0, 32, 12, k>> : k \in {3, 6, 9}}
    \cup {<<0, 32, 20, k>> : k \in {5, 10, 15}}

\* Every thread adds and removes every edge from the first n vertices to dests.
Everything(n, dests) == [t \in Threads |-> (0 .. n - 1) \X dests]

TwoByTwo == Everything(2, {0, 1})
TwoByThree == Everything(2, {0, 1, 2})

\* Enough edges of the last two of six vertices to fill the last of 16 slots.
Crowd == t1 :> ({4} \X (0 .. 4)) \cup ({5} \X (0 .. 2))
Leavers == t1 :> {<<4, 0>>, <<5, 0>>, <<5, 1>>, <<5, 3>>}

\* Two threads, each with a vertex of its own.
OwnVertex == t1 :> {<<0, 0>>} @@ t2 :> ({1} \X {0, 1})

Nobody == [t \in Threads |-> {}]

\* Two threads, one of which fills the leaf that the other's leaf is next to.
DenseAdds == t1 :> ({4} \X (0 .. 4)) @@ t2 :> {<<0, 0>>}
DenseRemoves == t1 :> {<<4, 0>>} @@ t2 :> {<<0, 0>>}

\* Two threads with edges of their own, some of them from the same vertex.
OwnEdges == t1 :> {<<0, 0>>, <<1, 2>>} @@ t2 :> {<<1, 1>>}
============================================================================
