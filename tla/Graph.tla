------------------------------- MODULE Graph -------------------------------
(***************************************************************************)
(* What PCSR promises: a linearizable graph.  A thread calls add_edge or   *)
(* remove_edge, and at one instant before the call returns the whole       *)
(* update happens.  Edges are triples <<src, dest, value>>.                *)
(***************************************************************************)
EXTENDS Naturals, Sequences

CONSTANTS Threads,
          Keys,         \* the <<source, destination>> that are used
          Values        \* the (non-zero) values used

VARIABLES n,            \* the number of vertices: the vertices are 0 .. n-1
          edges,        \* the edges
          pending       \* pending[t]: the update that t has called and that
                        \* has not happened yet

NoCall == [kind |-> "none"]

CallOf(kind, key, value) == [kind |-> kind, key |-> key, value |-> value]

GraphCalls == {CallOf("add", k, v) : k \in Keys, v \in Values}
                \cup {CallOf("remove", k, 1) : k \in Keys}

GraphTypeOK == /\ n \in Nat
               /\ edges \subseteq {<<k[1], k[2], v>> : k \in Keys, v \in Values}
               /\ pending \in [Threads -> GraphCalls \cup {NoCall}]

Without(k) == {e \in edges : <<e[1], e[2]>> # k}

\* The graph after call c: a second insertion of an edge replaces its value,
\* the removal of an absent edge changes nothing.
After(c) == IF c.kind = "add" THEN Without(c.key) \cup {c.key \o <<c.value>>}
                              ELSE Without(c.key)

\* add_node
AddVertex == n' = n + 1 /\ UNCHANGED <<edges, pending>>

Call(t) == \E c \in GraphCalls :
             /\ pending[t] = NoCall
             /\ c.key[1] \in 0 .. n - 1
             /\ pending' = [pending EXCEPT ![t] = c]
             /\ UNCHANGED <<n, edges>>

Happen(t) == /\ pending[t] # NoCall
             /\ edges' = After(pending[t])
             /\ pending' = [pending EXCEPT ![t] = NoCall]
             /\ UNCHANGED n

GraphInit == n \in Nat /\ edges = {} /\ pending = [t \in Threads |-> NoCall]

GraphNext == AddVertex \/ \E t \in Threads : Call(t) \/ Happen(t)

GraphSpec == GraphInit /\ [][GraphNext]_<<n, edges, pending>>
============================================================================
