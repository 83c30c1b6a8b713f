----------------------------- MODULE MCScripts -----------------------------
(* One thread that makes a given sequence of calls: states of PCSR.tla that *)
(* are too deep for a search of every sequence.  Seven vertices, an array   *)
(* that doubles to 32 slots in four leaves, and slides across three of them.*)
EXTENDS MCPCSR, Sequences

CONSTANT Script     \* the calls in order, as <<kind, source, destination>>

VARIABLE step       \* how many of them have been begun

Calls(kind, s, dests) == [i \in DOMAIN dests |-> <<kind, s, dests[i]>>]

\* The leaf of slot 24 is filled up to the last slot, and the sentinel in front
\* of it is pushed there from the leaf on its left; so are the two leaves next
\* to it, until the first null right of slot 8 is past the end of the array.
Crowded ==
  <<<<"add", 5, 20>>, <<"add", 1, 20>>, <<"add", 1, 40>>, <<"add", 2, 20>>,
    <<"add", 0, 1>>>>
  \o Calls("add", 5, <<50, 60, 61, 62, 63>>) \o Calls("add", 4, <<10>>)
  \o Calls("add", 3, <<50, 51, 52, 53>>) \o Calls("add", 2, <<10>>)
  \o Calls("add", 1, <<50, 51, 52, 53, 5>>)

\* Then one edge more between two of those.
OffTheEnd == Crowded \o Calls("add", 1, <<30>>)

\* Or the first leaf is filled but for its last slot, and then an edge goes to
\* the slot behind it.
OffTheOtherEnd ==
  Crowded \o Calls("add", 0, <<2>>) \o Calls("remove", 1, <<5>>)
          \o Calls("add", 0, <<3, 4, 6>>) \o Calls("add", 1, <<7>>)

ScriptedAdds ==
  [t \in Threads |->
     {<<Script[i][2], Script[i][3]>> : i \in {j \in DOMAIN Script : Script[j][1] = "add"}}]

ScriptedRemoves == [t \in Threads |-> {<<1, 5>>}]

BeginScripted(t) ==
  /\ step < Len(Script)
  /\ LET c == Script[step + 1]
     IN  \/ c[1] = "add" /\ BeginAdd(t, c[2], c[3], 1)
         \/ c[1] = "remove" /\ BeginRemove(t, c[2], c[3])
  /\ step' = step + 1

ScriptInit == Init /\ step = 0

ScriptNext ==
  /\ UNCHANGED lock_bsearch
  /\ \E t \in Threads : \/ BeginScripted(t)
                        \/ Continue(t) /\ UNCHANGED step

ScriptSpec == ScriptInit /\ [][ScriptNext]_<<vars, step>>
============================================================================
