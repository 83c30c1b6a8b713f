---------------------------- MODULE MCPartitions ----------------------------
(* Nine vertices in four partitions of two domains, the last one longer; the  *)
(* first domain has two of the three threads.                                 *)
EXTENDS ThreadPoolPPPCSR

\* Tasks of neighbouring partitions, of the last partition's surplus, of a vertex
\* that add_node may have added; the threads of the first domain change partition.
SomeTasks == << <<"add", 0, 1>>, <<"add", 2, 6>>, <<"add", 3, 0>>, <<"remove", 0, 1>>,
                <<"add", 1, 2>>, <<"remove", 2, 6>>, <<"read", 1, 1>>,
                <<"add", 4, 0>>, <<"add", 8, 0>>, <<"add", 9, 3>> >>
=============================================================================
