--------------------------- MODULE MCThreadPool ---------------------------
(* Three threads, the master among them, and two batches; every source is    *)
(* updated by one thread only.                                               *)
EXTENDS ThreadPool

\* Thread 1 adds twice to its source, thread 2 removes what is not there.
TwoBatches == << << <<"add", 0>>, <<"add", 1>>, <<"delete", 2>>, <<"delete", 0>> >>,
                 << <<"read", 1>>, <<"add", 1>> >> >>
===========================================================================
