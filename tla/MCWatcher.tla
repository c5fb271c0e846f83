------------------------------ MODULE MCWatcher ------------------------------
(* WatcherDispatch for TLC: two files and one source at a time, or one file *)
(* with every source at work and only the handovers one after the other.    *)
EXTENDS WatcherDispatch

CONSTANTS f1, f2

Alone == [edits |-> 4, overlap |-> "none", rewrites |-> FALSE,
          files |-> {f1, f2}, droppable |-> {}]
Together == [edits |-> 4, overlap |-> "scans", rewrites |-> TRUE,
             files |-> {f1}, droppable |-> {f1}]
MCScenarios == {Alone, Together}
=============================================================================
