------------------------------ MODULE MCAuthSync ------------------------------
(* AuthSync for TLC: two files, one source at a time, contents may come back. *)
EXTENDS AuthSync

CONSTANTS f1, f2

MCScenarios == {[edits |-> 4, overlap |-> "none", rewrites |-> TRUE,
                 files |-> FileIds, droppable |-> {f1}]}
=============================================================================
