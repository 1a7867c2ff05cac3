----------------------------- MODULE MCTairTest -----------------------------
(* TairTest with up to two workers, whose queues hold one job, so that     *)
(* PostJob meets full ones, or two, so that jobs wait for each other;      *)
(* three test cases, as in the program; key files of no or two keys, so    *)
(* that jobs go round the file and give up.                                *)
EXTENDS TairTest

MCCapacities == {1, 2}
MCNums == {1, 5}
MCOldLines == {0, 2}
=============================================================================
