---------------------------- MODULE MCThreadPool ----------------------------
(* ThreadPool with three threads and four tasks: a thread can be in the    *)
(* window between the test and the wait while a second one runs the last   *)
(* task and a third one sleeps, and tasks outnumber threads.               *)
EXTENDS ThreadPool

MCThreadNum == 3
MCTaskNum == 4
=============================================================================
