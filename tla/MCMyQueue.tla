----------------------------- MODULE MCMyQueue ------------------------------
(* MyQueue on a ring of three slots: the indexes wrap round several times,  *)
(* and there is one job more than the ring can hold, so that one may be in *)
(* the worker's hands and the next one offered while two wait.             *)
EXTENDS MyQueue

CONSTANTS j1, j2, j3, j4

MCJobs == {j1, j2, j3, j4}
=============================================================================
