------------------------------ MODULE MCLogger ------------------------------
(* Two threads, files of one message, two files kept, in both modes, with  *)
(* and without the check.                                                  *)
EXTENDS Logger, TLC

CONSTANTS t1, t2

MCThreads == {t1, t2}
MCOneThread == {t1}
=============================================================================
