------------------------------- MODULE Turns --------------------------------
(***************************************************************************)
(* c_thread.cpp: threads that run in the order of their numbers, by a      *)
(* counter, a mutex and one condition variable, and the main thread that   *)
(* creates and joins them.                                                 *)
(***************************************************************************)
EXTENDS Integers, Sequences

CONSTANTS NThreads,     \* 4
          MaxSpurious   \* bound: wakeups without a broadcast

ASSUME TurnsAssumption == NThreads \in Nat /\ MaxSpurious \in Nat

Tids == 0 .. NThreads - 1
Nobody == NThreads

VARIABLES num,       \* whose turn it is
          mylock,    \* the owner of the mutex
          tpc,       \* where each thread is
          ran,       \* history: the numbers printed, in their order
          mainpc,    \* where main is
          i,         \* its loop variable
          spurious   \* wakeups without a broadcast so far

turnsVars == <<num, mylock, tpc, ran, mainpc, i, spurious>>

TurnsInit ==
    /\ num = 0 /\ mylock = Nobody /\ ran = <<>>
    /\ tpc = [t \in Tids |-> "none"]
    /\ mainpc = "create" /\ i = 0 /\ spurious = 0

Running == mainpc \in {"create", "join"}

-----------------------------------------------------------------------------
(* A thread sleeps for a time of its own and then asks for the mutex:      *)
(* nothing is assumed of who asks first.                                   *)
Lock(t) ==
    /\ tpc[t] \in {"lock", "relock"} /\ mylock = Nobody
    /\ mylock' = t
    /\ tpc' = [tpc EXCEPT ![t] = IF @ = "lock" THEN "test" ELSE "retest"]
    /\ UNCHANGED <<num, ran, spurious>>

Wait(t) ==
    /\ tpc[t] \in {"test", "retest"} /\ t # num
    /\ mylock' = Nobody
    /\ tpc' = [tpc EXCEPT ![t] = "wait"]
    /\ UNCHANGED <<num, ran, spurious>>

WakeUp(t) ==
    /\ tpc[t] = "wait" /\ spurious < MaxSpurious
    /\ spurious' = spurious + 1
    /\ tpc' = [tpc EXCEPT ![t] = "relock"]
    /\ UNCHANGED <<num, mylock, ran>>

(* The mutant: if instead of while.                                        *)
RunIf(t) ==
    /\ tpc[t] = "retest" \/ (tpc[t] = "test" /\ t = num)
    /\ ran' = Append(ran, t)
    /\ num' = num + 1
    /\ tpc' = [tpc EXCEPT ![t] = "unlock"]
    /\ UNCHANGED <<mylock, spurious>>

Run(t) ==
    /\ tpc[t] \in {"test", "retest"} /\ t = num
    /\ ran' = Append(ran, t)
    /\ num' = num + 1
    /\ tpc' = [tpc EXCEPT ![t] = "unlock"]
    /\ UNCHANGED <<mylock, spurious>>

Unlock(t) ==
    /\ tpc[t] = "unlock"
    /\ mylock' = Nobody
    /\ tpc' = [tpc EXCEPT ![t] = "broadcast"]
    /\ UNCHANGED <<num, ran, spurious>>

(* The mutant: signal instead of broadcast.                                *)
Signal(t) ==
    /\ tpc[t] = "broadcast"
    /\ LET waiting == {u \in Tids : tpc[u] = "wait"}
       IN IF waiting = {} THEN tpc' = [tpc EXCEPT ![t] = "done"]
          ELSE \E u \in waiting : tpc' = [tpc EXCEPT ![t] = "done", ![u] = "relock"]
    /\ UNCHANGED <<num, mylock, ran, spurious>>

Broadcast(t) ==
    /\ tpc[t] = "broadcast"
    /\ tpc' = [u \in Tids |-> IF u = t THEN "done"
                             ELSE IF tpc[u] = "wait" THEN "relock" ELSE tpc[u]]
    /\ UNCHANGED <<num, mylock, ran, spurious>>

ThreadFunc(t) == Lock(t) \/ Wait(t) \/ Run(t) \/ Unlock(t) \/ Broadcast(t)

(* exit and the return from main end every thread.                         *)
ThreadStep(t) == Running /\ (ThreadFunc(t) \/ WakeUp(t)) /\ UNCHANGED <<mainpc, i>>

-----------------------------------------------------------------------------
Create ==
    /\ mainpc = "create" /\ i < NThreads
    /\ \/ tpc' = [tpc EXCEPT ![i] = "lock"] /\ i' = i + 1 /\ UNCHANGED mainpc
       \/ mainpc' = "failed" /\ UNCHANGED <<tpc, i>>
    /\ UNCHANGED <<num, mylock, ran, spurious>>

AllCreated ==
    /\ mainpc = "create" /\ i = NThreads
    /\ mainpc' = "join" /\ i' = 0
    /\ UNCHANGED <<num, mylock, tpc, ran, spurious>>

Join ==
    /\ mainpc = "join"
    /\ \/ i < NThreads /\ tpc[i] = "done" /\ i' = i + 1 /\ UNCHANGED mainpc
       \/ i = NThreads /\ mainpc' = "returned" /\ UNCHANGED i
    /\ UNCHANGED <<num, mylock, tpc, ran, spurious>>

TurnsMain == Create \/ AllCreated \/ Join

TurnsNext == TurnsMain \/ \E t \in Tids : ThreadStep(t)

TurnsSpec == TurnsInit /\ [][TurnsNext]_turnsVars

-----------------------------------------------------------------------------
TurnsTypeOK ==
    /\ num \in 0 .. NThreads /\ mylock \in Tids \cup {Nobody}
    /\ tpc \in [Tids -> {"none", "lock", "relock", "test", "retest", "wait",
                         "unlock", "broadcast", "done"}]
    /\ ran \in Seq(Tids) /\ mainpc \in {"create", "join", "returned", "failed"}
    /\ i \in 0 .. NThreads /\ spurious \in 0 .. MaxSpurious

Left(t) == tpc[t] \in {"unlock", "broadcast", "done"}

(* The threads run in the order of their numbers, each of them once, in    *)
(* whatever order they come to the mutex and wake up (c_thread.cpp:16-21). *)
InTurn ==
    /\ ran = [k \in 1 .. num |-> k - 1]
    /\ \A t \in Tids : Left(t) <=> t < num

(* The thread whose turn it is does not wait for a broadcast that nobody   *)
(* owes it, although the mutex is released before the broadcast            *)
(* (c_thread.cpp:22-23).                                                   *)
NoWakeupMissed ==
    num \in Tids /\ tpc[num] = "wait" => \E t \in Tids : tpc[t] \in {"unlock", "broadcast"}
=============================================================================
