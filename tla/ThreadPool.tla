----------------------------- MODULE ThreadPool -----------------------------
(***************************************************************************)
(* The thread pool CThreadPool (Thread.cpp) under its program (main.cpp):  *)
(* the main thread creates the threads, adds the tasks, polls until no     *)
(* task is left in the list, and stops the pool.  The list is protected by *)
(* the mutex, except for getTaskSize; shutdown is protected by nothing.    *)
(*                                                                         *)
(* The vector's size is one load (its end pointer) that every store leaves *)
(* whole, so that getTaskSize reads the size before or after an erase.     *)
(* pthread_cond_wait may return without a signal, as POSIX allows.         *)
(***************************************************************************)
EXTENDS Naturals, Sequences

CONSTANTS ThreadNum,  \* m_iThreadNum, 8 in main.cpp
          TaskNum     \* tasks main adds, 20 in main.cpp

ASSUME NumAssumption == ThreadNum \in Nat /\ TaskNum \in Nat

VARIABLES
    taskList,   \* m_TaskList: tasks numbered in the order of AddTask
    shutdown,   \* shutdown
    owner,      \* who holds m_pthreadMutex: a thread, Main or Nobody
    pc,         \* where each thread is in ThreadFunc
    task,       \* the task each thread has taken, or NoTask
    mpc,        \* where the main thread is
    added,      \* tasks added so far
    m,          \* threads created; in StopAll, threads joined
    finished    \* tasks whose Run has returned

vars == <<taskList, shutdown, owner, pc, task, mpc, added, m, finished>>
mainVars == <<mpc, added, m>>

Threads == 1 .. ThreadNum
Tasks == 1 .. TaskNum
NoTask == 0
Main == 0
Nobody == ThreadNum + 1

(* "none": pthread_create was not called yet, or failed.                   *)
Init == /\ taskList = <<>> /\ shutdown = FALSE
        /\ owner = Nobody
        /\ pc = [t \in Threads |-> "none"]
        /\ task = [t \in Threads |-> NoTask]
        /\ mpc = "create" /\ added = 0 /\ m = 0
        /\ finished = {}

-----------------------------------------------------------------------------
(* ThreadFunc                                                              *)

(* A thread runs as long as the process does. *)
Go(t, from, to) == mpc # "crashed" /\ pc[t] = from /\ pc' = [pc EXCEPT ![t] = to]

Lock(t) ==
    /\ Go(t, "lock", "check")
    /\ owner = Nobody /\ owner' = t
    /\ UNCHANGED <<taskList, shutdown, task, finished, mainVars>>

(* The while condition holds: the thread will call pthread_cond_wait.      *)
NothingToDo(t) ==
    /\ Go(t, "check", "wait")
    /\ taskList = <<>> /\ ~shutdown
    /\ UNCHANGED <<taskList, shutdown, owner, task, finished, mainVars>>

LeaveLoop(t) ==
    /\ Go(t, "check", "test")
    /\ taskList # <<>> \/ shutdown
    /\ UNCHANGED <<taskList, shutdown, owner, task, finished, mainVars>>

(* pthread_cond_wait: releases the mutex and blocks, in one step ...       *)
Wait(t) ==
    /\ Go(t, "wait", "blocked")
    /\ owner' = Nobody
    /\ UNCHANGED <<taskList, shutdown, task, finished, mainVars>>

(* ... until signalled, or for no reason ...                               *)
SpuriousWakeup(t) ==
    /\ Go(t, "blocked", "reacquire")
    /\ UNCHANGED <<taskList, shutdown, owner, task, finished, mainVars>>

(* ... and takes the mutex back. The mutant tests the condition only once, *)
(* with an if.                                                             *)
ReacquireOnce(t) ==
    /\ Go(t, "reacquire", "test")
    /\ owner = Nobody /\ owner' = t
    /\ UNCHANGED <<taskList, shutdown, task, finished, mainVars>>

Reacquire(t) ==
    /\ Go(t, "reacquire", "check")
    /\ owner = Nobody /\ owner' = t
    /\ UNCHANGED <<taskList, shutdown, task, finished, mainVars>>

(* if (shutdown): unlocks and exits.                                       *)
ThreadExit(t) ==
    /\ Go(t, "test", "exited")
    /\ shutdown
    /\ owner' = Nobody
    /\ UNCHANGED <<taskList, shutdown, task, finished, mainVars>>

GoOn(t) ==
    /\ Go(t, "test", "take")
    /\ ~shutdown
    /\ UNCHANGED <<taskList, shutdown, owner, task, finished, mainVars>>

(* The first task is read and erased. The mutant does not erase it.        *)
TakeWithoutErase(t) ==
    /\ Go(t, "take", "unlock")
    /\ taskList # <<>>
    /\ task' = [task EXCEPT ![t] = Head(taskList)]
    /\ UNCHANGED <<taskList, shutdown, owner, finished, mainVars>>

Take(t) ==
    /\ Go(t, "take", "unlock")
    /\ taskList # <<>>
    /\ task' = [task EXCEPT ![t] = Head(taskList)]
    /\ taskList' = Tail(taskList)
    /\ UNCHANGED <<shutdown, owner, finished, mainVars>>

Unlock(t) ==
    /\ Go(t, "unlock", "run")
    /\ owner' = Nobody
    /\ UNCHANGED <<taskList, shutdown, task, finished, mainVars>>

(* task->Run() returns.                                                    *)
Run(t) ==
    /\ Go(t, "run", "lock")
    /\ finished' = finished \cup {task[t]}
    /\ task' = [task EXCEPT ![t] = NoTask]
    /\ UNCHANGED <<taskList, shutdown, owner, mainVars>>

Thread(t) == \/ Lock(t) \/ NothingToDo(t) \/ LeaveLoop(t) \/ Wait(t) \/ Reacquire(t)
             \/ ThreadExit(t) \/ GoOn(t) \/ Take(t) \/ Unlock(t) \/ Run(t)

-----------------------------------------------------------------------------
(* The main thread                                                         *)

MainGo(from, to) == mpc = from /\ mpc' = to

(* Create: the result of pthread_create is not looked at.                  *)
CreateThread ==
    /\ MainGo("create", "create") /\ m < ThreadNum
    /\ m' = m + 1
    /\ \E start \in {"lock", "none"} : pc' = [pc EXCEPT ![m + 1] = start]
    /\ UNCHANGED <<taskList, shutdown, owner, task, added, finished>>

(* main's loop over the tasks.                                             *)
NextAdd == IF added < TaskNum THEN "lock" ELSE "poll"

Created ==
    /\ MainGo("create", NextAdd) /\ m = ThreadNum
    /\ UNCHANGED <<taskList, shutdown, owner, pc, task, added, m, finished>>

(* AddTask, its four calls.                                                *)
AddLock ==
    /\ MainGo("lock", "push")
    /\ owner = Nobody /\ owner' = Main
    /\ UNCHANGED <<taskList, shutdown, pc, task, added, m, finished>>

AddPush ==
    /\ MainGo("push", "unlock")
    /\ added' = added + 1
    /\ taskList' = Append(taskList, added')
    /\ UNCHANGED <<shutdown, owner, pc, task, m, finished>>

AddUnlock ==
    /\ MainGo("unlock", "signal")
    /\ owner' = Nobody
    /\ UNCHANGED <<taskList, shutdown, pc, task, added, m, finished>>

Blocked == {t \in Threads : pc[t] = "blocked"}
Wake(ts) == pc' = [t \in Threads |-> IF t \in ts THEN "reacquire" ELSE pc[t]]

(* The mutant is AddTask without its last call.                            *)
AddNoSignal ==
    /\ MainGo("signal", NextAdd)
    /\ UNCHANGED <<taskList, shutdown, owner, pc, task, added, m, finished>>

AddSignal ==
    /\ MainGo("signal", NextAdd)
    /\ IF Blocked = {} THEN UNCHANGED pc ELSE \E t \in Blocked : Wake({t})
    /\ UNCHANGED <<taskList, shutdown, owner, task, added, m, finished>>

(* main: getTaskSize() is not zero, main sleeps a second and asks again.   *)
PollAgain ==
    /\ MainGo("poll", "poll")
    /\ taskList # <<>>
    /\ UNCHANGED vars

PollEmpty ==
    /\ MainGo("poll", "stop")
    /\ taskList = <<>>
    /\ UNCHANGED <<taskList, shutdown, owner, pc, task, added, m, finished>>

(* StopAll: the flag is stored without the mutex.                          *)
StopSet ==
    /\ MainGo("stop", "broadcast")
    /\ ~shutdown /\ shutdown' = TRUE
    /\ UNCHANGED <<taskList, owner, pc, task, added, m, finished>>

(* The mutant wakes one thread only.                                       *)
StopSignal ==
    /\ MainGo("broadcast", "join")
    /\ m' = 0
    /\ IF Blocked = {} THEN UNCHANGED pc ELSE \E t \in Blocked : Wake({t})
    /\ UNCHANGED <<taskList, shutdown, owner, task, added, finished>>

StopBroadcast ==
    /\ MainGo("broadcast", "join")
    /\ m' = 0
    /\ Wake(Blocked)
    /\ UNCHANGED <<taskList, shutdown, owner, task, added, finished>>

(* pthread_join of the next thread. The mutant does not wait for it.       *)
DetachThread ==
    /\ MainGo("join", "join") /\ m < ThreadNum
    /\ m' = m + 1
    /\ UNCHANGED <<taskList, shutdown, owner, pc, task, added, finished>>

JoinThread ==
    /\ MainGo("join", "join") /\ m < ThreadNum
    /\ pc[m + 1] = "exited"
    /\ m' = m + 1
    /\ UNCHANGED <<taskList, shutdown, owner, pc, task, added, finished>>

(* pthread_join of an id that Create left unset: an error, or a crash.     *)
JoinNobody ==
    /\ m < ThreadNum
    /\ pc[m + 1] = "none"
    /\ \/ MainGo("join", "join") /\ m' = m + 1
       \/ MainGo("join", "crashed") /\ UNCHANGED m
    /\ UNCHANGED <<taskList, shutdown, owner, pc, task, added, finished>>

(* The mutex and the condition are destroyed; StopAll returns 0 and main   *)
(* polls again.                                                            *)
StopDone ==
    /\ MainGo("join", "poll") /\ m = ThreadNum
    /\ UNCHANGED <<taskList, shutdown, owner, pc, task, added, m, finished>>

(* The second StopAll returns -1: main exits.                              *)
StopTwice ==
    /\ MainGo("stop", "exit")
    /\ shutdown
    /\ UNCHANGED <<taskList, shutdown, owner, pc, task, added, m, finished>>

MainThread == \/ CreateThread \/ Created
              \/ AddLock \/ AddPush \/ AddUnlock \/ AddSignal
              \/ PollAgain \/ PollEmpty
              \/ StopSet \/ StopBroadcast \/ JoinThread \/ JoinNobody
              \/ StopDone \/ StopTwice

Over == mpc \in {"exit", "crashed"} /\ UNCHANGED vars

Next == MainThread \/ (\E t \in Threads : Thread(t) \/ SpuriousWakeup(t)) \/ Over

Spec == Init /\ [][Next]_vars

(* Every thread runs, tasks return, and a thread that waits for a mutex    *)
(* which is free again and again gets it. Nothing is assumed of spurious   *)
(* wakeups.                                                                *)
Fairness == /\ WF_vars(MainThread) /\ SF_vars(AddLock)
            /\ \A t \in Threads : WF_vars(Thread(t)) /\ SF_vars(Lock(t) \/ Reacquire(t))

FairSpec == Spec /\ Fairness

-----------------------------------------------------------------------------
TypeOK ==
    /\ taskList \in Seq(Tasks)
    /\ shutdown \in BOOLEAN
    /\ owner \in Threads \cup {Main, Nobody}
    /\ pc \in [Threads -> {"none", "lock", "check", "wait", "blocked", "reacquire",
                           "test", "take", "unlock", "run", "exited"}]
    /\ task \in [Threads -> Tasks \cup {NoTask}]
    /\ mpc \in {"create", "lock", "push", "unlock", "signal", "poll", "stop",
                "broadcast", "join", "exit", "crashed"}
    /\ added \in 0 .. TaskNum
    /\ m \in 0 .. ThreadNum
    /\ finished \subseteq Tasks

Holding == {"check", "wait", "test", "take", "unlock"}

(* The list has one user at a time: whoever is between lock and unlock     *)
(* holds the mutex.                                                        *)
MutexHeld ==
    /\ \A t \in Threads : pc[t] \in Holding <=> owner = t
    /\ mpc \in {"push", "unlock"} <=> owner = Main

(* A thread that takes a task finds one: Thread.cpp:53 reads through       *)
(* begin() before :54 asks whether the list is empty, and shutdown may be  *)
(* set, without the mutex, between :35 and :40.                            *)
TakeFindsTask == \A t \in Threads : pc[t] = "take" => taskList # <<>>

(* Tasks in the hands of threads. *)
InHand == {task[t] : t \in Threads} \ {NoTask}

(* Every task added is in one place: in the list, in the hands of one      *)
(* thread, or done; and the list gives them out in the order of AddTask.   *)
TaskAccounted ==
    /\ \A i \in 1 .. Len(taskList) : taskList[i] = added - Len(taskList) + i
    /\ InHand \cap finished = {}
    /\ InHand \cup finished = 1 .. added - Len(taskList)
    /\ \A t, u \in Threads : task[t] = task[u] /\ task[t] # NoTask => t = u

(* Nothing uses the mutex, the condition or a thread's task once StopAll   *)
(* has destroyed them (Thread.cpp:118); and when the program exits every   *)
(* task is done, if there was a thread to do it.                           *)
StoppedQuiet ==
    shutdown /\ mpc \in {"poll", "stop", "exit"} =>
        /\ \A t \in Threads : pc[t] \in {"exited", "none"}
        /\ owner = Nobody
        /\ finished = Tasks

(* What the program counters say of the rest: the list only empties while  *)
(* a thread holds the mutex, a thread has a task from the take to the end  *)
(* of Run, threads exit only after StopAll, and StopAll begins only when   *)
(* all tasks were added and taken (getTaskSize, which reads the list       *)
(* without the mutex, cannot be wrong about zero).                         *)
Phases ==
    /\ \A t \in Threads :
          /\ pc[t] = "test" => taskList # <<>> \/ shutdown
          /\ task[t] # NoTask <=> pc[t] \in {"unlock", "run"}
          /\ pc[t] = "exited" => shutdown
          /\ mpc = "create" /\ t > m => pc[t] = "none"
          /\ mpc = "join" /\ t <= m => pc[t] \in {"exited", "none"}
    /\ mpc \in {"create", "lock", "push", "unlock", "signal"} => ~shutdown
    /\ mpc \in {"broadcast", "join"} => shutdown
    /\ mpc = "create" => added = 0
    /\ mpc \in {"lock", "push"} => added < TaskNum
    /\ mpc \in {"poll", "stop"} \/ shutdown => added = TaskNum
    /\ mpc \in {"stop", "exit"} \/ shutdown => taskList = <<>>
    /\ mpc = "exit" => shutdown

IInv == TypeOK /\ MutexHeld /\ TakeFindsTask /\ TaskAccounted /\ StoppedQuiet /\ Phases

(* No wakeup of AddTask is lost: every task added is done, if there is a   *)
(* thread to do it and no join crashes the process.                        *)
EveryTaskRuns ==
    \A i \in Tasks : (added >= i /\ \E t \in Threads : pc[t] # "none")
                        ~> (i \in finished \/ mpc = "crashed")

(* StopAll ends, and with it the program, unless a thread was about to     *)
(* wait when the broadcast came: it has read shutdown at Thread.cpp:35 and *)
(* not yet blocked at :37.                                                 *)
StopEndsWithoutRace ==
    (mpc = "broadcast" /\ \A t \in Threads : pc[t] # "wait") ~> mpc \in {"exit", "crashed"}

(* "wake all waiting threads, the pool is to be destroyed" (Thread.cpp:104)*)
(* and "block until the threads have exited" (:108): a StopAll that has    *)
(* begun comes to its end.                                                 *)
StopEnds == mpc = "broadcast" ~> mpc \in {"exit", "crashed"}
=============================================================================
