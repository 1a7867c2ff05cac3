-------------------------- MODULE ThreadPoolProofs --------------------------
(* Proofs about ThreadPool, for every number of threads and of tasks.      *)
EXTENDS ThreadPool, SequenceTheorems, TLAPS

-----------------------------------------------------------------------------
(* Thread and owner identities do not clash.                               *)
LEMMA Identities ==
    /\ \A t \in Threads : t # Main /\ t # Nobody
    /\ Main # Nobody
BY NumAssumption DEF Threads, Main, Nobody

(* The thread that Create or StopAll turns to next is a thread.            *)
LEMMA NextThread ==
    ASSUME TypeOK
    PROVE  /\ 0 \in 0 .. ThreadNum
           /\ m < ThreadNum => m + 1 \in Threads /\ m + 1 \in 0 .. ThreadNum
BY NumAssumption DEF TypeOK, Threads

(* The next step of the main thread after AddTask or Create.               *)
LEMMA NextAddValue == NextAdd \in {"lock", "poll"}
BY DEF NextAdd

(* Types.                                                                  *)
LEMMA TypeStep ==
    ASSUME IInv, [Next]_vars
    PROVE  TypeOK'
<1> USE DEF IInv, TypeOK
<1>1. ASSUME NEW t \in Threads, Lock(t)
      PROVE  TypeOK'
  BY <1>1 DEF Lock, Go, mainVars
<1>2. ASSUME NEW t \in Threads, NothingToDo(t)
      PROVE  TypeOK'
  BY <1>2 DEF NothingToDo, Go, mainVars
<1>3. ASSUME NEW t \in Threads, LeaveLoop(t)
      PROVE  TypeOK'
  BY <1>3 DEF LeaveLoop, Go, mainVars
<1>4. ASSUME NEW t \in Threads, Wait(t)
      PROVE  TypeOK'
  BY <1>4 DEF Wait, Go, mainVars
<1>5. ASSUME NEW t \in Threads, SpuriousWakeup(t)
      PROVE  TypeOK'
  BY <1>5 DEF SpuriousWakeup, Go, mainVars
<1>6. ASSUME NEW t \in Threads, Reacquire(t)
      PROVE  TypeOK'
  BY <1>6 DEF Reacquire, Go, mainVars
<1>7. ASSUME NEW t \in Threads, ThreadExit(t)
      PROVE  TypeOK'
  BY <1>7 DEF ThreadExit, Go, mainVars
<1>8. ASSUME NEW t \in Threads, GoOn(t)
      PROVE  TypeOK'
  BY <1>8 DEF GoOn, Go, mainVars
<1>9. ASSUME NEW t \in Threads, Take(t)
      PROVE  TypeOK'
  BY <1>9 DEF Take, Go, mainVars
<1>10. ASSUME NEW t \in Threads, Unlock(t)
      PROVE  TypeOK'
  BY <1>10 DEF Unlock, Go, mainVars
<1>11. ASSUME NEW t \in Threads, Run(t)
      PROVE  TypeOK'
  <2>1. task[t] \in Tasks
    BY <1>11 DEF Run, Go, Phases
  <2> QED
    BY <1>11, <2>1 DEF Run, Go, mainVars
<1>12. CASE CreateThread
  BY <1>12, NextThread DEF CreateThread, MainGo
<1>13. CASE Created
  BY <1>13, NextAddValue DEF Created, MainGo
<1>14. CASE AddLock
  BY <1>14 DEF AddLock, MainGo
<1>15. CASE AddPush
  <2>1. added' \in 0 .. TaskNum /\ added' \in Tasks
    BY <1>15, NumAssumption DEF AddPush, MainGo, Phases, Tasks
  <2> QED
    BY <1>15, <2>1 DEF AddPush, MainGo
<1>16. CASE AddUnlock
  BY <1>16 DEF AddUnlock, MainGo
<1>17. CASE AddSignal
  BY <1>17, NextAddValue DEF AddSignal, MainGo, Wake, Blocked
<1>18. CASE PollAgain
  BY <1>18 DEF PollAgain, MainGo, vars
<1>19. CASE PollEmpty
  BY <1>19 DEF PollEmpty, MainGo
<1>20. CASE StopSet
  BY <1>20 DEF StopSet, MainGo
<1>21. CASE StopBroadcast
  BY <1>21, NextThread DEF StopBroadcast, MainGo, Wake
<1>22. CASE JoinThread
  BY <1>22, NextThread DEF JoinThread, MainGo
<1>23. CASE JoinNobody
  BY <1>23, NextThread DEF JoinNobody, MainGo
<1>24. CASE StopDone
  BY <1>24 DEF StopDone, MainGo
<1>25. CASE StopTwice
  BY <1>25 DEF StopTwice, MainGo
<1>26. CASE Over \/ UNCHANGED vars
  BY <1>26 DEF Over, vars
<1> QED
  BY <1>1, <1>2, <1>3, <1>4, <1>5, <1>6, <1>7, <1>8, <1>9, <1>10, <1>11,
     <1>12, <1>13, <1>14, <1>15, <1>16, <1>17, <1>18, <1>19, <1>20,
     <1>21, <1>22, <1>23, <1>24, <1>25, <1>26
     DEF Next, Thread, MainThread

(* The mutex.                                                              *)
LEMMA MutexStep ==
    ASSUME IInv, [Next]_vars
    PROVE  MutexHeld'
<1> USE Identities DEF IInv, TypeOK, MutexHeld, Holding
<1>1. ASSUME NEW t \in Threads, Lock(t)
      PROVE  MutexHeld'
  BY <1>1 DEF Lock, Go, mainVars
<1>2. ASSUME NEW t \in Threads, NothingToDo(t)
      PROVE  MutexHeld'
  BY <1>2 DEF NothingToDo, Go, mainVars
<1>3. ASSUME NEW t \in Threads, LeaveLoop(t)
      PROVE  MutexHeld'
  BY <1>3 DEF LeaveLoop, Go, mainVars
<1>4. ASSUME NEW t \in Threads, Wait(t)
      PROVE  MutexHeld'
  BY <1>4 DEF Wait, Go, mainVars
<1>5. ASSUME NEW t \in Threads, SpuriousWakeup(t)
      PROVE  MutexHeld'
  BY <1>5 DEF SpuriousWakeup, Go, mainVars
<1>6. ASSUME NEW t \in Threads, Reacquire(t)
      PROVE  MutexHeld'
  BY <1>6 DEF Reacquire, Go, mainVars
<1>7. ASSUME NEW t \in Threads, ThreadExit(t)
      PROVE  MutexHeld'
  BY <1>7 DEF ThreadExit, Go, mainVars
<1>8. ASSUME NEW t \in Threads, GoOn(t)
      PROVE  MutexHeld'
  BY <1>8 DEF GoOn, Go, mainVars
<1>9. ASSUME NEW t \in Threads, Take(t)
      PROVE  MutexHeld'
  BY <1>9 DEF Take, Go, mainVars
<1>10. ASSUME NEW t \in Threads, Unlock(t)
      PROVE  MutexHeld'
  BY <1>10 DEF Unlock, Go, mainVars
<1>11. ASSUME NEW t \in Threads, Run(t)
      PROVE  MutexHeld'
  BY <1>11 DEF Run, Go, mainVars
<1>12. CASE CreateThread
  <2>1. m + 1 \in Threads /\ pc[m + 1] = "none"
    BY <1>12, NextThread, NumAssumption DEF CreateThread, MainGo, Phases
  <2> QED
    BY <1>12, <2>1 DEF CreateThread, MainGo
<1>13. CASE Created
  BY <1>13, NextAddValue DEF Created, MainGo
<1>14. CASE AddLock
  BY <1>14 DEF AddLock, MainGo
<1>15. CASE AddPush
  BY <1>15 DEF AddPush, MainGo
<1>16. CASE AddUnlock
  BY <1>16 DEF AddUnlock, MainGo
<1>17. CASE AddSignal
  BY <1>17, NextAddValue DEF AddSignal, MainGo, Wake, Blocked
<1>18. CASE PollAgain
  BY <1>18 DEF PollAgain, MainGo, vars
<1>19. CASE PollEmpty
  BY <1>19 DEF PollEmpty, MainGo
<1>20. CASE StopSet
  BY <1>20 DEF StopSet, MainGo
<1>21. CASE StopBroadcast
  BY <1>21 DEF StopBroadcast, MainGo, Wake, Blocked
<1>22. CASE JoinThread
  BY <1>22 DEF JoinThread, MainGo
<1>23. CASE JoinNobody
  BY <1>23 DEF JoinNobody, MainGo
<1>24. CASE StopDone
  BY <1>24 DEF StopDone, MainGo
<1>25. CASE StopTwice
  BY <1>25 DEF StopTwice, MainGo
<1>26. CASE Over \/ UNCHANGED vars
  BY <1>26 DEF Over, vars
<1> QED
  BY <1>1, <1>2, <1>3, <1>4, <1>5, <1>6, <1>7, <1>8, <1>9, <1>10, <1>11,
     <1>12, <1>13, <1>14, <1>15, <1>16, <1>17, <1>18, <1>19, <1>20,
     <1>21, <1>22, <1>23, <1>24, <1>25, <1>26
     DEF Next, Thread, MainThread

(* A thread in the middle of the take still finds its task.                *)
LEMMA TakeStep ==
    ASSUME IInv, [Next]_vars
    PROVE  TakeFindsTask'
<1> USE DEF IInv, TypeOK, TakeFindsTask
<1>1. ASSUME NEW t \in Threads, Lock(t)
      PROVE  TakeFindsTask'
  BY <1>1 DEF Lock, Go, mainVars
<1>2. ASSUME NEW t \in Threads, NothingToDo(t)
      PROVE  TakeFindsTask'
  BY <1>2 DEF NothingToDo, Go, mainVars
<1>3. ASSUME NEW t \in Threads, LeaveLoop(t)
      PROVE  TakeFindsTask'
  BY <1>3 DEF LeaveLoop, Go, mainVars
<1>4. ASSUME NEW t \in Threads, Wait(t)
      PROVE  TakeFindsTask'
  BY <1>4 DEF Wait, Go, mainVars
<1>5. ASSUME NEW t \in Threads, SpuriousWakeup(t)
      PROVE  TakeFindsTask'
  BY <1>5 DEF SpuriousWakeup, Go, mainVars
<1>6. ASSUME NEW t \in Threads, Reacquire(t)
      PROVE  TakeFindsTask'
  BY <1>6 DEF Reacquire, Go, mainVars
<1>7. ASSUME NEW t \in Threads, ThreadExit(t)
      PROVE  TakeFindsTask'
  BY <1>7 DEF ThreadExit, Go, mainVars
<1>8. ASSUME NEW t \in Threads, GoOn(t)
      PROVE  TakeFindsTask'
  BY <1>8 DEF GoOn, Go, mainVars, Phases
<1>9. ASSUME NEW t \in Threads, Take(t)
      PROVE  TakeFindsTask'
  <2>1. \A u \in Threads : pc[u] = "take" => u = t
    BY <1>9 DEF Take, Go, MutexHeld, Holding
  <2> QED
    BY <1>9, <2>1 DEF Take, Go
<1>10. ASSUME NEW t \in Threads, Unlock(t)
      PROVE  TakeFindsTask'
  BY <1>10 DEF Unlock, Go, mainVars
<1>11. ASSUME NEW t \in Threads, Run(t)
      PROVE  TakeFindsTask'
  BY <1>11 DEF Run, Go, mainVars
<1>12. CASE CreateThread
  BY <1>12 DEF CreateThread, MainGo
<1>13. CASE Created
  BY <1>13 DEF Created, MainGo
<1>14. CASE AddLock
  BY <1>14 DEF AddLock, MainGo
<1>15. CASE AddPush
  <2>1. taskList' # <<>>
    BY <1>15 DEF AddPush, MainGo
  <2> QED
    BY <2>1
<1>16. CASE AddUnlock
  BY <1>16 DEF AddUnlock, MainGo
<1>17. CASE AddSignal
  BY <1>17 DEF AddSignal, MainGo, Wake, Blocked
<1>18. CASE PollAgain
  BY <1>18 DEF PollAgain, MainGo, vars
<1>19. CASE PollEmpty
  BY <1>19 DEF PollEmpty, MainGo
<1>20. CASE StopSet
  BY <1>20 DEF StopSet, MainGo
<1>21. CASE StopBroadcast
  BY <1>21 DEF StopBroadcast, MainGo, Wake, Blocked
<1>22. CASE JoinThread
  BY <1>22 DEF JoinThread, MainGo
<1>23. CASE JoinNobody
  BY <1>23 DEF JoinNobody, MainGo
<1>24. CASE StopDone
  BY <1>24 DEF StopDone, MainGo
<1>25. CASE StopTwice
  BY <1>25 DEF StopTwice, MainGo
<1>26. CASE Over \/ UNCHANGED vars
  BY <1>26 DEF Over, vars
<1> QED
  BY <1>1, <1>2, <1>3, <1>4, <1>5, <1>6, <1>7, <1>8, <1>9, <1>10, <1>11,
     <1>12, <1>13, <1>14, <1>15, <1>16, <1>17, <1>18, <1>19, <1>20,
     <1>21, <1>22, <1>23, <1>24, <1>25, <1>26
     DEF Next, Thread, MainThread

(* The phases of the main thread and of the threads.                       *)
LEMMA PhasesStep ==
    ASSUME IInv, [Next]_vars
    PROVE  Phases'
<1> USE NumAssumption DEF IInv, TypeOK, Phases
<1>1. ASSUME NEW t \in Threads, Lock(t)
      PROVE  Phases'
  BY <1>1 DEF Lock, Go, mainVars
<1>2. ASSUME NEW t \in Threads, NothingToDo(t)
      PROVE  Phases'
  BY <1>2 DEF NothingToDo, Go, mainVars
<1>3. ASSUME NEW t \in Threads, LeaveLoop(t)
      PROVE  Phases'
  BY <1>3 DEF LeaveLoop, Go, mainVars
<1>4. ASSUME NEW t \in Threads, Wait(t)
      PROVE  Phases'
  BY <1>4 DEF Wait, Go, mainVars
<1>5. ASSUME NEW t \in Threads, SpuriousWakeup(t)
      PROVE  Phases'
  BY <1>5 DEF SpuriousWakeup, Go, mainVars
<1>6. ASSUME NEW t \in Threads, Reacquire(t)
      PROVE  Phases'
  BY <1>6 DEF Reacquire, Go, mainVars
<1>7. ASSUME NEW t \in Threads, ThreadExit(t)
      PROVE  Phases'
  BY <1>7 DEF ThreadExit, Go, mainVars
<1>8. ASSUME NEW t \in Threads, GoOn(t)
      PROVE  Phases'
  BY <1>8 DEF GoOn, Go, mainVars
<1>9. ASSUME NEW t \in Threads, Take(t)
      PROVE  Phases'
  <2>1. \A u \in Threads : u # t => pc[u] # "test"
    BY <1>9 DEF Take, Go, MutexHeld, Holding
  <2>2. Head(taskList) # NoTask
    BY <1>9 DEF Take, Tasks, NoTask
  <2> QED
    BY <1>9, <2>1, <2>2 DEF Take, Go, mainVars
<1>10. ASSUME NEW t \in Threads, Unlock(t)
      PROVE  Phases'
  BY <1>10 DEF Unlock, Go, mainVars
<1>11. ASSUME NEW t \in Threads, Run(t)
      PROVE  Phases'
  BY <1>11 DEF Run, Go, mainVars
<1>12. CASE CreateThread
  BY <1>12 DEF CreateThread, MainGo
<1>13. CASE Created
  BY <1>13 DEF NextAdd, Created, MainGo
<1>14. CASE AddLock
  BY <1>14 DEF AddLock, MainGo
<1>15. CASE AddPush
  BY <1>15 DEF AddPush, MainGo
<1>16. CASE AddUnlock
  BY <1>16 DEF AddUnlock, MainGo
<1>17. CASE AddSignal
  <2>1. \A t \in Threads :
          pc'[t] = pc[t] \/ (pc[t] = "blocked" /\ pc'[t] = "reacquire")
    <3>1. CASE UNCHANGED pc
      BY <3>1
    <3>2. ASSUME NEW u \in Blocked, Wake({u})
          PROVE  \A t \in Threads :
                   pc'[t] = pc[t] \/ (pc[t] = "blocked" /\ pc'[t] = "reacquire")
      BY <3>2 DEF Wake, Blocked
    <3> QED
      BY <1>17, <3>1, <3>2 DEF AddSignal
  <2> QED
    BY <1>17, <2>1 DEF AddSignal, MainGo, NextAdd
<1>18. CASE PollAgain
  BY <1>18 DEF PollAgain, MainGo, vars
<1>19. CASE PollEmpty
  BY <1>19 DEF PollEmpty, MainGo
<1>20. CASE StopSet
  BY <1>20 DEF StopSet, MainGo
<1>21. CASE StopBroadcast
  BY <1>21 DEF StopBroadcast, MainGo, Wake, Blocked
<1>22. CASE JoinThread
  BY <1>22 DEF JoinThread, MainGo
<1>23. CASE JoinNobody
  <2>1. /\ mpc = "join" /\ mpc' \in {"join", "crashed"} /\ m < ThreadNum /\ pc[m + 1] = "none"
        /\ mpc' = "join" => m' = m + 1
        /\ UNCHANGED <<taskList, shutdown, pc, task, added>>
    BY <1>23 DEF JoinNobody, MainGo
  <2>2. \A t \in Threads : mpc' = "join" /\ t <= m' => pc'[t] \in {"exited", "none"}
    BY <2>1 DEF Threads
  <2> QED
    BY <2>1, <2>2
<1>24. CASE StopDone
  BY <1>24 DEF StopDone, MainGo
<1>25. CASE StopTwice
  BY <1>25 DEF StopTwice, MainGo
<1>26. CASE Over \/ UNCHANGED vars
  BY <1>26 DEF Over, vars
<1> QED
  BY <1>1, <1>2, <1>3, <1>4, <1>5, <1>6, <1>7, <1>8, <1>9, <1>10, <1>11,
     <1>12, <1>13, <1>14, <1>15, <1>16, <1>17, <1>18, <1>19, <1>20,
     <1>21, <1>22, <1>23, <1>24, <1>25, <1>26
     DEF Next, Thread, MainThread

(* A list of consecutive tasks: what its head and tail are, and what a     *)
(* task added to it makes of it.                                           *)
LEMMA ConsecutiveTail ==
    ASSUME NEW s \in Seq(Tasks), NEW n \in Nat, s # <<>>,
           \A i \in 1 .. Len(s) : s[i] = n - Len(s) + i
    PROVE  /\ Head(s) = n - Len(s) + 1
           /\ Len(Tail(s)) = Len(s) - 1 /\ Len(s) \in Nat
           /\ \A i \in 1 .. Len(Tail(s)) : Tail(s)[i] = n - Len(Tail(s)) + i
<1>1. Len(s) \in Nat \ {0}
  BY EmptySeq
<1>2. Head(s) = s[1]
  OBVIOUS
<1>3. /\ Len(Tail(s)) = Len(s) - 1
      /\ \A i \in 1 .. Len(Tail(s)) : Tail(s)[i] = s[i + 1]
  BY HeadTailProperties
<1> QED
  BY <1>1, <1>2, <1>3

LEMMA ConsecutiveAppend ==
    ASSUME NEW s \in Seq(Tasks), NEW n \in Nat,
           \A i \in 1 .. Len(s) : s[i] = n - Len(s) + i
    PROVE  LET u == Append(s, n + 1)
           IN  /\ Len(u) = Len(s) + 1 /\ Len(s) \in Nat
               /\ \A i \in 1 .. Len(u) : u[i] = (n + 1) - Len(u) + i
<1>1. Len(s) \in Nat
  BY LenProperties
<1>2. /\ Len(Append(s, n + 1)) = Len(s) + 1
      /\ \A i \in 1 .. Len(s) : Append(s, n + 1)[i] = s[i]
      /\ Append(s, n + 1)[Len(s) + 1] = n + 1
  OBVIOUS
<1> QED
  BY <1>1, <1>2

(* A step that changes neither the list nor who has which task nor what is *)
(* done keeps the account.                                                 *)
LEMMA AccountUnchanged ==
    ASSUME TaskAccounted, UNCHANGED <<taskList, task, added, finished>>
    PROVE  TaskAccounted'
BY DEF TaskAccounted, InHand

(* Every task stays in one place.                                          *)
LEMMA AccountStep ==
    ASSUME IInv, [Next]_vars
    PROVE  TaskAccounted'
<1> USE DEF IInv, TypeOK
<1>1. ASSUME NEW t \in Threads, Take(t)
      PROVE  TaskAccounted'
  <2> DEFINE first == added - Len(taskList) + 1
  <2>1. /\ Head(taskList) = first
        /\ Len(taskList') = Len(taskList) - 1 /\ Len(taskList) \in Nat
        /\ \A i \in 1 .. Len(taskList') : taskList'[i] = added - Len(taskList') + i
    BY <1>1, ConsecutiveTail DEF Take, TaskAccounted
  <2>2. /\ task' = [task EXCEPT ![t] = first]
        /\ added' = added /\ finished' = finished
        /\ first \in Tasks /\ first # NoTask
    <3>1. Head(taskList) \in Tasks
      BY <1>1, HeadTailProperties DEF Take
    <3>2. first \in Tasks
      BY <2>1, <3>1
    <3>3. first # NoTask
      BY <3>2 DEF Tasks, NoTask
    <3>4. task' = [task EXCEPT ![t] = first]
      BY <1>1, <2>1 DEF Take
    <3> HIDE DEF first
    <3> QED
      BY <1>1, <3>2, <3>3, <3>4 DEF Take, mainVars
  <2>3. task[t] = NoTask
    BY <1>1 DEF Take, Go, Phases
  <2>4. InHand' = InHand \cup {first}
    <3>1. \A u \in Threads : task'[u] = IF u = t THEN first ELSE task[u]
      BY <2>2
    <3> QED
      BY <2>2, <2>3, <3>1 DEF InHand
  <2>5. first \notin InHand \cup finished
    BY <2>1 DEF TaskAccounted
  <2>6. InHand' \cup finished' = 1 .. added' - Len(taskList')
    <3>1. 1 .. added - Len(taskList') = (1 .. added - Len(taskList)) \cup {first}
      BY <2>1, <2>2 DEF Tasks
    <3> QED
      BY <2>2, <2>4, <3>1 DEF TaskAccounted
  <2>7. ASSUME NEW u \in Threads, NEW v \in Threads,
               task'[u] = task'[v], task'[u] # NoTask
        PROVE  u = v
    <3>1. \A w \in Threads : w # t /\ task[w] # NoTask => task[w] # first
      BY <2>5 DEF InHand
    <3> QED
      BY <2>2, <2>7, <3>1 DEF TaskAccounted
  <2>8. InHand' \cap finished' = {}
    BY <2>2, <2>4, <2>5 DEF TaskAccounted
  <2>9. \A i \in 1 .. Len(taskList') : taskList'[i] = added' - Len(taskList') + i
    BY <2>1, <2>2
  <2> HIDE DEF IInv, TypeOK, first
  <2> QED
    BY <2>6, <2>7, <2>8, <2>9 DEF TaskAccounted
<1>2. ASSUME NEW t \in Threads, Run(t)
      PROVE  TaskAccounted'
  <2>1. /\ task' = [task EXCEPT ![t] = NoTask]
        /\ finished' = finished \cup {task[t]}
        /\ added' = added /\ taskList' = taskList
        /\ task[t] # NoTask
    BY <1>2 DEF Run, Go, mainVars, Phases
  <2>2. \A u \in Threads : task'[u] = IF u = t THEN NoTask ELSE task[u]
    BY <2>1
  <2>3. InHand' = InHand \ {task[t]}
    BY <2>1, <2>2 DEF InHand, TaskAccounted
  <2>4. task[t] \in InHand
    BY <2>1 DEF InHand
  <2>5. InHand' \cap finished' = {} /\ InHand' \cup finished' = InHand \cup finished
    BY <2>1, <2>3, <2>4 DEF TaskAccounted
  <2> QED
    BY <2>1, <2>2, <2>5 DEF TaskAccounted
<1>3. CASE AddPush
  <2>1. /\ Len(taskList') = Len(taskList) + 1 /\ Len(taskList) \in Nat
        /\ \A i \in 1 .. Len(taskList') : taskList'[i] = added' - Len(taskList') + i
        /\ added' = added + 1
    BY <1>3, ConsecutiveAppend DEF AddPush, TaskAccounted
  <2>2. InHand' = InHand /\ finished' = finished /\ task' = task
    BY <1>3 DEF AddPush, InHand
  <2>3. added' - Len(taskList') = added - Len(taskList)
    BY <2>1
  <2> QED
    BY <2>1, <2>2, <2>3 DEF TaskAccounted
<1>4. ASSUME NEW t \in Threads,
             \/ Lock(t) \/ NothingToDo(t) \/ LeaveLoop(t) \/ Wait(t)
             \/ SpuriousWakeup(t) \/ Reacquire(t) \/ ThreadExit(t) \/ GoOn(t)
             \/ Unlock(t)
      PROVE  TaskAccounted'
  <2>1. UNCHANGED <<taskList, task, added, finished>>
    BY <1>4 DEF Lock, NothingToDo, LeaveLoop, Wait, SpuriousWakeup, Reacquire,
                ThreadExit, GoOn, Unlock, mainVars
  <2> QED
    BY <2>1, AccountUnchanged
<1>5. CASE \/ CreateThread \/ Created \/ AddLock \/ AddUnlock \/ AddSignal
           \/ PollAgain \/ PollEmpty \/ StopSet \/ StopBroadcast
           \/ JoinThread \/ JoinNobody \/ StopDone \/ StopTwice
           \/ Over \/ UNCHANGED vars
  <2>1. UNCHANGED <<taskList, task, added, finished>>
    BY <1>5 DEF CreateThread, Created, AddLock, AddUnlock, AddSignal, PollAgain,
                PollEmpty, StopSet, StopBroadcast, JoinThread, JoinNobody,
                StopDone, StopTwice, Over, vars
  <2> QED
    BY <2>1, AccountUnchanged
<1> QED
  BY <1>1, <1>2, <1>3, <1>4, <1>5 DEF Next, Thread, MainThread

(* Once StopAll has returned, its threads have left and every task is done. *)
LEMMA QuietStep ==
    ASSUME IInv, TypeOK', TaskAccounted', MutexHeld', Phases', [Next]_vars
    PROVE  StoppedQuiet'
<1> SUFFICES ASSUME shutdown', mpc' \in {"poll", "stop", "exit"}
             PROVE  /\ \A t \in Threads : pc'[t] \in {"exited", "none"}
                    /\ owner' = Nobody
                    /\ finished' = Tasks
  BY DEF StoppedQuiet
<1> USE DEF IInv, TypeOK
<1>1. \A t \in Threads : pc'[t] \in {"exited", "none"}
  <2>1. CASE StopDone
    BY <2>1, NumAssumption DEF StopDone, MainGo, Phases, Threads
  <2>2. CASE shutdown /\ mpc \in {"poll", "stop", "exit"} /\ UNCHANGED pc
    BY <2>2 DEF StoppedQuiet
  <2>3. CASE StopSet \/ StopBroadcast \/ JoinThread \/ JoinNobody \/ CreateThread
             \/ Created \/ AddLock \/ AddPush \/ AddUnlock \/ AddSignal
    BY <2>3 DEF StopSet, StopBroadcast, JoinThread, JoinNobody, CreateThread, Created,
                AddLock, AddPush, AddUnlock, AddSignal, MainGo, Phases
  <2>4. CASE PollAgain \/ PollEmpty \/ StopTwice \/ Over \/ UNCHANGED vars
    BY <2>2, <2>4 DEF PollAgain, PollEmpty, StopTwice, Over, MainGo, vars
  <2>5. ASSUME NEW t \in Threads, Thread(t) \/ SpuriousWakeup(t)
        PROVE  FALSE
    <3>1. UNCHANGED mpc /\ pc[t] \notin {"exited", "none"}
      BY <2>5 DEF Thread, Lock, NothingToDo, LeaveLoop, Wait, SpuriousWakeup, Reacquire,
                  ThreadExit, GoOn, Take, Unlock, Run, Go, mainVars
    <3>2. shutdown' = shutdown
      BY <2>5 DEF Thread, Lock, NothingToDo, LeaveLoop, Wait, SpuriousWakeup, Reacquire,
                  ThreadExit, GoOn, Take, Unlock, Run
    <3> QED
      BY <3>1, <3>2 DEF StoppedQuiet
  <2> QED
    BY <2>1, <2>2, <2>3, <2>4, <2>5 DEF Next, MainThread
<1>2. owner' = Nobody
  BY <1>1 DEF MutexHeld, Holding
<1>3. finished' = Tasks
  <2>1. InHand' = {}
    BY <1>1 DEF InHand, Phases
  <2>2. taskList' = <<>> /\ added' = TaskNum
    BY DEF Phases
  <2> QED
    BY <2>1, <2>2, NumAssumption DEF TaskAccounted, Tasks
<1> QED
  BY <1>1, <1>2, <1>3

(* The pool is safe: the mutex protects the list, a thread that takes a    *)
(* task finds one, every task is in one place, and StopAll returns to a    *)
(* quiet pool with every task done. IInv is inductive.                     *)
THEOREM PoolSafe == Spec => []IInv
<1>1. Init => IInv
  <2> SUFFICES ASSUME Init
               PROVE  IInv
    OBVIOUS
  <2>1. TypeOK
    <3>1. <<>> \in Seq(Tasks) /\ 0 \in 0 .. TaskNum /\ 0 \in 0 .. ThreadNum
      BY NumAssumption
    <3> QED
      BY <3>1 DEF Init, TypeOK
  <2>2. MutexHeld
    BY Identities DEF Init, MutexHeld, Holding
  <2>3. TaskAccounted
    BY DEF Init, TaskAccounted, InHand
  <2>4. TakeFindsTask /\ StoppedQuiet /\ Phases
    BY DEF Init, TakeFindsTask, StoppedQuiet, Phases
  <2> QED
    BY <2>1, <2>2, <2>3, <2>4 DEF IInv
<1>2. IInv /\ [Next]_vars => IInv'
  <2> SUFFICES ASSUME IInv, [Next]_vars
               PROVE  IInv'
    OBVIOUS
  <2>1. TypeOK' /\ MutexHeld' /\ TakeFindsTask' /\ TaskAccounted' /\ Phases'
    BY TypeStep, MutexStep, TakeStep, AccountStep, PhasesStep
  <2> QED
    BY <2>1, QuietStep DEF IInv
<1> QED
  BY <1>1, <1>2, PTL DEF Spec

(* The properties of the run, one by one.                                  *)
COROLLARY TakeAlwaysFindsTask == Spec => []TakeFindsTask
<1>1. IInv => TakeFindsTask
  BY DEF IInv
<1> QED
  BY <1>1, PoolSafe, PTL

(* See TaskAccounted.                                                      *)
COROLLARY NoTaskLostOrRunTwice == Spec => []TaskAccounted
<1>1. IInv => TaskAccounted
  BY DEF IInv
<1> QED
  BY <1>1, PoolSafe, PTL

(* See StoppedQuiet.                                                       *)
COROLLARY ExitIsQuiet == Spec => []StoppedQuiet
<1>1. IInv => StoppedQuiet
  BY DEF IInv
<1> QED
  BY <1>1, PoolSafe, PTL
=============================================================================
