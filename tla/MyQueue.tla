------------------------------- MODULE MyQueue -------------------------------
(***************************************************************************)
(* The ring MY_Queue (my_queue.h) between its two users: the main thread,  *)
(* which offers jobs (TestWork::offerJob) and at the end tells the worker  *)
(* that it may be over (TestWork::~TestWork), and one worker thread, which *)
(* polls and pops them (TestWork::run).  The ring has no lock and no       *)
(* atomics: both threads read each other's index while it is written, a    *)
(* data race.  The makefile builds with g++ -g and no -O, so every access  *)
(* in the source is one aligned load or store, in program order, and what  *)
(* is left to chance is when a store leaves its core's store buffer (x86): *)
(* the stores of one thread become visible late, but in order.             *)
(*                                                                         *)
(* start, end and buff are the values in program order, as the thread that *)
(* writes them sees them.  seenStart, seenEnd and seenBuff are what is in  *)
(* memory, where the other thread reads.  The Drain actions move stores    *)
(* from the one to the other.                                              *)
(***************************************************************************)
EXTENDS Naturals, Sequences

CONSTANTS Jobs,      \* the OpJob objects the main thread may allocate
          NoJob,     \* no job; also what a slot holds before its first store
          Size       \* _size: the slots of _buff, one more than the capacity

ASSUME SizeAssumption == Size \in Nat /\ Size >= 2
ASSUME NoJobAssumption == NoJob \notin Jobs

VARIABLES
    start,      \* _start, stored by the worker
    end,        \* _end, stored by the main thread
    buff,       \* _buff, stored by the main thread
    seenStart,  \* _start as the main thread can load it
    seenEnd,    \* _end as the worker can load it
    seenBuff,   \* _buff as the worker can load it
    slotSeen,   \* the slot store of the push that seenEnd waits for is in memory
    seenOver,   \* _can_over as the worker can load it
    mpc,        \* main thread: "idle", in push() before "slot" or "advance",
                \* or "stopped": it has stored _can_over
    offered,    \* the job the main thread is pushing
    wpc,        \* worker: "poll", "asked" (found the ring empty, has not yet
                \* looked at _can_over), in pop() before "load" or "advance",
                \* "work", or "left" (run has returned)
    data,       \* pop()'s local variable
    job         \* do_job, the job the worker executes

ringVars == <<start, end, buff>>
seenVars == <<seenStart, seenEnd, seenBuff, slotSeen, seenOver>>
mainVars == <<mpc, offered>>
workerVars == <<wpc, data, job>>
vars == <<start, end, buff, seenStart, seenEnd, seenBuff, slotSeen, seenOver,
          mpc, offered, wpc, data, job>>

Slots == 0 .. Size - 1

(* The index after i: (_start + 1) % _size and (_end + 1) % _size.         *)
Inc(i) == (i + 1) % Size

(* How many steps of the ring lead from slot a to slot b. *)
Dist(a, b) == IF a <= b THEN b - a ELSE b + Size - a

(* The slot k steps after slot a, for k < Size. *)
Ahead(a, k) == IF a + k < Size THEN a + k ELSE a + k - Size

(* The slots of ring b from index s up to index e, as a sequence. *)
Window(b, s, e) == [k \in 1 .. Dist(s, e) |-> b[Ahead(s, k - 1)]]

(* The jobs pushed and not yet popped, oldest first. *)
Queued == Window(buff, start, end)

Waiting(j) == \E i \in Slots : Dist(start, i) < Dist(start, end) /\ buff[i] = j
Alive(j) == j = job \/ Waiting(j)

(* The worker can find job j in memory.                                    *)
Visible(j) ==
    \E i \in Slots : Dist(start, i) < Dist(start, seenEnd) /\ seenBuff[i] = j

-----------------------------------------------------------------------------
(* MY_Queue::isFull, loaded by the main thread.  The mutant lets a push    *)
(* take the slot that tells a full ring from an empty one.                 *)
IsFullNoSpare == FALSE
IsFull == Inc(end) = seenStart

(* MY_Queue::isEmpty, loaded by the worker.                                *)
IsEmpty == seenEnd % Size = start

(* MY_Queue(int size); a fresh worker. _buff is new T[_size]: no slot holds *)
(* a job.                                                                   *)
Init == /\ start = 0 /\ seenStart = 0
        /\ end = 0 /\ seenEnd = 0
        /\ buff = [i \in Slots |-> NoJob] /\ seenBuff = buff
        /\ slotSeen = FALSE /\ seenOver = FALSE
        /\ mpc = "idle" /\ offered = NoJob
        /\ wpc = "poll" /\ data = NoJob /\ job = NoJob

(* offerJob(j) on a ring that is not full, up to its call of push. On a    *)
(* full ring it returns false and changes nothing: a stuttering step. j is *)
(* fresh from new OpJob, so it is not the address of a job still alive.    *)
OfferJob(j) ==
    /\ mpc = "idle"
    /\ ~IsFull
    /\ ~Alive(j)
    /\ offered' = j
    /\ mpc' = "slot"
    /\ UNCHANGED <<ringVars, seenVars, workerVars>>

(* push: _buff[_end] = job *)
StoreSlot ==
    /\ mpc = "slot"
    /\ buff' = [buff EXCEPT ![end] = offered]
    /\ mpc' = "advance"
    /\ UNCHANGED <<start, end, offered, seenVars, workerVars>>

(* push: _end = (_end + 1) % _size, and offerJob returns true *)
StoreEnd ==
    /\ mpc = "advance"
    /\ end' = Inc(end)
    /\ mpc' = "idle"
    /\ offered' = NoJob
    /\ UNCHANGED <<start, buff, seenVars, workerVars>>

(* ~TestWork: _can_over = 1, and from there on the destructor waits in     *)
(* pthread_join.  The program's one thread has posted all its jobs by then *)
(* and offers no more.                                                     *)
StoreOver ==
    /\ mpc = "idle"
    /\ mpc' = "stopped"
    /\ UNCHANGED <<offered, ringVars, seenVars, workerVars>>

(* run: the worker finds the ring not empty and calls pop.                 *)
Poll ==
    /\ wpc = "poll"
    /\ ~IsEmpty
    /\ wpc' = "load"
    /\ UNCHANGED <<ringVars, seenVars, mainVars, data, job>>

(* run: the worker finds the ring empty.  The mutant is the worker that    *)
(* looks at _can_over first and at the ring afterwards.                    *)
PollAnyhow ==
    /\ wpc = "poll"
    /\ wpc' = "asked"
    /\ UNCHANGED <<ringVars, seenVars, mainVars, data, job>>

PollEmpty ==
    /\ wpc = "poll"
    /\ IsEmpty
    /\ wpc' = "asked"
    /\ UNCHANGED <<ringVars, seenVars, mainVars, data, job>>

(* run: if(_can_over) break, or else the worker sleeps and polls again.    *)
AskOver ==
    /\ wpc = "asked"
    /\ wpc' = IF seenOver THEN "left" ELSE "poll"
    /\ UNCHANGED <<ringVars, seenVars, mainVars, data, job>>

(* pop: T data = _buff[_start] *)
LoadSlot ==
    /\ wpc = "load"
    /\ data' = seenBuff[start]
    /\ wpc' = "advance"
    /\ UNCHANGED <<ringVars, seenVars, mainVars, job>>

(* pop: _start = (_start + 1) % _size, and do_job is what it returns.  The *)
(* mutants forget the store, and read the slot after the index has moved.  *)
StoreStartForgotten ==
    /\ wpc = "advance"
    /\ job' = data
    /\ data' = NoJob
    /\ wpc' = "work"
    /\ UNCHANGED <<start, end, buff, seenVars, mainVars>>

StoreStartBeforeLoad ==
    /\ wpc = "advance"
    /\ start' = Inc(start)
    /\ job' = seenBuff[start']
    /\ data' = NoJob
    /\ wpc' = "work"
    /\ UNCHANGED <<end, buff, seenVars, mainVars>>

StoreStart ==
    /\ wpc = "advance"
    /\ start' = Inc(start)
    /\ job' = data
    /\ data' = NoJob
    /\ wpc' = "work"
    /\ UNCHANGED <<end, buff, seenVars, mainVars>>

(* run: doWork(do_job) returns and the job is deleted *)
FinishJob ==
    /\ wpc = "work"
    /\ job' = NoJob
    /\ wpc' = "poll"
    /\ UNCHANGED <<ringVars, seenVars, mainVars, data>>

(* The main thread's store buffer: slot store and index store of each push, *)
(* in that order.                                                           *)
DrainSlot ==
    /\ ~slotSeen
    /\ seenEnd # end \/ mpc = "advance"
    /\ seenBuff' = [seenBuff EXCEPT ![seenEnd] = buff[seenEnd]]
    /\ slotSeen' = TRUE
    /\ UNCHANGED <<ringVars, seenStart, seenEnd, seenOver, mainVars, workerVars>>

DrainEnd ==
    /\ slotSeen
    /\ seenEnd # end
    /\ seenEnd' = Inc(seenEnd)
    /\ slotSeen' = FALSE
    /\ UNCHANGED <<ringVars, seenStart, seenBuff, seenOver, mainVars, workerVars>>

(* The worker's store buffer. *)
DrainStart ==
    /\ seenStart # start
    /\ seenStart' = Inc(seenStart)
    /\ UNCHANGED <<ringVars, seenEnd, seenBuff, slotSeen, seenOver, mainVars, workerVars>>

(* The store of _can_over, which comes after those of every push. *)
DrainOver ==
    /\ mpc = "stopped"
    /\ ~seenOver
    /\ seenEnd = end
    /\ seenOver' = TRUE
    /\ UNCHANGED <<ringVars, seenStart, seenEnd, seenBuff, slotSeen, mainVars, workerVars>>

(* The worker has left and pthread_join returns: nothing more happens.     *)
Ended ==
    /\ wpc = "left"
    /\ seenStart = start
    /\ UNCHANGED vars

Main == (\E j \in Jobs : OfferJob(j)) \/ StoreSlot \/ StoreEnd \/ StoreOver
Worker == \/ Poll \/ PollEmpty \/ AskOver
          \/ LoadSlot \/ StoreStart \/ FinishJob
Drain == DrainSlot \/ DrainEnd \/ DrainStart \/ DrainOver

Next == Main \/ Worker \/ Drain \/ Ended

Spec == Init /\ [][Next]_vars

(* The worker thread is scheduled, doWork returns (every tair call has a   *)
(* time limit), a push in progress is finished, and a store buffer drains  *)
(* in finite time. Nothing makes the main thread offer a job or stop.      *)
Fairness == /\ WF_vars(Worker)
            /\ WF_vars(StoreSlot \/ StoreEnd)
            /\ WF_vars(DrainSlot \/ DrainEnd \/ DrainOver)
            /\ WF_vars(DrainStart)

FairSpec == Spec /\ Fairness
-----------------------------------------------------------------------------
TypeOK ==
    /\ start \in Slots /\ end \in Slots
    /\ seenStart \in Slots /\ seenEnd \in Slots
    /\ buff \in [Slots -> Jobs \cup {NoJob}]
    /\ seenBuff \in [Slots -> Jobs \cup {NoJob}]
    /\ slotSeen \in BOOLEAN
    /\ seenOver \in BOOLEAN
    /\ mpc \in {"idle", "slot", "advance", "stopped"}
    /\ offered \in Jobs \cup {NoJob}
    /\ wpc \in {"poll", "asked", "load", "advance", "work", "left"}
    /\ data \in Jobs \cup {NoJob}
    /\ job \in Jobs \cup {NoJob}

(* What each thread believes lags behind the truth on the safe side: going *)
(* round the ring from where the main thread sees _start one meets _start, *)
(* then _end as the worker sees it, then _end, in less than one turn, and  *)
(* one slot earlier while a push is in progress (my_queue.h:50 reads the   *)
(* worker's index, :56 the main thread's, without a lock).                 *)
RingOrder ==
    Dist(seenStart, start) + Dist(start, seenEnd) + Dist(seenEnd, end)
        <= IF mpc \in {"slot", "advance"} THEN Size - 2 ELSE Size - 1

(* Every slot the worker's isEmpty lets it reach holds, in memory, the job *)
(* the main thread last stored there: the index is never seen before the   *)
(* slot (the order of my_queue.h:70 and :71), and no later push has taken  *)
(* the slot before the worker read it.                                     *)
Published ==
    \A i \in Slots :
        Dist(start, i) < Dist(start, seenEnd) => seenBuff[i] = buff[i]

(* In the middle of pop() the slot is still the worker's: the ring is not  *)
(* empty and the value loaded is the oldest job, though the main thread    *)
(* pushes in between (my_queue.h:62 and :63 are two steps).                *)
PopHoldsOldest ==
    /\ wpc \in {"load", "advance"} => start # seenEnd
    /\ wpc = "advance" => data = buff[start]

(* A job is an owned pointer (Thread_work.cpp:95 deletes it): it waits in  *)
(* one slot, or is being pushed, or is in the worker's hands, and never in *)
(* two of these places; a job in hand is a job, never an unset slot.       *)
SingleOwner ==
    /\ \A i, k \in Slots :
          /\ Dist(start, i) < Dist(start, end)
          /\ Dist(start, k) < Dist(start, end)
          /\ buff[i] = buff[k]
          => i = k
    /\ ~Waiting(NoJob)
    /\ job # NoJob <=> wpc = "work"
    /\ offered # NoJob <=> mpc \in {"slot", "advance"}
    /\ offered # NoJob => ~Alive(offered)
    /\ job # NoJob => ~Waiting(job)

(* What completes the invariant to an inductive one: the two half-done     *)
(* pushes, the main thread's own and the one its store buffer holds.       *)
HalfPushed ==
    /\ mpc = "advance" => buff[end] = offered
    /\ slotSeen => /\ seenBuff[seenEnd] = buff[seenEnd]
                   /\ seenEnd # end \/ mpc = "advance"

IInv == /\ TypeOK
        /\ RingOrder
        /\ Published
        /\ PopHoldsOldest
        /\ SingleOwner
        /\ HalfPushed

(* The ring, its two unsynchronized users and their store buffers promise  *)
(* exactly what a bounded first-in first-out queue promises.  A push takes *)
(* effect when _end is stored, a pop when _start is.                       *)
Fifo == INSTANCE BoundedFifo WITH queue <- Queued,
                                  taken <- job,
                                  Capacity <- Size - 1

ImplementsFifo == Fifo!Spec

(* No job offered is forgotten by a worker that goes on: each one that     *)
(* waits is executed, or the worker leaves (Thread_work.cpp:79-80).  And   *)
(* it leaves behind no job but one whose index reached memory between its  *)
(* look at the ring (:77) and its look at _can_over (:79): a job it can    *)
(* find when it is not between the two is executed, whatever is stored     *)
(* meanwhile.                                                              *)
EveryJobExecuted ==
    \A j \in Jobs :
        /\ Waiting(j) ~> job = j \/ wpc = "left"
        /\ Visible(j) /\ wpc \notin {"asked", "left"} ~> job = j

(* offerJob cannot refuse for ever: PostJob's retry on a full ring ends    *)
(* (tair_test.cpp:109), because the worker's _start reaches the main       *)
(* thread, and no worker leaves before the main thread has stopped.        *)
RefusalEnds == IsFull ~> ~IsFull \/ mpc = "stopped"
=============================================================================
