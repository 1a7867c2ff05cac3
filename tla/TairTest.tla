------------------------------ MODULE TairTest ------------------------------
(***************************************************************************)
(* The load generator tair_test: the main thread prepares put, get and     *)
(* delete jobs from the key file (TairTest::do_work), deals them out to    *)
(* worker threads (PostJob) and at last destroys the workers (~TairTest),  *)
(* which run their queues empty (TestWork::run).                           *)
(*                                                                         *)
(* Each worker's ring is the bounded queue that MyQueue implements.  A     *)
(* thread may see the other's index late, so that isFull and isEmpty       *)
(* answer for a moment just past; as neither thread learns of the other in *)
(* any other way in between, such an answer is the same as one given then. *)
(*                                                                         *)
(* A key is the number of its line in the key file, and the cursors count  *)
(* lines.  What a key or a value is made of, and what the tair cluster     *)
(* answers, is left out: neither changes what the program does next.  So   *)
(* the model takes for granted that a put sends the key that its line      *)
(* shows: the copy of a key in the job has no NUL of its own (Opjob.cpp:72 *)
(* copies rand_key_len bytes), and doWork takes it up to the first NUL     *)
(* behind it in memory (Thread_work.cpp:122), which may lie further on.    *)
(***************************************************************************)
EXTENDS Integers, Sequences

CONSTANTS MaxWorkers,   \* bound: -n is at most this
          Capacities,   \* jobs a TestWork's queue may hold, 100 in Thread_work.h
          TestCases,    \* jobs of a run, 3 in do_work
          Nums,         \* how many keys a job may have, 10..99 in do_work
          OldLines      \* how many keys earlier runs may have left in the file

ASSUME BoundsAssumption ==
    /\ MaxWorkers \in Nat /\ TestCases \in Nat
    /\ Capacities \subseteq Nat \ {0}
    /\ Nums \subseteq Nat \ {0}
    /\ OldLines \subseteq Nat

VARIABLES
    workNums,   \* _work_nums
    capacity,   \* _size - 1 of the workers' queues
    hasFile,    \* ./keyfile exists: the program opens it and never creates it
    lines,      \* keys in the key file
    readCur,    \* read_cur_pos
    delCur,     \* del_cur_pos
    totalOp,    \* total_op
    testCase,   \* test_case
    selected,   \* _worker_selected
    mpc,        \* where the main thread is, or how the process ended
    k,          \* workers started; later, workers not yet destroyed
    inHand,     \* the job PostJob has still to place, or NoJob
    queue,      \* _queue of each worker, as MyQueue implements it
    canOver,    \* _can_over of each worker
    wpc,        \* where each worker's thread is; "none": there is no thread
    current,    \* do_job of each worker, or NoJob
    keyNo,      \* keys of the current job already done
    executed    \* keys done by all workers: what total_op is meant to count

fixedVars == <<workNums, capacity>>
fileVars == <<hasFile, lines, readCur, delCur>>
workerVars == <<wpc, current, keyNo, executed>>
vars == <<workNums, capacity, hasFile, lines, readCur, delCur, totalOp, testCase, selected,
          mpc, k, inHand, queue, canOver, wpc, current, keyNo, executed>>

Ids == 0 .. MaxWorkers - 1
Workers == {w \in Ids : w < workNums}
Ended == {"exit", "failed", "crashed"}

(* OpJob: the operation and the keys. id is the test case it belongs to. *)
Job(op, keys) == [id |-> testCase, op |-> op, keys |-> keys]
NoJob == [id |-> TestCases, op |-> "none", keys |-> <<>>]

Init == /\ workNums \in 0 .. MaxWorkers
        /\ capacity \in Capacities
        /\ hasFile \in BOOLEAN
        /\ lines \in IF hasFile THEN OldLines ELSE {0}
        /\ readCur = 0 /\ delCur = 0
        /\ totalOp = 0 /\ testCase = 0 /\ selected = 0
        /\ mpc = "start" /\ k = 0 /\ inHand = NoJob
        /\ queue = [w \in Ids |-> <<>>]
        /\ canOver = [w \in Ids |-> FALSE]
        /\ wpc = [w \in Ids |-> "none"]
        /\ current = [w \in Ids |-> NoJob]
        /\ keyNo = [w \in Ids |-> 0]
        /\ executed = 0

-----------------------------------------------------------------------------
(* TestWork::start of the next worker. The client's startup may fail, and  *)
(* pthread_create too (its error is positive, and start tests for a        *)
(* negative one): there is no thread then, and execute goes on.            *)
StartWorker ==
    /\ mpc = "start" /\ k < workNums
    /\ \E pc \in {"poll", "none"} : wpc' = [wpc EXCEPT ![k] = pc]
    /\ k' = k + 1
    /\ UNCHANGED <<fixedVars, fileVars, totalOp, testCase, selected, mpc, inHand,
                   queue, canOver, current, keyNo, executed>>

StartDone ==
    /\ mpc = "start" /\ k = workNums
    /\ mpc' = "case"
    /\ UNCHANGED <<fixedVars, fileVars, totalOp, testCase, selected, k, inHand,
                   queue, canOver, workerVars>>

(* do_work, flag 0: n new keys are appended to the file and put in a job,  *)
(* each as a line of its own: the result of the write of its newline is    *)
(* not looked at (tair_test.cpp:144), and if that one failed, this key and *)
(* the next would be one line.                                             *)
PreparePut(n) ==
    /\ mpc = "case" /\ testCase < TestCases
    /\ hasFile
    /\ lines' = lines + n
    /\ inHand' = Job("put", [i \in 1 .. n |-> lines + i])
    /\ totalOp' = totalOp + n
    /\ mpc' = "post"
    /\ UNCHANGED <<fixedVars, hasFile, readCur, delCur, testCase, selected, k,
                   queue, canOver, workerVars>>

(* do_work, flag 0: no key file, or a write of the disk's last block: the  *)
(* process exits while the workers run.                                    *)
PutFails(n) ==
    /\ mpc = "case" /\ testCase < TestCases
    /\ \E written \in 0 .. n - 1 :
          /\ hasFile \/ written = 0
          /\ lines' = lines + written
    /\ totalOp' = totalOp + n
    /\ mpc' = "failed"
    /\ UNCHANGED <<fixedVars, hasFile, readCur, delCur, testCase, selected, k,
                   inHand, queue, canOver, workerVars>>

Cursor(op) == IF op = "get" THEN readCur ELSE delCur

(* The keys that n calls of fgets read from line cur on, going back to the *)
(* first line at each end of file, and the line where they stop.           *)
LinesRead(cur, n) == [i \in 1 .. n |-> ((cur + i - 1) % lines) + 1]

(* do_work gives a job up at the fifth end of file: when the keys to read, *)
(* counted from the first line of the file, fill it more than five times.  *)
TooShort(cur, n) == cur + n > 5 * lines

(* do_work, flag 1 and 2: n keys are read from the file, from where the    *)
(* last job of the kind stopped. *)
PrepareFetch(op, n) ==
    /\ mpc = "case" /\ testCase < TestCases
    /\ hasFile /\ ~TooShort(Cursor(op), n)
    /\ inHand' = Job(op, LinesRead(Cursor(op), n))
    /\ totalOp' = totalOp + n
    /\ mpc' = "post"
    /\ UNCHANGED <<fixedVars, fileVars, testCase, selected, k,
                   queue, canOver, workerVars>>

(* do_work: the file is too short for the job. The mutant forgets to take  *)
(* the keys back from total_op.                                            *)
AbandonFetchCounted(op, n) ==
    /\ mpc = "case" /\ testCase < TestCases
    /\ hasFile /\ TooShort(Cursor(op), n)
    /\ totalOp' = totalOp + n
    /\ testCase' = testCase + 1
    /\ UNCHANGED <<fixedVars, fileVars, selected, mpc, k, inHand,
                   queue, canOver, workerVars>>

AbandonFetch(op, n) ==
    /\ mpc = "case" /\ testCase < TestCases
    /\ hasFile /\ TooShort(Cursor(op), n)
    /\ testCase' = testCase + 1
    /\ UNCHANGED <<fixedVars, fileVars, totalOp, selected, mpc, k, inHand,
                   queue, canOver, workerVars>>

(* do_work: a read error, or fseek on the NULL that fopen returned. *)
FetchFails(n) ==
    /\ mpc = "case" /\ testCase < TestCases
    /\ totalOp' = totalOp + n
    /\ mpc' = IF hasFile THEN "failed" ELSE "crashed"
    /\ UNCHANGED <<fixedVars, fileVars, testCase, selected, k, inHand,
                   queue, canOver, workerVars>>

NextSelected == (selected + 1) % workNums

(* PostJob: the selected worker takes the job; back in do_work the cursor  *)
(* moves past the keys read. The mutants offer the job twice, and put it   *)
(* in front of the queue.                                                  *)
CursorsAfterPost ==
    LET n == Len(inHand.keys)
    IN  /\ readCur' = IF inHand.op = "get" THEN inHand.keys[n] ELSE readCur
        /\ delCur' = IF inHand.op = "delete" THEN inHand.keys[n] ELSE delCur

AcceptJob(newQueue) ==
    /\ mpc = "post" /\ workNums > 0
    /\ Len(queue[selected]) < capacity
    /\ queue' = newQueue
    /\ CursorsAfterPost
    /\ selected' = NextSelected
    /\ inHand' = NoJob
    /\ testCase' = testCase + 1
    /\ mpc' = "case"
    /\ UNCHANGED <<fixedVars, hasFile, lines, totalOp, k, canOver, workerVars>>

PostJobTwice ==
    AcceptJob([w \in Ids |-> IF w \in {selected, NextSelected}
                             THEN Append(queue[w], inHand) ELSE queue[w]])

PostJobInFront == AcceptJob([queue EXCEPT ![selected] = <<inHand>> \o @])

PostJob == AcceptJob([queue EXCEPT ![selected] = Append(@, inHand)])

(* PostJob: the selected worker's queue is full, the next one is tried.    *)
(* The mutant keeps trying the same one.                                   *)
RetrySame ==
    /\ mpc = "post" /\ workNums > 0
    /\ Len(queue[selected]) = capacity
    /\ selected' = selected
    /\ UNCHANGED <<fixedVars, fileVars, totalOp, testCase, mpc, k, inHand,
                   queue, canOver, workerVars>>

RetryNext ==
    /\ mpc = "post" /\ workNums > 0
    /\ Len(queue[selected]) = capacity
    /\ selected' = NextSelected
    /\ UNCHANGED <<fixedVars, fileVars, totalOp, testCase, mpc, k, inHand,
                   queue, canOver, workerVars>>

(* PostJob without workers: beyond the empty array, then a division by 0. *)
PostToNobody ==
    /\ mpc = "post" /\ workNums = 0
    /\ mpc' = "crashed"
    /\ UNCHANGED <<fixedVars, fileVars, totalOp, testCase, selected, k, inHand,
                   queue, canOver, workerVars>>

-----------------------------------------------------------------------------
(* execute prints total_op and returns; main returns and destroys the tool. *)
DoWorkDone ==
    /\ mpc = "case" /\ testCase = TestCases
    /\ mpc' = "destroy"
    /\ UNCHANGED <<fixedVars, fileVars, totalOp, testCase, selected, k, inHand,
                   queue, canOver, workerVars>>

(* ~TestWork of the last worker left: _can_over = 1 ... *)
StopWorker ==
    /\ mpc = "destroy" /\ k > 0 /\ ~canOver[k - 1]
    /\ canOver' = [canOver EXCEPT ![k - 1] = TRUE]
    /\ UNCHANGED <<fixedVars, fileVars, totalOp, testCase, selected, mpc, k, inHand,
                   queue, workerVars>>

(* ... and pthread_join. The mutant does not wait. *)
DetachWorker ==
    /\ mpc = "destroy" /\ k > 0 /\ canOver[k - 1]
    /\ wpc[k - 1] # "none"
    /\ k' = k - 1
    /\ UNCHANGED <<fixedVars, fileVars, totalOp, testCase, selected, mpc, inHand,
                   queue, canOver, workerVars>>

JoinWorker ==
    /\ mpc = "destroy" /\ k > 0 /\ canOver[k - 1]
    /\ wpc[k - 1] = "exited"
    /\ k' = k - 1
    /\ UNCHANGED <<fixedVars, fileVars, totalOp, testCase, selected, mpc, inHand,
                   queue, canOver, workerVars>>

(* pthread_join on a _work_thread nobody has set: it fails, or it crashes. *)
JoinNobody ==
    /\ mpc = "destroy" /\ k > 0 /\ canOver[k - 1]
    /\ wpc[k - 1] = "none"
    /\ \/ k' = k - 1 /\ UNCHANGED mpc
       \/ mpc' = "crashed" /\ UNCHANGED k
    /\ UNCHANGED <<fixedVars, fileVars, totalOp, testCase, selected, inHand,
                   queue, canOver, workerVars>>

Exit ==
    /\ mpc = "destroy" /\ k = 0
    /\ mpc' = "exit"
    /\ UNCHANGED <<fixedVars, fileVars, totalOp, testCase, selected, k, inHand,
                   queue, canOver, workerVars>>

-----------------------------------------------------------------------------
mainVars == <<fixedVars, fileVars, totalOp, testCase, selected, mpc, k, inHand, canOver>>

(* run: the queue is not empty, the oldest job is popped. *)
PopJob(w) ==
    /\ mpc \notin Ended
    /\ wpc[w] = "poll" /\ queue[w] # <<>>
    /\ current' = [current EXCEPT ![w] = Head(queue[w])]
    /\ queue' = [queue EXCEPT ![w] = Tail(@)]
    /\ keyNo' = [keyNo EXCEPT ![w] = 0]
    /\ wpc' = [wpc EXCEPT ![w] = "work"]
    /\ UNCHANGED <<mainVars, executed>>

(* run: the queue is empty ... *)
FindEmpty(w) ==
    /\ mpc \notin Ended
    /\ wpc[w] = "poll" /\ queue[w] = <<>>
    /\ wpc' = [wpc EXCEPT ![w] = "check"]
    /\ UNCHANGED <<mainVars, queue, current, keyNo, executed>>

(* ... and the worker leaves if it may, or sleeps and polls again. The     *)
(* mutant never leaves.                                                    *)
CheckOverNever(w) ==
    /\ mpc \notin Ended
    /\ wpc[w] = "check"
    /\ wpc' = [wpc EXCEPT ![w] = "poll"]
    /\ UNCHANGED <<mainVars, queue, current, keyNo, executed>>

CheckOver(w) ==
    /\ mpc \notin Ended
    /\ wpc[w] = "check"
    /\ wpc' = [wpc EXCEPT ![w] = IF canOver[w] THEN "exited" ELSE "poll"]
    /\ UNCHANGED <<mainVars, queue, current, keyNo, executed>>

(* doWork: the put, get or remove of the next key; whatever it answers. *)
DoKey(w) ==
    /\ mpc \notin Ended
    /\ wpc[w] = "work" /\ keyNo[w] < Len(current[w].keys)
    /\ keyNo' = [keyNo EXCEPT ![w] = @ + 1]
    /\ executed' = executed + 1
    /\ UNCHANGED <<mainVars, queue, wpc, current>>

(* run: delete do_job. *)
DeleteJob(w) ==
    /\ mpc \notin Ended
    /\ wpc[w] = "work" /\ keyNo[w] = Len(current[w].keys)
    /\ current' = [current EXCEPT ![w] = NoJob]
    /\ keyNo' = [keyNo EXCEPT ![w] = 0]
    /\ wpc' = [wpc EXCEPT ![w] = "poll"]
    /\ UNCHANGED <<mainVars, queue, executed>>

Prepare == \E n \in Nums :
              \/ PreparePut(n) \/ PutFails(n) \/ FetchFails(n)
              \/ \E op \in {"get", "delete"} : PrepareFetch(op, n) \/ AbandonFetch(op, n)
Post == PostJob \/ RetryNext \/ PostToNobody
Destroy == DoWorkDone \/ StopWorker \/ JoinWorker \/ JoinNobody \/ Exit
MainThread == StartWorker \/ StartDone \/ Prepare \/ Post \/ Destroy
WorkerThread(w) == PopJob(w) \/ FindEmpty(w) \/ CheckOver(w) \/ DoKey(w) \/ DeleteJob(w)

Over == mpc \in Ended /\ UNCHANGED vars

Next == MainThread \/ (\E w \in Ids : WorkerThread(w)) \/ Over

Spec == Init /\ [][Next]_vars

(* Every thread is scheduled; no call of the tair client hangs, as each    *)
(* has a time limit.                                                       *)
FairSpec == Spec /\ WF_vars(MainThread) /\ \A w \in Ids : WF_vars(WorkerThread(w))

-----------------------------------------------------------------------------
JobType == [id : 0 .. TestCases, op : {"put", "get", "delete", "none"}, keys : Seq(Nat)]

TypeOK ==
    /\ workNums \in 0 .. MaxWorkers /\ capacity \in Capacities
    /\ hasFile \in BOOLEAN
    /\ lines \in Nat /\ readCur \in 0 .. lines /\ delCur \in 0 .. lines
    /\ totalOp \in Nat /\ testCase \in 0 .. TestCases /\ executed \in Nat
    /\ selected \in Workers \cup {0}
    /\ mpc \in {"start", "case", "post", "destroy"} \cup Ended
    /\ k \in 0 .. workNums
    /\ inHand \in JobType
    /\ queue \in [Ids -> Seq(JobType)]
    /\ canOver \in [Ids -> BOOLEAN]
    /\ wpc \in [Ids -> {"none", "poll", "check", "work", "exited"}]
    /\ current \in [Ids -> JobType]
    /\ keyNo \in [Ids -> Nat]

(* The jobs a worker has still to finish, the current one first. *)
Line(w) == (IF current[w] = NoJob THEN <<>> ELSE <<current[w]>>) \o queue[w]

(* A job is one allocation with one owner, who deletes it: it is in one    *)
(* place of one worker's line, and PostJob does not hold on to it          *)
(* (Thread_work.cpp:95 deletes it, tair_test.cpp:111 may offer it to       *)
(* several workers).                                                       *)
JobOwnership ==
    /\ \A w, v \in Ids : \A i \in 1 .. Len(Line(w)), j \in 1 .. Len(Line(v)) :
          Line(w)[i].id = Line(v)[j].id => w = v /\ i = j
    /\ \A w \in Ids : \A i \in 1 .. Len(Line(w)) : Line(w)[i].id < testCase
    /\ \A w \in Ids : Len(queue[w]) <= capacity

(* A key is got or deleted after it was put, as far as one worker can see  *)
(* to it: in no worker's line does a job that uses a key come before the   *)
(* job that puts it, although do_work shows the key to later jobs, through *)
(* the key file, before it posts the put (tair_test.cpp:138 and :148).     *)
PutBeforeUse ==
    \A w \in Ids : \A i, j \in 1 .. Len(Line(w)) :
        i < j /\ Line(w)[i].op # "put" /\ Line(w)[j].op = "put"
            => \A a \in 1 .. Len(Line(w)[i].keys), b \in 1 .. Len(Line(w)[j].keys) :
                  Line(w)[i].keys[a] # Line(w)[j].keys[b]

(* The sum of a sequence of numbers. *)
Total(numbers) ==
    LET upTo[i \in 0 .. Len(numbers)] == IF i = 0 THEN 0 ELSE upTo[i - 1] + numbers[i]
    IN upTo[Len(numbers)]

KeysOf(jobs) == Total([i \in 1 .. Len(jobs) |-> Len(jobs[i].keys)])
KeysLeft == Total([i \in 1 .. MaxWorkers |-> KeysOf(Line(i - 1)) - keyNo[i - 1]])

(* total_op counts the keys done and those that are still to be done,      *)
(* through abandoned jobs, retries and queues of dead workers.             *)
TotalOpAccounts ==
    mpc \notin {"failed", "crashed"} =>
        totalOp = executed + KeysLeft + Len(inHand.keys)

(* A TestWork is destroyed, and its queue freed, only when its thread has  *)
(* left run(); and no thread leaves before it is told to.                  *)
DestroyedQuiet ==
    /\ mpc \in {"destroy", "exit"} => \A w \in Workers : w >= k => wpc[w] \in {"exited", "none"}
    /\ \A w \in Ids : wpc[w] = "exited" => canOver[w] /\ current[w] = NoJob

(* With one live worker the run comes to an end: PostJob finds room, the   *)
(* workers see _can_over, and every join returns.                          *)
Terminates ==
    (mpc = "case" /\ \E w \in Workers : wpc[w] # "none") ~> mpc \in Ended

(* What the report "Tair test total operation" (tair_test.cpp:104) says of *)
(* a run whose workers have all started: at the normal end, total_op       *)
(* operations were made.                                                   *)
AllOperationsMade ==
    mpc = "exit" /\ (\A w \in Workers : wpc[w] # "none") => executed = totalOp
=============================================================================
