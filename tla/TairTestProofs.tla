--------------------------- MODULE TairTestProofs ---------------------------
(***************************************************************************)
(* Jobs of the load generator have one owner, their keys are put before    *)
(* they are used and counted once in total_op, and a worker is destroyed   *)
(* after its thread has left, for any number of workers, jobs, keys and    *)
(* old lines.                                                              *)
(***************************************************************************)
EXTENDS TairTest, SequenceTheorems, WellFoundedInduction, TLAPS

(* A worker has a job while it works; workers come into being one by one.  *)
WorkersKept ==
    /\ \A w \in Ids : wpc[w] = "work" <=> current[w] # NoJob
    /\ mpc = "start" => \A w \in Ids : w >= k => wpc[w] = "none"
    /\ mpc \in {"case", "post"} => k = workNums

(* The job in hand is a new one, and its keys are in the file.             *)
HandKept ==
    /\ mpc = "post" => inHand.id = testCase /\ testCase < TestCases /\ inHand.keys # <<>>
    /\ mpc = "post" /\ inHand.op # "put" => hasFile
    /\ \A a \in 1 .. Len(inHand.keys) : inHand.keys[a] <= lines

Written == \A w \in Ids : \A i \in 1 .. Len(Line(w)) :
               \A a \in 1 .. Len(Line(w)[i].keys) : Line(w)[i].keys[a] <= lines

(* The keys of a put are newer than those of any job before it.            *)
Newer(later, earlier) ==
    later.op = "put" => \A a \in 1 .. Len(earlier.keys), b \in 1 .. Len(later.keys) :
                            earlier.keys[a] < later.keys[b]

PutsNewer ==
    \A w \in Ids :
        /\ \A i, j \in 1 .. Len(Line(w)) : i < j => Newer(Line(w)[j], Line(w)[i])
        /\ mpc = "post" => \A i \in 1 .. Len(Line(w)) : Newer(inHand, Line(w)[i])

IInv == TypeOK /\ WorkersKept /\ HandKept /\ Written /\ PutsNewer /\ JobOwnership /\ DestroyedQuiet

-----------------------------------------------------------------------------
(* A line of jobs, the current one first.                                  *)
Row(c, q) == (IF c = NoJob THEN <<>> ELSE <<c>>) \o q

LEMMA RowFacts ==
    ASSUME NEW c \in JobType, NEW q \in Seq(JobType)
    PROVE  /\ Row(c, q) \in Seq(JobType)
           /\ c = NoJob => Row(c, q) = q
           /\ c # NoJob => /\ Len(Row(c, q)) = Len(q) + 1 /\ Row(c, q)[1] = c
                          /\ \A i \in 1 .. Len(q) : Row(c, q)[i + 1] = q[i]
<1>1. CASE c = NoJob
  BY <1>1, ConcatEmptySeq DEF Row
<1>2. CASE c # NoJob
  <2>1. Row(c, q) = <<c>> \o q /\ <<c>> \in Seq(JobType) /\ Len(<<c>>) = 1 /\ <<c>>[1] = c
    BY <1>2 DEF Row
  <2>2. /\ Row(c, q) \in Seq(JobType) /\ Len(Row(c, q)) = 1 + Len(q)
        /\ \A i \in 1 .. 1 + Len(q) : Row(c, q)[i] = IF i <= 1 THEN <<c>>[i] ELSE q[i - 1]
    BY <2>1, ConcatProperties
  <2>3. Len(q) \in Nat
    OBVIOUS
  <2>4. \A i \in 1 .. Len(q) : Row(c, q)[i + 1] = q[i]
    <3>1. SUFFICES ASSUME NEW i \in 1 .. Len(q) PROVE Row(c, q)[i + 1] = q[i]
      OBVIOUS
    <3>2. i + 1 \in 1 .. 1 + Len(q) /\ ~(i + 1 <= 1) /\ (i + 1) - 1 = i
      BY <2>3
    <3> QED
      BY <2>2, <3>2
  <2> QED
    BY <1>2, <2>1, <2>2, <2>3, <2>4
<1> QED
  BY <1>1, <1>2

(* A pop moves the head of the queue into the empty hands of its worker,   *)
(* and leaves the line as it is; a delete takes the first job out of it.   *)
LEMMA RowPop ==
    ASSUME NEW q \in Seq(JobType), q # <<>>, Head(q) # NoJob
    PROVE  Row(Head(q), Tail(q)) = Row(NoJob, q)
<1>1. /\ Head(q) \in JobType /\ Tail(q) \in Seq(JobType) /\ Len(Tail(q)) = Len(q) - 1
      /\ \A i \in 1 .. Len(Tail(q)) : Tail(q)[i] = q[i + 1]
  BY HeadTailProperties
<1> DEFINE r == Row(Head(q), Tail(q))
<1>2. /\ r \in Seq(JobType) /\ Len(r) = Len(Tail(q)) + 1 /\ r[1] = Head(q)
      /\ \A i \in 1 .. Len(Tail(q)) : r[i + 1] = Tail(q)[i]
  BY <1>1, RowFacts
<1>3. Row(NoJob, q) = q
  BY ConcatEmptySeq DEF Row
<1>4. ASSUME NEW i \in 1 .. Len(q) PROVE r[i] = q[i]
  <2>1. CASE i = 1
    BY <1>2, <2>1
  <2>2. CASE i # 1
    <3>1. i - 1 \in 1 .. Len(Tail(q)) /\ (i - 1) + 1 = i
      BY <1>1, <2>2
    <3> QED
      BY <1>1, <1>2, <3>1
  <2> QED
    BY <2>1, <2>2
<1>5. Len(r) = Len(q) /\ Len(q) \in Nat
  BY <1>1, <1>2
<1> QED
  BY <1>2, <1>3, <1>4, <1>5

(* A job that is appended to the queue comes to the end of the line.       *)
LEMMA RowAppend ==
    ASSUME NEW c \in JobType, NEW q \in Seq(JobType), NEW job \in JobType
    PROVE  Row(c, Append(q, job)) = Append(Row(c, q), job)
<1>1. Append(q, job) \in Seq(JobType) /\ Append(q, job) = q \o <<job>> /\ <<job>> \in Seq(JobType)
  BY AppendIsConcat
<1>2. CASE c = NoJob
  BY <1>1, <1>2, RowFacts
<1>3. CASE c # NoJob
  <2>1. Row(c, Append(q, job)) = <<c>> \o (q \o <<job>>) /\ Row(c, q) = <<c>> \o q
    BY <1>1, <1>3 DEF Row
  <2>2. <<c>> \in Seq(JobType) /\ <<c>> \o q \in Seq(JobType)
    BY ConcatProperties
  <2>3. <<c>> \o (q \o <<job>>) = (<<c>> \o q) \o <<job>>
    BY <1>1, <2>2, ConcatAssociative
  <2>4. (<<c>> \o q) \o <<job>> = Append(<<c>> \o q, job)
    BY <2>2, AppendIsConcat
  <2> QED
    BY <2>1, <2>3, <2>4
<1> QED
  BY <1>2, <1>3

-----------------------------------------------------------------------------
LEMMA NoJobTyped == NoJob \in JobType
BY BoundsAssumption DEF NoJob, JobType

(* The lines fgets reads are lines of the file.                            *)
LEMMA LinesReadFacts ==
    ASSUME TypeOK, NEW cur \in Nat, NEW n \in Nat, ~TooShort(cur, n), n > 0
    PROVE  /\ LinesRead(cur, n) \in Seq(Nat) /\ Len(LinesRead(cur, n)) = n
           /\ \A a \in 1 .. n : LinesRead(cur, n)[a] \in 1 .. lines
<1>1. lines \in Nat \ {0}
  BY DEF TypeOK, TooShort
<1>2. \A a \in Nat : a % lines \in 0 .. lines - 1
  BY <1>1
<1>3. ASSUME NEW a \in 1 .. n PROVE ((cur + a - 1) % lines) + 1 \in 1 .. lines
  <2>1. cur + a - 1 \in Nat
    OBVIOUS
  <2>2. (cur + a - 1) % lines \in 0 .. lines - 1
    BY <1>2, <2>1
  <2> QED
    BY <1>1, <2>2
<1>4. \A a \in 1 .. n : LinesRead(cur, n)[a] \in 1 .. lines
  BY <1>3 DEF LinesRead
<1>5. LinesRead(cur, n) \in [1 .. n -> Nat]
  BY <1>1, <1>3 DEF LinesRead
<1> QED
  BY <1>4, <1>5

(* The next worker is a worker.                                            *)
LEMMA NextSelectedFacts ==
    ASSUME TypeOK, workNums > 0
    PROVE  NextSelected \in Workers /\ selected \in Workers
<1>1. workNums \in Nat \ {0} /\ workNums <= MaxWorkers /\ MaxWorkers \in Nat
  BY BoundsAssumption DEF TypeOK
<1>2. selected \in Workers /\ selected \in Nat
  BY <1>1 DEF TypeOK, Workers, Ids
<1>3. (selected + 1) % workNums \in 0 .. workNums - 1
  BY <1>1, <1>2
<1> QED
  BY <1>1, <1>2, <1>3 DEF NextSelected, Workers, Ids

LEMMA TypeStep ==
    ASSUME TypeOK, HandKept, [Next]_vars
    PROVE  TypeOK'
<1> USE DEF TypeOK, Ended
<1>1. CASE StartWorker
  <2>1. k + 1 \in 0 .. workNums
    BY <1>1 DEF StartWorker
  <2> QED
    BY <1>1, <2>1 DEF StartWorker, fixedVars, fileVars, Workers
<1>2. CASE StartDone \/ DoWorkDone \/ Exit
  BY <1>2 DEF StartDone, DoWorkDone, Exit, fixedVars, fileVars, workerVars, Workers
<1>3. ASSUME NEW n \in Nums, PreparePut(n) PROVE TypeOK'
  <2>1. n \in Nat /\ lines + n \in Nat /\ totalOp + n \in Nat
    BY BoundsAssumption
  <2>2. [i \in 1 .. n |-> lines + i] \in Seq(Nat)
    BY <2>1
  <2>3. inHand' \in JobType
    BY <1>3, <2>2 DEF PreparePut, Job, JobType
  <2> QED
    BY <1>3, <2>1, <2>3 DEF PreparePut, fixedVars, workerVars, Workers
<1>4. ASSUME NEW n \in Nums, PutFails(n) PROVE TypeOK'
  <2>1. n \in Nat /\ totalOp + n \in Nat
    BY BoundsAssumption
  <2>2. lines' \in Nat /\ lines <= lines'
    BY <1>4, <2>1 DEF PutFails
  <2> QED
    BY <1>4, <2>1, <2>2 DEF PutFails, fixedVars, workerVars, Workers
<1>5. ASSUME NEW n \in Nums, NEW op \in {"get", "delete"}, PrepareFetch(op, n) PROVE TypeOK'
  <2>1. n \in Nat /\ n > 0 /\ totalOp + n \in Nat /\ Cursor(op) \in Nat
    BY BoundsAssumption DEF Cursor
  <2>2. LinesRead(Cursor(op), n) \in Seq(Nat)
    BY <1>5, <2>1, LinesReadFacts DEF PrepareFetch
  <2>3. inHand' \in JobType
    BY <1>5, <2>2 DEF PrepareFetch, Job, JobType
  <2> QED
    BY <1>5, <2>1, <2>3 DEF PrepareFetch, fixedVars, fileVars, workerVars, Workers
<1>6. ASSUME NEW n \in Nums, NEW op \in {"get", "delete"}, AbandonFetch(op, n) PROVE TypeOK'
  <2>1. testCase + 1 \in 0 .. TestCases
    BY <1>6, BoundsAssumption DEF AbandonFetch
  <2> QED
    BY <1>6, <2>1 DEF AbandonFetch, fixedVars, fileVars, workerVars, Workers
<1>7. ASSUME NEW n \in Nums, FetchFails(n) PROVE TypeOK'
  <2>1. totalOp + n \in Nat
    BY BoundsAssumption
  <2> QED
    BY <1>7, <2>1 DEF FetchFails, fixedVars, fileVars, workerVars, Workers
<1>8. CASE PostJob
  <2>1. /\ mpc = "post" /\ workNums > 0 /\ testCase < TestCases /\ inHand.keys # <<>>
        /\ inHand \in JobType
    BY <1>8 DEF PostJob, AcceptJob, HandKept
  <2>2. selected \in Ids /\ NextSelected \in Workers
    BY <2>1, NextSelectedFacts DEF Workers
  <2>3. Append(queue[selected], inHand) \in Seq(JobType)
    BY <2>1, <2>2, AppendProperties
  <2>4. queue' \in [Ids -> Seq(JobType)]
    BY <1>8, <2>3 DEF PostJob, AcceptJob
  <2>5. inHand.keys[Len(inHand.keys)] \in 0 .. lines
    <3>1. inHand.keys \in Seq(Nat) /\ Len(inHand.keys) \in Nat \ {0}
      BY <2>1 DEF JobType
    <3>2. inHand.keys[Len(inHand.keys)] \in Nat
      BY <3>1
    <3> QED
      BY <3>1, <3>2 DEF HandKept
  <2>6. readCur' \in 0 .. lines /\ delCur' \in 0 .. lines /\ lines' = lines
    BY <1>8, <2>5 DEF PostJob, AcceptJob, CursorsAfterPost
  <2>7. testCase' \in 0 .. TestCases
    BY <1>8, <2>1, BoundsAssumption DEF PostJob, AcceptJob
  <2> QED
    BY <1>8, <2>2, <2>4, <2>6, <2>7, NoJobTyped DEF PostJob, AcceptJob, fixedVars, workerVars, Workers
<1>9. CASE RetryNext
  <2>1. NextSelected \in Workers
    BY <1>9, NextSelectedFacts DEF RetryNext
  <2> QED
    BY <1>9, <2>1 DEF RetryNext, fixedVars, fileVars, workerVars, Workers
<1>10. CASE PostToNobody
  BY <1>10 DEF PostToNobody, fixedVars, fileVars, workerVars, Workers
<1>11. CASE StopWorker
  BY <1>11 DEF StopWorker, fixedVars, fileVars, workerVars, Workers
<1>12. CASE JoinWorker \/ JoinNobody
  <2>1. k > 0 /\ k - 1 \in 0 .. workNums
    BY <1>12 DEF JoinWorker, JoinNobody
  <2> QED
    BY <1>12, <2>1 DEF JoinWorker, JoinNobody, fixedVars, fileVars, workerVars, Workers
<1>13. ASSUME NEW w \in Ids, PopJob(w) PROVE TypeOK'
  <2>1. Head(queue[w]) \in JobType /\ Tail(queue[w]) \in Seq(JobType)
    BY <1>13, HeadTailProperties DEF PopJob
  <2> QED
    BY <1>13, <2>1 DEF PopJob, mainVars, fixedVars, fileVars, Workers
<1>14. ASSUME NEW w \in Ids, FindEmpty(w) \/ CheckOver(w) PROVE TypeOK'
  BY <1>14 DEF FindEmpty, CheckOver, mainVars, fixedVars, fileVars, Workers
<1>15. ASSUME NEW w \in Ids, DoKey(w) PROVE TypeOK'
  BY <1>15 DEF DoKey, mainVars, fixedVars, fileVars, Workers
<1>16. ASSUME NEW w \in Ids, DeleteJob(w) PROVE TypeOK'
  BY <1>16, NoJobTyped DEF DeleteJob, mainVars, fixedVars, fileVars, Workers
<1>17. CASE UNCHANGED vars
  BY <1>17 DEF vars, Workers
<1> QED
  BY <1>1, <1>2, <1>3, <1>4, <1>5, <1>6, <1>7, <1>8, <1>9, <1>10, <1>11, <1>12, <1>13, <1>14,
     <1>15, <1>16, <1>17
     DEF Next, MainThread, Prepare, Post, Destroy, WorkerThread, Over

-----------------------------------------------------------------------------
(* A step leaves every line as it is, takes the first job out of one, or   *)
(* puts the job in hand at the end of the selected worker's.               *)
Came(w, d) ==
    \A i \in 1 .. Len(Line(w)') :
        \/ i + d \in 1 .. Len(Line(w)) /\ Line(w)'[i] = Line(w)[i + d]
        \/ /\ PostJob /\ w = selected /\ i = Len(Line(w)')
           /\ Line(w)'[i] = inHand

LEMMA LinesTyped ==
    ASSUME TypeOK, NEW w \in Ids
    PROVE  Line(w) \in Seq(JobType) /\ Line(w) = Row(current[w], queue[w])
<1>1. current[w] \in JobType /\ queue[w] \in Seq(JobType)
  BY DEF TypeOK
<1>2. Line(w) = Row(current[w], queue[w])
  BY DEF Line, Row
<1> QED
  BY <1>1, <1>2, RowFacts

(* The jobs in a queue are jobs: NoJob has the number of no test case.     *)
LEMMA QueuedIsJob ==
    ASSUME TypeOK, WorkersKept, JobOwnership, NEW w \in Ids,
           current[w] = NoJob, queue[w] # <<>>
    PROVE  Head(queue[w]) # NoJob
<1>0. queue[w] \in Seq(JobType)
  BY DEF TypeOK
<1>1. Line(w) = queue[w] /\ queue[w] \in Seq(JobType)
  BY <1>0, ConcatEmptySeq DEF Line
<1>2. Head(queue[w]) = Line(w)[1] /\ 1 \in 1 .. Len(Line(w))
  BY <1>1
<1>3. Line(w)[1].id < testCase
  BY <1>2 DEF JobOwnership
<1>4. testCase <= TestCases /\ testCase \in Nat
  BY BoundsAssumption DEF TypeOK
<1> QED
  BY <1>2, <1>3, <1>4, BoundsAssumption DEF NoJob

LEMMA LinesStep ==
    ASSUME TypeOK, WorkersKept, HandKept, JobOwnership, [Next]_vars, NEW w \in Ids
    PROVE  \E d \in {0, 1} : Came(w, d)
<1> DEFINE Same == current'[w] = current[w] /\ queue'[w] = queue[w]
<1>1. Line(w) \in Seq(JobType) /\ Line(w) = Row(current[w], queue[w])
  BY LinesTyped
<1>2. Line(w)' = Row(current'[w], queue'[w])
  BY DEF Line, Row
<1>3. current[w] \in JobType /\ queue[w] \in Seq(JobType) /\ Len(Line(w)) \in Nat
  BY <1>1 DEF TypeOK
<1>4. ASSUME Line(w)' = Line(w) PROVE Came(w, 0)
  BY <1>3, <1>4 DEF Came
<1>5. CASE Same
  BY <1>1, <1>2, <1>4, <1>5
<1>6. CASE PostJob
  <2>1. mpc = "post" /\ workNums > 0 /\ inHand \in JobType /\ UNCHANGED current
    BY <1>6 DEF PostJob, AcceptJob, TypeOK, workerVars
  <2>2. selected \in Ids /\ queue' = [queue EXCEPT ![selected] = Append(queue[selected], inHand)]
    BY <1>6, <2>1, NextSelectedFacts DEF PostJob, AcceptJob, Workers
  <2>3. CASE w # selected
    BY <1>5, <2>1, <2>2, <2>3 DEF TypeOK
  <2>4. CASE w = selected
    <3>1. queue'[w] = Append(queue[w], inHand) /\ current'[w] = current[w]
      BY <2>1, <2>2, <2>4 DEF TypeOK
    <3>2. Line(w)' = Append(Line(w), inHand)
      BY <1>1, <1>2, <1>3, <2>1, <3>1, RowAppend
    <3>3. /\ Len(Line(w)') = Len(Line(w)) + 1 /\ Line(w)'[Len(Line(w)) + 1] = inHand
          /\ \A i \in 1 .. Len(Line(w)) : Line(w)'[i] = Line(w)[i]
      BY <1>1, <2>1, <3>2, AppendProperties
    <3>4. Came(w, 0)
      BY <1>3, <1>6, <2>4, <3>3 DEF Came
    <3> QED
      BY <3>4
  <2> QED
    BY <2>3, <2>4
<1>7. CASE PopJob(w)
  <2>1. /\ current[w] = NoJob /\ queue[w] # <<>>
        /\ current'[w] = Head(queue[w]) /\ queue'[w] = Tail(queue[w])
    BY <1>7 DEF PopJob, WorkersKept, TypeOK
  <2>2. Line(w)' = Line(w)
    BY <1>1, <1>2, <1>3, <2>1, RowPop, QueuedIsJob
  <2> QED
    BY <1>4, <2>2
<1>8. CASE DeleteJob(w)
  <2>1. current[w] # NoJob /\ current'[w] = NoJob /\ queue'[w] = queue[w]
    BY <1>8 DEF DeleteJob, WorkersKept, TypeOK
  <2>2. /\ Line(w)' = queue[w] /\ Len(Line(w)) = Len(queue[w]) + 1
        /\ \A i \in 1 .. Len(queue[w]) : Line(w)[i + 1] = queue[w][i]
    <3>1. /\ Len(Row(current[w], queue[w])) = Len(queue[w]) + 1
          /\ \A i \in 1 .. Len(queue[w]) : Row(current[w], queue[w])[i + 1] = queue[w][i]
      BY <1>3, <2>1, RowFacts
    <3>2. Row(NoJob, queue[w]) = queue[w]
      BY <1>3, NoJobTyped, RowFacts
    <3> QED
      BY <1>1, <1>2, <2>1, <3>1, <3>2
  <2>3. Came(w, 1)
    BY <1>3, <2>2 DEF Came
  <2> QED
    BY <2>3
<1>9. ASSUME NEW v \in Ids, v # w, PopJob(v) \/ DeleteJob(v) PROVE Same
  BY <1>9 DEF PopJob, DeleteJob, TypeOK
<1>10. ASSUME NEW v \in Ids, FindEmpty(v) \/ CheckOver(v) \/ DoKey(v) PROVE Same
  BY <1>10 DEF FindEmpty, CheckOver, DoKey
<1>11. CASE StartWorker \/ StartDone \/ Prepare \/ RetryNext \/ PostToNobody \/ Destroy
  <2>1. Same
    BY <1>11 DEF StartWorker, StartDone, Prepare, PreparePut, PutFails, FetchFails, PrepareFetch,
                 AbandonFetch, RetryNext, PostToNobody, Destroy, DoWorkDone, StopWorker, JoinWorker,
                 JoinNobody, Exit, workerVars
  <2> QED
    BY <1>5, <2>1
<1>12. CASE UNCHANGED vars
  <2>1. Same
    BY <1>12 DEF vars
  <2> QED
    BY <1>5, <2>1
<1> QED
  BY <1>5, <1>6, <1>7, <1>8, <1>9, <1>10, <1>11, <1>12
     DEF Next, MainThread, Post, WorkerThread, Over

-----------------------------------------------------------------------------
(* What goes on: test cases and lines are only added, and a job is posted  *)
(* after it was prepared.                                                  *)
Prepared(op, n) ==
    \/ PreparePut(n)
    \/ op \in {"get", "delete"} /\ PrepareFetch(op, n)

LEMMA GoesOn ==
    ASSUME TypeOK, [Next]_vars
    PROVE  /\ testCase' \in Nat /\ testCase <= testCase' /\ lines' \in Nat /\ lines <= lines'
           /\ PostJob => mpc = "post" /\ mpc' = "case" /\ testCase' = testCase + 1
           /\ \/ mpc' # "post" /\ inHand' \in {inHand, NoJob}
              \/ mpc = "post" /\ ~PostJob /\ UNCHANGED <<inHand, testCase, hasFile>>
              \/ \E n \in Nums, op \in {"put", "get", "delete"} : ~PostJob /\ Prepared(op, n)
<1> DEFINE Aside == mpc' # "post" /\ inHand' \in {inHand, NoJob}
           Waits == mpc' = mpc /\ ~PostJob /\ UNCHANGED <<inHand, testCase, hasFile>>
           More == testCase' \in Nat /\ testCase <= testCase' /\ lines' \in Nat /\ lines <= lines'
<1> USE DEF TypeOK
<1>0. Nums \subseteq Nat \ {0} /\ TestCases \in Nat /\ testCase \in Nat /\ lines \in Nat
  BY BoundsAssumption
<1>1. CASE PostJob
  BY <1>0, <1>1 DEF PostJob, AcceptJob
<1>2. ASSUME NEW n \in Nums, PreparePut(n) PROVE More /\ ~PostJob
  BY <1>0, <1>2 DEF PreparePut, PostJob, AcceptJob
<1>3. ASSUME NEW n \in Nums, NEW op \in {"get", "delete"}, PrepareFetch(op, n) PROVE More /\ ~PostJob
  BY <1>0, <1>3 DEF PrepareFetch, fileVars, PostJob, AcceptJob
<1>4. ASSUME NEW n \in Nums, PutFails(n) PROVE More /\ ~PostJob /\ Aside
  BY <1>0, <1>4 DEF PutFails, PostJob, AcceptJob
<1>5. ASSUME NEW n \in Nums, FetchFails(n) PROVE More /\ ~PostJob /\ Aside
  BY <1>0, <1>5 DEF FetchFails, fileVars, PostJob, AcceptJob
<1>6. ASSUME NEW n \in Nums, NEW op \in {"get", "delete"}, AbandonFetch(op, n)
      PROVE  More /\ ~PostJob /\ Aside
  BY <1>0, <1>6 DEF AbandonFetch, fileVars, PostJob, AcceptJob
<1>7. ASSUME StartWorker \/ StartDone \/ Destroy \/ PostToNobody PROVE More /\ ~PostJob /\ Aside
  BY <1>0, <1>7 DEF StartWorker, StartDone, Destroy, PostToNobody, DoWorkDone, StopWorker, JoinWorker,
                    JoinNobody, Exit, fileVars, PostJob, AcceptJob
<1>8. ASSUME RetryNext PROVE More /\ Waits
  <2>1. selected \in Ids
    BY <1>8, NextSelectedFacts DEF RetryNext, Workers
  <2>2. ~PostJob
    BY <1>8, <2>1 DEF RetryNext, PostJob, AcceptJob
  <2> QED
    BY <1>0, <1>8, <2>2 DEF RetryNext, fileVars
<1>9. ASSUME NEW w \in Ids, WorkerThread(w) PROVE More /\ Waits
  <2>1. UNCHANGED mainVars
    BY <1>9 DEF WorkerThread, PopJob, FindEmpty, CheckOver, DoKey, DeleteJob
  <2>2. ~PostJob
    BY <1>0, <2>1 DEF mainVars, PostJob, AcceptJob
  <2> QED
    BY <1>0, <2>1, <2>2 DEF mainVars, fileVars
<1>10. ASSUME UNCHANGED vars PROVE More /\ Waits
  BY <1>0, <1>10 DEF vars, PostJob, AcceptJob
<1>11. CASE StartWorker \/ StartDone \/ Destroy \/ PostToNobody
  BY <1>7, <1>11
<1>12. CASE Prepare
  BY <1>2, <1>3, <1>4, <1>5, <1>6, <1>12 DEF Prepare, Prepared
<1>13. CASE RetryNext \/ (\E w \in Ids : WorkerThread(w)) \/ UNCHANGED vars
  <2>1. More /\ Waits
    BY <1>8, <1>9, <1>10, <1>13
  <2> QED
    BY <2>1
<1> QED
  BY <1>1, <1>11, <1>12, <1>13 DEF Next, MainThread, Post, Over

LEMMA HandStep ==
    ASSUME TypeOK, HandKept, [Next]_vars
    PROVE  HandKept'
<1>1. NoJob.keys = <<>> /\ lines \in Nat /\ lines' \in Nat /\ lines <= lines'
  BY GoesOn DEF NoJob, TypeOK
<1>2. CASE mpc' # "post" /\ inHand' \in {inHand, NoJob}
  <2>1. inHand.keys \in Seq(Nat)
    BY DEF TypeOK, JobType
  <2>2. \A a \in 1 .. Len(inHand.keys) : inHand.keys[a] \in Nat /\ inHand.keys[a] <= lines'
    BY <1>1, <2>1 DEF HandKept
  <2> QED
    BY <1>1, <1>2, <2>2 DEF HandKept
<1>3. CASE mpc = "post" /\ UNCHANGED <<inHand, testCase, hasFile>>
  <2>1. inHand.keys \in Seq(Nat)
    BY DEF TypeOK, JobType
  <2>2. \A a \in 1 .. Len(inHand.keys) : inHand.keys[a] \in Nat /\ inHand.keys[a] <= lines'
    BY <1>1, <2>1 DEF HandKept
  <2> QED
    BY <1>3, <2>2 DEF HandKept
<1>4. ASSUME NEW n \in Nums, PreparePut(n) PROVE HandKept'
  <2>1. n \in Nat /\ n > 0
    BY BoundsAssumption
  <2>2. /\ inHand' = [id |-> testCase, op |-> "put", keys |-> [i \in 1 .. n |-> lines + i]]
        /\ lines' = lines + n /\ testCase' = testCase /\ testCase < TestCases /\ hasFile' = hasFile
    BY <1>4 DEF PreparePut, Job
  <2>3. Len(inHand'.keys) = n /\ inHand'.keys # <<>>
    BY <2>1, <2>2
  <2>4. \A a \in 1 .. n : inHand'.keys[a] <= lines'
    BY <1>1, <2>1, <2>2
  <2> QED
    BY <2>2, <2>3, <2>4 DEF HandKept
<1>5. ASSUME NEW n \in Nums, NEW op \in {"get", "delete"}, PrepareFetch(op, n) PROVE HandKept'
  <2>1. n \in Nat /\ n > 0 /\ Cursor(op) \in Nat
    BY BoundsAssumption DEF Cursor, TypeOK
  <2>2. /\ inHand' = [id |-> testCase, op |-> op, keys |-> LinesRead(Cursor(op), n)]
        /\ lines' = lines /\ testCase' = testCase /\ testCase < TestCases /\ hasFile' = hasFile /\ hasFile
    BY <1>5 DEF PrepareFetch, Job, fileVars
  <2>3. /\ Len(LinesRead(Cursor(op), n)) = n /\ LinesRead(Cursor(op), n) \in Seq(Nat)
        /\ \A a \in 1 .. n : LinesRead(Cursor(op), n)[a] \in 1 .. lines
    BY <1>5, <2>1, LinesReadFacts DEF PrepareFetch
  <2>4. LinesRead(Cursor(op), n) # <<>>
    BY <2>1, <2>3
  <2> QED
    BY <2>1, <2>2, <2>3, <2>4 DEF HandKept
<1> QED
  BY <1>2, <1>3, <1>4, <1>5, GoesOn DEF Prepared

-----------------------------------------------------------------------------
LEMMA OwnershipStep ==
    ASSUME TypeOK, WorkersKept, HandKept, JobOwnership, [Next]_vars
    PROVE  JobOwnership'
<1>1. /\ testCase \in Nat /\ testCase' \in Nat /\ testCase <= testCase'
      /\ PostJob => inHand.id = testCase /\ testCase' = testCase + 1
  BY GoesOn DEF TypeOK, HandKept
<1>2. \A w \in Ids : \A i \in 1 .. Len(Line(w)) : Line(w)[i].id \in Nat /\ Line(w)[i].id < testCase
  <2>1. ASSUME NEW w \in Ids, NEW i \in 1 .. Len(Line(w)) PROVE Line(w)[i].id \in Nat
    <3>1. Line(w) \in Seq(JobType)
      BY LinesTyped
    <3>2. Line(w)[i] \in JobType
      BY <2>1, <3>1
    <3> QED
      BY <3>2, BoundsAssumption DEF JobType
  <2> QED
    BY <2>1 DEF JobOwnership
<1>3. ASSUME NEW w \in Ids, NEW i \in 1 .. Len(Line(w)') PROVE Line(w)'[i].id < testCase'
  <2>1. PICK d \in {0, 1} : Came(w, d)
    BY LinesStep
  <2>2. CASE i + d \in 1 .. Len(Line(w)) /\ Line(w)'[i] = Line(w)[i + d]
    BY <1>1, <1>2, <2>2
  <2>3. CASE PostJob /\ Line(w)'[i] = inHand
    BY <1>1, <2>3
  <2> QED
    BY <1>3, <2>1, <2>2, <2>3 DEF Came
<1>4. ASSUME NEW w \in Ids, NEW v \in Ids,
             NEW i \in 1 .. Len(Line(w)'), NEW j \in 1 .. Len(Line(v)'),
             Line(w)'[i].id = Line(v)'[j].id
      PROVE  w = v /\ i = j
  <2>1. PICK d \in {0, 1} : Came(w, d)
    BY LinesStep
  <2>2. PICK e \in {0, 1} : Came(v, e) /\ (w = v => e = d)
    BY <2>1, LinesStep
  <2>3. \/ i + d \in 1 .. Len(Line(w)) /\ Line(w)'[i] = Line(w)[i + d]
        \/ PostJob /\ w = selected /\ i = Len(Line(w)') /\ Line(w)'[i] = inHand
    BY <1>4, <2>1 DEF Came
  <2>4. \/ j + e \in 1 .. Len(Line(v)) /\ Line(v)'[j] = Line(v)[j + e]
        \/ PostJob /\ v = selected /\ j = Len(Line(v)') /\ Line(v)'[j] = inHand
    BY <1>4, <2>2 DEF Came
  <2>5. CASE /\ i + d \in 1 .. Len(Line(w)) /\ Line(w)'[i] = Line(w)[i + d]
             /\ j + e \in 1 .. Len(Line(v)) /\ Line(v)'[j] = Line(v)[j + e]
    <3>1. w = v /\ i + d = j + e
      BY <1>4, <2>5 DEF JobOwnership
    <3> QED
      BY <2>2, <3>1
  <2>6. CASE /\ PostJob /\ w = selected /\ i = Len(Line(w)')
             /\ v = selected /\ j = Len(Line(v)')
    BY <2>6
  <2>7. CASE /\ i + d \in 1 .. Len(Line(w)) /\ Line(w)'[i] = Line(w)[i + d]
             /\ PostJob /\ Line(v)'[j] = inHand
    BY <1>1, <1>2, <1>4, <2>7
  <2>8. CASE /\ j + e \in 1 .. Len(Line(v)) /\ Line(v)'[j] = Line(v)[j + e]
             /\ PostJob /\ Line(w)'[i] = inHand
    BY <1>1, <1>2, <1>4, <2>8
  <2> QED
    BY <2>3, <2>4, <2>5, <2>6, <2>7, <2>8
<1>5. ASSUME NEW w \in Ids PROVE Len(queue'[w]) <= capacity'
  <2>1. capacity \in Nat /\ queue[w] \in Seq(JobType) /\ Len(queue[w]) <= capacity
    BY BoundsAssumption DEF TypeOK, JobOwnership
  <2>2. capacity' = capacity /\ (PostJob \/ (\E v \in Ids : PopJob(v)) \/ queue' = queue)
    BY DEF Next, MainThread, WorkerThread, Over, StartWorker, StartDone, Prepare, PreparePut,
           PutFails, FetchFails, PrepareFetch, AbandonFetch, Post, PostJob, AcceptJob, RetryNext,
           PostToNobody, Destroy, DoWorkDone, StopWorker, JoinWorker, JoinNobody, Exit, PopJob,
           FindEmpty, CheckOver, DoKey, DeleteJob, mainVars, fixedVars, vars
  <2>3. CASE PostJob
    <3>1. selected \in Ids /\ Len(queue[selected]) < capacity /\ inHand \in JobType
      BY <2>3, NextSelectedFacts DEF PostJob, AcceptJob, Workers, TypeOK
    <3>2. queue'[w] = IF w = selected THEN Append(queue[w], inHand) ELSE queue[w]
      BY <2>3, <3>1 DEF PostJob, AcceptJob, TypeOK
    <3> QED
      BY <2>1, <2>2, <3>1, <3>2, AppendProperties
  <2>4. ASSUME NEW v \in Ids, PopJob(v) PROVE Len(queue'[w]) <= capacity'
    <3>1. queue'[w] = (IF w = v THEN Tail(queue[w]) ELSE queue[w]) /\ queue[v] # <<>>
      BY <2>4 DEF PopJob, TypeOK
    <3>2. w = v => Len(Tail(queue[w])) = Len(queue[w]) - 1
      BY <2>1, <3>1, HeadTailProperties
    <3> QED
      BY <2>1, <2>2, <3>1, <3>2
  <2> QED
    BY <2>1, <2>2, <2>3, <2>4
<1> QED
  BY <1>3, <1>4, <1>5 DEF JobOwnership

-----------------------------------------------------------------------------
LEMMA WorkersKeptStep ==
    ASSUME TypeOK, WorkersKept, JobOwnership, [Next]_vars
    PROVE  WorkersKept'
<1> USE DEF WorkersKept
<1>0. workNums \in Nat /\ k \in Nat /\ k <= workNums
  BY DEF TypeOK
<1>1. CASE StartWorker
  <2>1. wpc' \in {[wpc EXCEPT ![k] = "poll"], [wpc EXCEPT ![k] = "none"]} /\ current' = current
    BY <1>1 DEF StartWorker
  <2>2. k' = k + 1 /\ mpc' = "start" /\ mpc = "start"
    BY <1>1 DEF StartWorker
  <2>3. current[k] = NoJob \/ k \notin Ids
    BY <1>0, <2>2
  <2>4. \A w \in Ids : wpc'[w] = "work" <=> current'[w] # NoJob
    BY <2>1, <2>2, <2>3 DEF TypeOK
  <2>5. \A w \in Ids : w >= k + 1 => wpc'[w] = "none"
    <3>1. ASSUME NEW w \in Ids, w >= k + 1 PROVE wpc'[w] = wpc[w] /\ w >= k
      BY <1>0, <2>1, <3>1, BoundsAssumption DEF TypeOK, Ids
    <3> QED
      BY <2>2, <3>1
  <2> QED
    BY <2>2, <2>4, <2>5
<1>2. CASE StartDone
  BY <1>2 DEF StartDone, fixedVars, workerVars
<1>3. CASE Prepare
  BY <1>3 DEF Prepare, PreparePut, PutFails, FetchFails, PrepareFetch, AbandonFetch, fixedVars, workerVars
<1>4. CASE Post
  BY <1>4 DEF Post, PostJob, AcceptJob, RetryNext, PostToNobody, fixedVars, workerVars
<1>5. CASE Destroy
  BY <1>5 DEF Destroy, DoWorkDone, StopWorker, JoinWorker, JoinNobody, Exit, fixedVars, workerVars
<1>6. ASSUME NEW w \in Ids, WorkerThread(w) PROVE WorkersKept'
  <2>1. UNCHANGED mainVars /\ wpc[w] # "none"
    BY <1>6 DEF WorkerThread, PopJob, FindEmpty, CheckOver, DoKey, DeleteJob
  <2>2. \A v \in Ids \ {w} : wpc'[v] = wpc[v] /\ current'[v] = current[v]
    BY <1>6 DEF WorkerThread, PopJob, FindEmpty, CheckOver, DoKey, DeleteJob, TypeOK
  <2>3. wpc'[w] = "work" <=> current'[w] # NoJob
    <3>1. CASE PopJob(w)
      <4>1. wpc'[w] = "work" /\ current'[w] = Head(queue[w])
        BY <3>1 DEF PopJob, TypeOK
      <4> QED
        BY <3>1, <4>1, QueuedIsJob DEF PopJob
    <3>2. CASE DeleteJob(w)
      BY <3>2 DEF DeleteJob, TypeOK
    <3>3. CASE FindEmpty(w) \/ CheckOver(w) \/ DoKey(w)
      BY <3>3 DEF FindEmpty, CheckOver, DoKey, TypeOK
    <3> QED
      BY <1>6, <3>1, <3>2, <3>3 DEF WorkerThread
  <2>4. mpc' = mpc /\ k' = k /\ workNums' = workNums
    BY <2>1 DEF mainVars, fixedVars
  <2> QED
    BY <2>1, <2>2, <2>3, <2>4
<1>7. CASE UNCHANGED vars
  BY <1>7 DEF vars
<1> QED
  BY <1>1, <1>2, <1>3, <1>4, <1>5, <1>6, <1>7 DEF Next, MainThread, Over

(* A worker that has left has found its queue empty, and was told to go.   *)
LEMMA DestroyedStep ==
    ASSUME TypeOK, WorkersKept, DestroyedQuiet, [Next]_vars
    PROVE  DestroyedQuiet'
<1> USE DEF DestroyedQuiet
<1>0. /\ workNums \in Nat /\ k \in Nat /\ k <= workNums /\ workNums <= MaxWorkers /\ MaxWorkers \in Nat
      /\ \A w \in Ids : w \in Nat
  BY BoundsAssumption DEF TypeOK, Ids
<1>1. CASE StartWorker
  <2>1. mpc' = "start"
    BY <1>1 DEF StartWorker
  <2>2. \A w \in Ids : wpc'[w] = "exited" => wpc[w] = "exited"
    BY <1>1 DEF StartWorker, TypeOK
  <2> QED
    BY <1>1, <2>1, <2>2 DEF StartWorker
<1>2. CASE StartDone \/ Prepare \/ Post
  BY <1>2 DEF StartDone, Prepare, PreparePut, PutFails, FetchFails, PrepareFetch, AbandonFetch, Post,
              PostJob, AcceptJob, RetryNext, PostToNobody, fixedVars, workerVars
<1>3. CASE DoWorkDone
  <2>1. k' = workNums /\ Workers' = Workers /\ UNCHANGED <<wpc, canOver, current>>
    BY <1>3 DEF DoWorkDone, WorkersKept, Workers, fixedVars, workerVars
  <2>2. \A w \in Workers : ~(w >= k')
    BY <1>0, <2>1 DEF Workers
  <2> QED
    BY <2>1, <2>2
<1>4. CASE StopWorker
  <2>1. \A w \in Ids : canOver[w] => canOver'[w]
    BY <1>4 DEF StopWorker, TypeOK
  <2> QED
    BY <1>4, <2>1 DEF StopWorker, Workers, fixedVars, workerVars
<1>5. CASE JoinWorker \/ JoinNobody
  <2>1. UNCHANGED <<canOver, wpc, current, workNums>> /\ wpc[k - 1] \in {"exited", "none"} /\ mpc = "destroy"
    BY <1>5 DEF JoinWorker, JoinNobody, fixedVars, workerVars
  <2>2. \/ k' = k - 1 /\ mpc' = "destroy"
        \/ k' = k /\ mpc' = "crashed"
    <3>1. CASE JoinWorker
      BY <3>1 DEF JoinWorker
    <3>2. CASE JoinNobody
      BY <3>2 DEF JoinNobody
    <3> QED
      BY <1>5, <3>1, <3>2
  <2>3. \A w \in Workers : w >= k - 1 => w >= k \/ w = k - 1
    BY <1>0 DEF Workers
  <2>4. Workers' = Workers
    BY <2>1 DEF Workers
  <2> QED
    BY <2>1, <2>2, <2>3, <2>4
<1>6. CASE Exit
  BY <1>6 DEF Exit, Workers, fixedVars, workerVars
<1>7. ASSUME NEW w \in Ids, WorkerThread(w) PROVE DestroyedQuiet'
  <2>1. UNCHANGED mainVars /\ wpc[w] # "exited" /\ wpc[w] # "none"
    BY <1>7 DEF WorkerThread, PopJob, FindEmpty, CheckOver, DoKey, DeleteJob
  <2>2. \A v \in Ids \ {w} : wpc'[v] = wpc[v] /\ current'[v] = current[v]
    BY <1>7 DEF WorkerThread, PopJob, FindEmpty, CheckOver, DoKey, DeleteJob, TypeOK
  <2>3. wpc'[w] = "exited" => canOver[w] /\ current'[w] = NoJob
    BY <1>7 DEF WorkerThread, PopJob, FindEmpty, CheckOver, DoKey, DeleteJob, TypeOK, WorkersKept
  <2>4. UNCHANGED <<mpc, k, workNums, canOver>> /\ Workers' = Workers
    BY <2>1 DEF mainVars, fixedVars, Workers
  <2>5. Workers \subseteq Ids
    BY DEF Workers
  <2> QED
    BY <2>1, <2>2, <2>3, <2>4, <2>5
<1>8. CASE UNCHANGED vars
  BY <1>8 DEF vars, Workers
<1> QED
  BY <1>1, <1>2, <1>3, <1>4, <1>5, <1>6, <1>7, <1>8 DEF Next, MainThread, Destroy, Over
-----------------------------------------------------------------------------
LEMMA LineJobs ==
    ASSUME TypeOK, NEW w \in Ids, NEW i \in 1 .. Len(Line(w))
    PROVE  /\ Line(w)[i] \in JobType
           /\ \A a \in 1 .. Len(Line(w)[i].keys) : Line(w)[i].keys[a] \in Nat
<1>1. Line(w) \in Seq(JobType)
  BY LinesTyped
<1>2. Line(w)[i] \in JobType
  BY <1>1
<1>3. Line(w)[i].keys \in Seq(Nat)
  BY <1>2 DEF JobType
<1> QED
  BY <1>2, <1>3

LEMMA WrittenStep ==
    ASSUME TypeOK, WorkersKept, HandKept, Written, JobOwnership, [Next]_vars
    PROVE  Written'
<1>1. lines \in Nat /\ lines' \in Nat /\ lines <= lines'
  BY GoesOn DEF TypeOK
<1>2. SUFFICES ASSUME NEW w \in Ids, NEW i \in 1 .. Len(Line(w)'),
                      NEW a \in 1 .. Len(Line(w)'[i].keys)
               PROVE  Line(w)'[i].keys[a] <= lines'
  BY DEF Written
<1>3. PICK d \in {0, 1} : Came(w, d)
  BY LinesStep
<1>4. CASE i + d \in 1 .. Len(Line(w)) /\ Line(w)'[i] = Line(w)[i + d]
  <2>1. Line(w)'[i].keys[a] \in Nat /\ Line(w)'[i].keys[a] <= lines
    BY <1>4, LineJobs DEF Written
  <2> QED
    BY <1>1, <2>1
<1>5. CASE Line(w)'[i] = inHand
  <2>1. inHand.keys \in Seq(Nat)
    BY DEF TypeOK, JobType
  <2>2. inHand.keys[a] \in Nat /\ inHand.keys[a] <= lines
    BY <1>5, <2>1 DEF HandKept
  <2> QED
    BY <1>1, <1>5, <2>2
<1> QED
  BY <1>3, <1>4, <1>5 DEF Came

LEMMA PutsNewerStep ==
    ASSUME TypeOK, WorkersKept, HandKept, Written, PutsNewer, JobOwnership, [Next]_vars
    PROVE  PutsNewer'
<1>1. ASSUME NEW w \in Ids, NEW i \in 1 .. Len(Line(w)'), NEW j \in 1 .. Len(Line(w)'), i < j
      PROVE  Newer(Line(w)'[j], Line(w)'[i])
  <2>1. PICK d \in {0, 1} : Came(w, d)
    BY LinesStep
  <2>2. i + d \in 1 .. Len(Line(w)) /\ Line(w)'[i] = Line(w)[i + d]
    <3>1. i # Len(Line(w)')
      BY <1>1
    <3> QED
      BY <2>1, <3>1 DEF Came
  <2>3. CASE j + d \in 1 .. Len(Line(w)) /\ Line(w)'[j] = Line(w)[j + d]
    <3>1. i + d < j + d
      BY <1>1
    <3>2. Newer(Line(w)[j + d], Line(w)[i + d])
      BY <2>2, <2>3, <3>1 DEF PutsNewer
    <3> QED
      BY <2>2, <2>3, <3>2
  <2>4. CASE PostJob /\ Line(w)'[j] = inHand
    <3>1. mpc = "post"
      BY <2>4, GoesOn
    <3>2. Newer(inHand, Line(w)[i + d])
      BY <2>2, <3>1 DEF PutsNewer
    <3> QED
      BY <2>2, <2>4, <3>2
  <2> QED
    BY <2>1, <2>3, <2>4 DEF Came
<1>2. ASSUME NEW w \in Ids, NEW i \in 1 .. Len(Line(w)'), mpc' = "post"
      PROVE  Newer(inHand', Line(w)'[i])
  <2>1. PICK d \in {0, 1} : Came(w, d)
    BY LinesStep
  <2>2. \/ mpc = "post" /\ ~PostJob /\ inHand' = inHand
        \/ \E n \in Nums, op \in {"put", "get", "delete"} : ~PostJob /\ Prepared(op, n)
    BY <1>2, GoesOn
  <2>3. i + d \in 1 .. Len(Line(w)) /\ Line(w)'[i] = Line(w)[i + d]
    BY <2>1, <2>2 DEF Came
  <2>4. CASE mpc = "post" /\ inHand' = inHand
    <3>1. Newer(inHand, Line(w)[i + d])
      BY <2>3, <2>4 DEF PutsNewer
    <3> QED
      BY <2>3, <2>4, <3>1
  <2>5. ASSUME NEW n \in Nums, PreparePut(n) PROVE Newer(inHand', Line(w)'[i])
    <3>1. lines \in Nat /\ n \in Nat
      BY BoundsAssumption DEF TypeOK
    <3>2. inHand'.keys = [b \in 1 .. n |-> lines + b]
      BY <2>5 DEF PreparePut, Job
    <3>3. ASSUME NEW a \in 1 .. Len(Line(w)'[i].keys), NEW b \in 1 .. Len(inHand'.keys)
          PROVE  Line(w)'[i].keys[a] < inHand'.keys[b]
      <4>1. Line(w)'[i].keys[a] \in Nat /\ Line(w)'[i].keys[a] <= lines
        BY <2>3, LineJobs DEF Written
      <4>2. inHand'.keys[b] = lines + b /\ b \in 1 .. n
        BY <3>1, <3>2
      <4> QED
        BY <3>1, <4>1, <4>2
    <3> QED
      BY <3>3 DEF Newer
  <2>6. ASSUME NEW n \in Nums, NEW op \in {"get", "delete"}, PrepareFetch(op, n)
        PROVE  Newer(inHand', Line(w)'[i])
    BY <2>6 DEF PrepareFetch, Job, Newer
  <2> QED
    BY <2>2, <2>4, <2>5, <2>6 DEF Prepared
<1> QED
  BY <1>1, <1>2 DEF PutsNewer

-----------------------------------------------------------------------------
LEMMA InitIInv == Init => IInv
<1> SUFFICES ASSUME Init PROVE IInv
  OBVIOUS
<1>1. TypeOK
  BY BoundsAssumption, NoJobTyped DEF Init, TypeOK
<1>2. \A w \in Ids : Len(Line(w)) = 0 /\ Len(queue[w]) = 0
  <2>1. ASSUME NEW w \in Ids PROVE Line(w) = <<>> /\ queue[w] = <<>>
    BY DEF Init, Line
  <2> QED
    BY <2>1
<1>3. WorkersKept /\ HandKept /\ DestroyedQuiet
  <2>1. HandKept
    BY DEF Init, HandKept, NoJob
  <2>2. WorkersKept
    BY DEF Init, WorkersKept
  <2>3. DestroyedQuiet
    BY DEF Init, DestroyedQuiet
  <2> QED
    BY <2>1, <2>2, <2>3
<1>4. Written /\ PutsNewer
  BY <1>2 DEF Written, PutsNewer, Init
<1>5. JobOwnership
  BY <1>1, <1>2, BoundsAssumption DEF JobOwnership, TypeOK
<1> QED
  BY <1>1, <1>3, <1>4, <1>5 DEF IInv

LEMMA InvariantStep == IInv /\ [Next]_vars => IInv'
BY TypeStep, WorkersKeptStep, HandStep, WrittenStep, PutsNewerStep, OwnershipStep, DestroyedStep DEF IInv

(* The load generator keeps its invariant: whatever the number of workers, *)
(* the length of a queue and the keys of a job, the lines of jobs stay as  *)
(* do_work and PostJob made them.                                          *)
THEOREM LoadKept == Spec => []IInv
BY InitIInv, InvariantStep, PTL DEF Spec

(* A job that PostJob offers to one worker after another is in one place   *)
(* of one worker's line, and no queue grows beyond its capacity.           *)
THEOREM JobsHaveOneOwner == Spec => []JobOwnership
<1>1. IInv => JobOwnership
  BY DEF IInv
<1> QED
  BY <1>1, LoadKept, PTL

(* No worker meets a get or delete of a key before the put that do_work    *)
(* wrote it to the key file for.                                           *)
THEOREM KeysPutBeforeUse == Spec => []PutBeforeUse
<1>1. IInv => PutBeforeUse
  <2> SUFFICES ASSUME IInv, NEW w \in Ids,
                      NEW i \in 1 .. Len(Line(w)), NEW j \in 1 .. Len(Line(w)),
                      i < j, Line(w)[j].op = "put",
                      NEW a \in 1 .. Len(Line(w)[i].keys), NEW b \in 1 .. Len(Line(w)[j].keys)
               PROVE  Line(w)[i].keys[a] # Line(w)[j].keys[b]
    BY DEF PutBeforeUse
  <2>1. Newer(Line(w)[j], Line(w)[i])
    BY DEF IInv, PutsNewer
  <2>2. Line(w)[i].keys[a] \in Nat /\ Line(w)[j].keys[b] \in Nat
    BY LineJobs DEF IInv
  <2>3. Line(w)[i].keys[a] < Line(w)[j].keys[b]
    BY <2>1 DEF Newer
  <2> QED
    BY <2>2, <2>3
<1> QED
  BY <1>1, LoadKept, PTL

(* ~TestWork frees a queue when its thread has left run(), and a thread    *)
(* leaves with no job in its hands.                                        *)
THEOREM DestroyedAfterExit == Spec => []DestroyedQuiet
<1>1. IInv => DestroyedQuiet
  BY DEF IInv
<1> QED
  BY <1>1, LoadKept, PTL

-----------------------------------------------------------------------------
(* Sums of sequences.  Partial sums are a function from 0 .. Len(g).       *)
Sums(s, g) ==
    s = [i \in 0 .. Len(g) |-> IF i = 0 THEN 0 ELSE s[i - 1] + g[i]]

(* A set of numbers that is not empty has a least one.                     *)
LEMMA LeastNumber ==
    ASSUME NEW S \in SUBSET Nat, NEW n \in S
    PROVE  \E least \in S : \A j \in S : least <= j
<1>1. IsWellFoundedOn(OpToRel(<, Nat), Nat)
  BY NatLessThanWellFounded
<1>2. PICK least \in S : \A j \in S : ~(<<j, least>> \in OpToRel(<, Nat))
  BY <1>1, WFMin
<1>3. \A j \in S : ~(j < least)
  BY <1>2 DEF OpToRel
<1> QED
  BY <1>3

(* The partial sums up to a number exist.                                  *)
LEMMA SumsExist ==
    ASSUME NEW g \in Seq(Int)
    PROVE  \E s \in [0 .. Len(g) -> Int] : Sums(s, g)
<1> DEFINE UpTo(s, n) == s \in [0 .. n -> Int] /\ s[0] = 0 /\ \A i \in 1 .. n : s[i] = s[i - 1] + g[i]
           Without == {n \in 0 .. Len(g) : ~ \E s : UpTo(s, n)}
<1>1. Len(g) \in Nat /\ \A i \in 1 .. Len(g) : g[i] \in Int
  OBVIOUS
<1>2. Without = {}
  <2>1. SUFFICES ASSUME Without # {}
                 PROVE  FALSE
    OBVIOUS
  <2>2. Without \in SUBSET Nat
    BY <1>1
  <2>3. PICK n \in Without : \A j \in Without : n <= j
    BY <2>1, <2>2, LeastNumber
  <2>4. n \in 0 .. Len(g) /\ ~ \E s : UpTo(s, n)
    BY <2>3
  <2>5. CASE n = 0
    <3>1. UpTo([i \in 0 .. 0 |-> 0], 0)
      OBVIOUS
    <3> QED
      BY <2>4, <2>5, <3>1
  <2>6. CASE n # 0
    <3>1. n - 1 \in 0 .. Len(g) /\ n \in 1 .. Len(g) /\ ~(n <= n - 1)
      BY <1>1, <2>4, <2>6
    <3>2. PICK s : UpTo(s, n - 1)
      <4>1. n - 1 \notin Without
        BY <2>3, <3>1
      <4> QED
        BY <3>1, <4>1
    <3> DEFINE t == [i \in 0 .. n |-> IF i < n THEN s[i] ELSE s[n - 1] + g[n]]
    <3>3. t \in [0 .. n -> Int]
      <4>1. ASSUME NEW i \in 0 .. n
            PROVE  (IF i < n THEN s[i] ELSE s[n - 1] + g[n]) \in Int
        <5>1. n - 1 \in 0 .. n - 1 /\ (i < n => i \in 0 .. n - 1)
          BY <1>1, <3>1
        <5> QED
          BY <1>1, <3>1, <3>2, <5>1
      <4> QED
        BY <4>1
    <3>4. t[0] = 0
      BY <3>1, <3>2
    <3>5. ASSUME NEW i \in 1 .. n
          PROVE  t[i] = t[i - 1] + g[i]
      <4>1. i \in 0 .. n /\ i - 1 \in 0 .. n /\ i - 1 < n /\ t[i - 1] = s[i - 1]
        BY <1>1, <3>1
      <4>2. CASE i = n
        BY <4>1, <4>2
      <4>3. CASE i < n
        <5>1. i \in 1 .. n - 1
          BY <3>1, <4>3
        <5> QED
          BY <3>2, <4>1, <4>3, <5>1
      <4> QED
        BY <1>1, <3>1, <4>2, <4>3
    <3> HIDE DEF t
    <3>6. UpTo(t, n)
      BY <3>3, <3>4, <3>5
    <3> QED
      BY <2>4, <3>6
  <2> QED
    BY <2>5, <2>6
<1>3. PICK s : UpTo(s, Len(g))
  <2>1. Len(g) \in 0 .. Len(g)
    BY <1>1
  <2> QED
    BY <1>2, <2>1
<1>4. ASSUME NEW i \in 0 .. Len(g)
      PROVE  s[i] = IF i = 0 THEN 0 ELSE s[i - 1] + g[i]
  <2>1. i = 0 \/ i \in 1 .. Len(g)
    BY <1>1
  <2> QED
    BY <1>3, <2>1
<1>5. s = [i \in 0 .. Len(g) |-> IF i = 0 THEN 0 ELSE s[i - 1] + g[i]]
  <2>1. s = [i \in 0 .. Len(g) |-> s[i]]
    BY <1>3
  <2> QED
    BY <1>4, <2>1
<1> QED
  BY <1>3, <1>5 DEF Sums

(* There is one way to add up.                                             *)
LEMMA SumsUnique ==
    ASSUME NEW g \in Seq(Int), NEW s, Sums(s, g),
           NEW t, DOMAIN t = 0 .. Len(g), t[0] = 0,
           \A i \in 1 .. Len(g) : t[i] = t[i - 1] + g[i]
    PROVE  \A i \in 0 .. Len(g) : s[i] = t[i]
<1>1. Len(g) \in Nat
  OBVIOUS
<1>2. s[0] = 0 /\ \A i \in 1 .. Len(g) : s[i] = s[i - 1] + g[i]
  <2>1. \A i \in 0 .. Len(g) : s[i] = IF i = 0 THEN 0 ELSE s[i - 1] + g[i]
    BY DEF Sums
  <2>2. 0 \in 0 .. Len(g) /\ \A i \in 1 .. Len(g) : i \in 0 .. Len(g) /\ i # 0
    BY <1>1
  <2> QED
    BY <2>1, <2>2
<1> DEFINE Apart == {i \in 0 .. Len(g) : s[i] # t[i]}
<1>3. Apart = {}
  <2>1. SUFFICES ASSUME Apart # {}
                 PROVE  FALSE
    OBVIOUS
  <2>2. Apart \in SUBSET Nat
    BY <1>1
  <2>3. PICK i \in Apart : \A j \in Apart : i <= j
    BY <2>1, <2>2, LeastNumber
  <2>4. i # 0 /\ i \in 0 .. Len(g) /\ s[i] # t[i]
    BY <1>2, <2>3
  <2>5. i \in 1 .. Len(g) /\ i - 1 \in 0 .. Len(g) /\ i - 1 \notin Apart
    BY <1>1, <2>2, <2>3, <2>4
  <2>6. s[i - 1] = t[i - 1]
    BY <2>5
  <2> QED
    BY <1>2, <2>4, <2>5, <2>6
<1> QED
  BY <1>3

(* What a total is: the last of any partial sums.                          *)
LEMMA TotalIs ==
    ASSUME NEW g \in Seq(Int), NEW t, DOMAIN t = 0 .. Len(g), t[0] = 0,
           \A i \in 1 .. Len(g) : t[i] = t[i - 1] + g[i]
    PROVE  Total(g) = t[Len(g)]
<1> DEFINE upTo == CHOOSE s : Sums(s, g)
<1>1. Sums(upTo, g)
  <2>1. \E s : Sums(s, g)
    BY SumsExist
  <2> QED
    BY <2>1
<1>2. Total(g) = upTo[Len(g)]
  BY DEF Total, Sums
<1>3. Len(g) \in 0 .. Len(g)
  OBVIOUS
<1> HIDE DEF upTo
<1> QED
  BY <1>1, <1>2, <1>3, SumsUnique

LEMMA TotalHas ==
    ASSUME NEW g \in Seq(Int)
    PROVE  \E s \in [0 .. Len(g) -> Int] :
              s[0] = 0 /\ (\A i \in 1 .. Len(g) : s[i] = s[i - 1] + g[i]) /\ Total(g) = s[Len(g)]
<1>1. PICK s \in [0 .. Len(g) -> Int] : Sums(s, g)
  BY SumsExist
<1>2. Len(g) \in Nat
  OBVIOUS
<1>3. s[0] = 0 /\ \A i \in 1 .. Len(g) : s[i] = s[i - 1] + g[i]
  <2>1. \A i \in 0 .. Len(g) : s[i] = IF i = 0 THEN 0 ELSE s[i - 1] + g[i]
    BY <1>1 DEF Sums
  <2>2. 0 \in 0 .. Len(g) /\ \A i \in 1 .. Len(g) : i \in 0 .. Len(g) /\ i # 0
    BY <1>2
  <2> QED
    BY <2>1, <2>2
<1>4. Total(g) = s[Len(g)]
  BY <1>3, TotalIs
<1> QED
  BY <1>3, <1>4

(* Nothing adds up to nothing, and a number at the end is added.           *)
LEMMA TotalEmpty == Total(<<>>) = 0
<1>1. <<>> \in Seq(Int) /\ Len(<<>>) = 0
  OBVIOUS
<1>2. PICK s \in [0 .. Len(<<>>) -> Int] : s[0] = 0 /\ Total(<<>>) = s[Len(<<>>)]
  BY <1>1, TotalHas
<1> QED
  BY <1>1, <1>2

LEMMA TotalAppend ==
    ASSUME NEW g \in Seq(Int), NEW v \in Int, NEW h \in Seq(Int), Len(h) = Len(g) + 1,
           h[Len(g) + 1] = v, \A i \in 1 .. Len(g) : h[i] = g[i]
    PROVE  Total(h) = Total(g) + v /\ Total(g) \in Int
<1>1. PICK s \in [0 .. Len(g) -> Int] :
         s[0] = 0 /\ (\A i \in 1 .. Len(g) : s[i] = s[i - 1] + g[i]) /\ Total(g) = s[Len(g)]
  BY TotalHas
<1>2. PICK n \in Nat : n = Len(g)
  OBVIOUS
<1> DEFINE t == [i \in 0 .. n + 1 |-> IF i <= n THEN s[i] ELSE s[n] + v]
<1>3. DOMAIN t = 0 .. Len(h) /\ t[0] = 0 /\ t[Len(h)] = s[n] + v
  BY <1>1, <1>2
<1>4. ASSUME NEW i \in 1 .. Len(h)
      PROVE  t[i] = t[i - 1] + h[i]
  <2>1. i \in 0 .. n + 1 /\ i - 1 \in 0 .. n + 1 /\ i - 1 <= n
    BY <1>2
  <2>2. t[i - 1] = s[i - 1]
    BY <2>1
  <2>3. CASE i <= n
    <3>1. i \in 1 .. Len(g) /\ t[i] = s[i]
      BY <1>2, <2>1, <2>3
    <3> QED
      BY <1>1, <2>2, <3>1
  <2>4. CASE i = n + 1
    <3>1. t[i] = s[n] + v /\ i - 1 = n /\ h[i] = v
      BY <1>2, <2>1, <2>4
    <3> QED
      BY <2>2, <3>1
  <2> QED
    BY <1>2, <2>1, <2>3, <2>4
<1>5. s[n] \in Int
  BY <1>1, <1>2
<1> HIDE DEF t
<1>6. Total(h) = t[Len(h)]
  BY <1>3, <1>4, TotalIs
<1> QED
  BY <1>1, <1>2, <1>3, <1>5, <1>6

(* A number at the front is added too.                                     *)
LEMMA TotalFront ==
    ASSUME NEW g \in Seq(Int), NEW v \in Int, NEW h \in Seq(Int), Len(h) = Len(g) + 1,
           h[1] = v, \A i \in 1 .. Len(g) : h[i + 1] = g[i]
    PROVE  Total(h) = v + Total(g) /\ Total(g) \in Int
<1>1. PICK s \in [0 .. Len(g) -> Int] :
         s[0] = 0 /\ (\A i \in 1 .. Len(g) : s[i] = s[i - 1] + g[i]) /\ Total(g) = s[Len(g)]
  BY TotalHas
<1>2. PICK n \in Nat : n = Len(g)
  OBVIOUS
<1>typed. (\A j \in 0 .. n : s[j] \in Int) /\ \A j \in 1 .. n : g[j] \in Int
  <2>1. s \in [0 .. n -> Int] /\ g \in [1 .. n -> Int]
    <3>1. g \in [1 .. Len(g) -> Int]
      OBVIOUS
    <3> QED
      BY <1>1, <1>2, <3>1
  <2> QED
    BY <2>1
<1> DEFINE t == [i \in 0 .. n + 1 |-> IF i = 0 THEN 0 ELSE v + s[i - 1]]
<1>3. DOMAIN t = 0 .. Len(h) /\ t[0] = 0 /\ t[Len(h)] = v + s[n]
  BY <1>1, <1>2
<1>4. ASSUME NEW i \in 1 .. Len(h)
      PROVE  t[i] = t[i - 1] + h[i]
  <2>1. i \in 0 .. n + 1 /\ i - 1 \in 0 .. n + 1 /\ i - 1 <= n
    BY <1>2
  <2>2. t[i] = v + s[i - 1] /\ s[i - 1] \in Int
    <3>1. i # 0 /\ i - 1 \in 0 .. n
      BY <1>2, <2>1
    <3> QED
      BY <1>typed, <2>1, <3>1
  <2>3. CASE i = 1
    BY <1>1, <2>1, <2>2, <2>3
  <2>4. CASE i # 1
    <3>1. i - 1 \in 1 .. Len(g) /\ t[i - 1] = v + s[(i - 1) - 1] /\ h[i] = g[i - 1]
      <4>1. i - 1 \in 1 .. Len(g) /\ (i - 1) + 1 = i /\ i - 1 # 0
        BY <1>2, <2>1, <2>4
      <4> QED
        BY <2>1, <4>1
    <3>2. s[i - 1] = s[(i - 1) - 1] + g[i - 1]
      BY <1>1, <3>1
    <3>3. s[(i - 1) - 1] \in Int /\ g[i - 1] \in Int
      <4>1. (i - 1) - 1 \in 0 .. n /\ i - 1 \in 1 .. n
        BY <1>2, <3>1
      <4> QED
        BY <1>typed, <4>1
    <3>4. \A a, b, c \in Int : a + (b + c) = (a + b) + c
      OBVIOUS
    <3>5. v + (s[(i - 1) - 1] + g[i - 1]) = (v + s[(i - 1) - 1]) + g[i - 1]
      BY <3>3, <3>4
    <3> QED
      BY <2>2, <3>1, <3>2, <3>5
  <2> QED
    BY <2>3, <2>4
<1>5. s[n] \in Int
  BY <1>1, <1>2
<1> HIDE DEF t
<1>6. Total(h) = t[Len(h)]
  BY <1>3, <1>4, TotalIs
<1> QED
  BY <1>1, <1>2, <1>3, <1>5, <1>6

(* Three numbers are added in any order.                                   *)
LEMMA InAnyOrder == \A a, b, c \in Int : (a + b) + c = (a + c) + b /\ (a + b) + c = a + (b + c)
OBVIOUS

(* The change of one number is the change of the total.                    *)
LEMMA TotalChange ==
    ASSUME NEW g \in Seq(Int), NEW h \in Seq(Int), Len(h) = Len(g), NEW k0 \in 1 .. Len(g),
           NEW d \in Int, h[k0] = g[k0] + d, \A i \in 1 .. Len(g) : i # k0 => h[i] = g[i]
    PROVE  Total(h) = Total(g) + d /\ Total(g) \in Int
<1>1. PICK s \in [0 .. Len(g) -> Int] :
         s[0] = 0 /\ (\A i \in 1 .. Len(g) : s[i] = s[i - 1] + g[i]) /\ Total(g) = s[Len(g)]
  BY TotalHas
<1>2. PICK n \in Nat : n = Len(g) /\ k0 \in 1 .. n
  OBVIOUS
<1>typed. (\A j \in 0 .. n : s[j] \in Int) /\ \A j \in 1 .. n : g[j] \in Int
  <2>1. s \in [0 .. n -> Int] /\ g \in [1 .. n -> Int]
    <3>1. g \in [1 .. Len(g) -> Int]
      OBVIOUS
    <3> QED
      BY <1>1, <1>2, <3>1
  <2> QED
    BY <2>1
<1> DEFINE t == [i \in 0 .. n |-> IF i < k0 THEN s[i] ELSE s[i] + d]
<1>3. DOMAIN t = 0 .. Len(h) /\ t[0] = 0 /\ t[Len(h)] = s[n] + d
  BY <1>1, <1>2
<1>4. ASSUME NEW i \in 1 .. Len(h)
      PROVE  t[i] = t[i - 1] + h[i]
  <2>1. i \in 0 .. n /\ i - 1 \in 0 .. n /\ i \in 1 .. Len(g)
    BY <1>2
  <2>2. s[i] = s[i - 1] + g[i] /\ s[i] \in Int /\ s[i - 1] \in Int /\ g[i] \in Int
    <3>1. i \in 1 .. n
      BY <1>2, <2>1
    <3> QED
      BY <1>1, <1>typed, <2>1, <3>1
  <2>3. CASE i < k0
    <3>1. t[i] = s[i] /\ t[i - 1] = s[i - 1] /\ h[i] = g[i]
      BY <1>2, <2>1, <2>3
    <3> QED
      BY <2>2, <3>1
  <2>4. CASE i = k0
    <3>1. t[i] = s[i] + d /\ t[i - 1] = s[i - 1] /\ h[i] = g[i] + d
      BY <1>2, <2>1, <2>4
    <3>2. (s[i - 1] + g[i]) + d = s[i - 1] + (g[i] + d)
      BY <2>2, InAnyOrder
    <3> HIDE DEF t
    <3> QED
      BY <2>2, <3>1, <3>2, Zenon
  <2>5. CASE i > k0
    <3>1. t[i] = s[i] + d /\ t[i - 1] = s[i - 1] + d /\ h[i] = g[i]
      BY <1>2, <2>1, <2>5
    <3>2. (s[i - 1] + g[i]) + d = (s[i - 1] + d) + g[i]
      BY <2>2, InAnyOrder
    <3> HIDE DEF t
    <3> QED
      BY <2>2, <3>1, <3>2, Zenon
  <2> QED
    BY <1>2, <2>1, <2>3, <2>4, <2>5
<1>5. s[n] \in Int
  BY <1>1, <1>2
<1> HIDE DEF t
<1>6. Total(h) = t[Len(h)]
  BY <1>3, <1>4, TotalIs
<1> QED
  BY <1>1, <1>2, <1>3, <1>5, <1>6

(* The numbers of keys of a row of jobs.                                   *)
KeyNumbers(jobs) == [i \in 1 .. Len(jobs) |-> Len(jobs[i].keys)]

LEMMA KeyNumbersTyped ==
    ASSUME NEW jobs \in Seq(JobType)
    PROVE  /\ KeyNumbers(jobs) \in Seq(Int) /\ Len(KeyNumbers(jobs)) = Len(jobs)
           /\ \A i \in 1 .. Len(jobs) : KeyNumbers(jobs)[i] = Len(jobs[i].keys)
           /\ KeysOf(jobs) = Total(KeyNumbers(jobs)) /\ KeysOf(jobs) \in Int
<1>1. Len(jobs) \in Nat
  OBVIOUS
<1>2. \A i \in 1 .. Len(jobs) : Len(jobs[i].keys) \in Int
  <2>1. ASSUME NEW i \in 1 .. Len(jobs)
        PROVE  Len(jobs[i].keys) \in Int
    <3>1. jobs[i] \in JobType
      OBVIOUS
    <3>2. jobs[i].keys \in Seq(Nat)
      BY <3>1 DEF JobType
    <3> QED
      BY <3>2
  <2> QED
    BY <2>1
<1>3. KeyNumbers(jobs) \in [1 .. Len(jobs) -> Int]
  BY <1>2 DEF KeyNumbers
<1>4. KeyNumbers(jobs) \in Seq(Int) /\ Len(KeyNumbers(jobs)) = Len(jobs)
  BY <1>1, <1>3
<1>5. Total(KeyNumbers(jobs)) \in Int
  <2>1. PICK numbers \in Seq(Int) : numbers = KeyNumbers(jobs)
    BY <1>4
  <2>2. PICK s \in [0 .. Len(numbers) -> Int] : Total(numbers) = s[Len(numbers)]
    BY <2>1, TotalHas
  <2>3. Len(numbers) \in 0 .. Len(numbers)
    OBVIOUS
  <2> QED
    BY <2>1, <2>2, <2>3
<1>6. KeysOf(jobs) = Total(KeyNumbers(jobs))
  BY DEF KeysOf, KeyNumbers
<1> QED
  BY <1>4, <1>5, <1>6 DEF KeyNumbers

(* A job at the end of a row brings its keys.                              *)
LEMMA KeysAppend ==
    ASSUME NEW jobs \in Seq(JobType), NEW job \in JobType
    PROVE  KeysOf(Append(jobs, job)) = KeysOf(jobs) + Len(job.keys)
<1>1. PICK more : more = Append(jobs, job)
  OBVIOUS
<1>2. /\ more \in Seq(JobType) /\ Len(more) = Len(jobs) + 1 /\ more[Len(jobs) + 1] = job
      /\ \A i \in 1 .. Len(jobs) : more[i] = jobs[i]
  BY <1>1, AppendProperties
<1>3. Len(jobs) \in Nat /\ Len(job.keys) \in Int
  BY DEF JobType
<1>4. PICK g \in Seq(Int), h \in Seq(Int) : g = KeyNumbers(jobs) /\ h = KeyNumbers(more)
  BY <1>2, KeyNumbersTyped
<1>5. /\ Len(g) = Len(jobs) /\ Len(h) = Len(more) /\ KeysOf(jobs) = Total(g) /\ KeysOf(more) = Total(h)
      /\ \A i \in 1 .. Len(jobs) : g[i] = Len(jobs[i].keys)
      /\ \A i \in 1 .. Len(more) : h[i] = Len(more[i].keys)
  BY <1>2, <1>4, KeyNumbersTyped
<1>6. /\ Len(h) = Len(g) + 1 /\ h[Len(g) + 1] = Len(job.keys)
      /\ \A i \in 1 .. Len(g) : h[i] = g[i]
  <2>1. Len(jobs) + 1 \in 1 .. Len(more) /\ \A i \in 1 .. Len(jobs) : i \in 1 .. Len(more)
    BY <1>2, <1>3
  <2> QED
    BY <1>2, <1>5, <2>1
<1>7. Total(h) = Total(g) + Len(job.keys)
  BY <1>3, <1>6, TotalAppend
<1> QED
  BY <1>1, <1>5, <1>7

(* The job in a worker's hands comes first in its line.                    *)
LEMMA KeysFirst ==
    ASSUME NEW c \in JobType, NEW q \in Seq(JobType), c # NoJob
    PROVE  KeysOf(Row(c, q)) = Len(c.keys) + KeysOf(q)
<1>1. PICK row : row = Row(c, q)
  OBVIOUS
<1>2. /\ row \in Seq(JobType) /\ Len(row) = Len(q) + 1 /\ row[1] = c
      /\ \A i \in 1 .. Len(q) : row[i + 1] = q[i]
  BY <1>1, RowFacts
<1>3. Len(q) \in Nat /\ Len(c.keys) \in Int
  BY DEF JobType
<1>4. PICK g \in Seq(Int), h \in Seq(Int) : g = KeyNumbers(q) /\ h = KeyNumbers(row)
  BY <1>2, KeyNumbersTyped
<1>5. /\ Len(g) = Len(q) /\ Len(h) = Len(row) /\ KeysOf(q) = Total(g) /\ KeysOf(row) = Total(h)
      /\ \A i \in 1 .. Len(q) : g[i] = Len(q[i].keys)
      /\ \A i \in 1 .. Len(row) : h[i] = Len(row[i].keys)
  BY <1>2, <1>4, KeyNumbersTyped
<1>6. /\ Len(h) = Len(g) + 1 /\ h[1] = Len(c.keys)
      /\ \A i \in 1 .. Len(g) : h[i + 1] = g[i]
  <2>1. 1 \in 1 .. Len(row) /\ \A i \in 1 .. Len(q) : i + 1 \in 1 .. Len(row)
    BY <1>2, <1>3
  <2> QED
    BY <1>2, <1>5, <2>1
<1>7. Total(h) = Len(c.keys) + Total(g)
  BY <1>3, <1>6, TotalFront
<1> QED
  BY <1>1, <1>5, <1>7

(* What a worker has still to do, and what all have, whatever is in their  *)
(* hands and queues.                                                       *)
LeftOf(c, q, done) == KeysOf(Row(c, q)) - done
LeftNumbers(cs, qs, dones) == [i \in 1 .. MaxWorkers |-> LeftOf(cs[i - 1], qs[i - 1], dones[i - 1])]

LEMMA LeftTyped ==
    ASSUME NEW cs \in [Ids -> JobType], NEW qs \in [Ids -> Seq(JobType)], NEW dones \in [Ids -> Nat]
    PROVE  LET numbers == LeftNumbers(cs, qs, dones)
           IN /\ numbers \in Seq(Int) /\ Len(numbers) = MaxWorkers /\ Total(numbers) \in Int
              /\ \A w \in Ids : /\ w + 1 \in 1 .. MaxWorkers /\ LeftOf(cs[w], qs[w], dones[w]) \in Int
                                /\ numbers[w + 1] = LeftOf(cs[w], qs[w], dones[w])
<1> DEFINE numbers == LeftNumbers(cs, qs, dones)
           At(w) == LeftOf(cs[w], qs[w], dones[w])
<1>1. MaxWorkers \in Nat
  BY BoundsAssumption
<1>2. \A w \in Ids : At(w) \in Int
  <2>1. ASSUME NEW w \in Ids
        PROVE  At(w) \in Int
    <3>1. cs[w] \in JobType /\ qs[w] \in Seq(JobType)
      OBVIOUS
    <3>2. Row(cs[w], qs[w]) \in Seq(JobType)
      BY <3>1, RowFacts
    <3>3. KeysOf(Row(cs[w], qs[w])) \in Int
      BY <3>2, KeyNumbersTyped
    <3>4. dones[w] \in Int
      OBVIOUS
    <3> QED
      BY <3>3, <3>4 DEF LeftOf
  <2> QED
    BY <2>1
<1>3. \A i \in 1 .. MaxWorkers : i - 1 \in Ids
  BY <1>1 DEF Ids
<1>4. \A w \in Ids : w + 1 \in 1 .. MaxWorkers /\ (w + 1) - 1 = w
  BY <1>1 DEF Ids
<1>5. numbers = [i \in 1 .. MaxWorkers |-> At(i - 1)]
  BY DEF LeftNumbers
<1> HIDE DEF At, numbers
<1>6. numbers \in [1 .. MaxWorkers -> Int]
  BY <1>2, <1>3, <1>5
<1>7. numbers \in Seq(Int) /\ Len(numbers) = MaxWorkers
  BY <1>1, <1>6
<1>8. Total(numbers) \in Int
  <2>1. PICK s \in [0 .. Len(numbers) -> Int] : Total(numbers) = s[Len(numbers)]
    BY <1>7, TotalHas
  <2>2. Len(numbers) \in 0 .. Len(numbers)
    BY <1>1, <1>7
  <2> QED
    BY <2>1, <2>2
<1>9. \A i \in 1 .. MaxWorkers : numbers[i] = At(i - 1)
  BY <1>5
<1>10. \A w \in Ids : numbers[w + 1] = At(w)
  <2>1. ASSUME NEW w \in Ids
        PROVE  numbers[w + 1] = At(w)
    <3>1. w + 1 \in 1 .. MaxWorkers /\ (w + 1) - 1 = w
      BY <1>4
    <3>2. numbers[w + 1] = At((w + 1) - 1)
      BY <1>9, <3>1
    <3> QED
      BY <3>1, <3>2
  <2> QED
    BY <2>1
<1> QED
  BY <1>2, <1>4, <1>7, <1>8, <1>10 DEF At, numbers

LEMMA KeysLeftIs ==
    /\ KeysLeft = Total(LeftNumbers(current, queue, keyNo))
    /\ KeysLeft' = Total(LeftNumbers(current', queue', keyNo'))
BY DEF KeysLeft, LeftNumbers, LeftOf, Line, Row

(* When the work of one worker changes, what is left changes by as much.   *)
LEMMA LeftChange ==
    ASSUME TypeOK, TypeOK', NEW w \in Ids, NEW d \in Int,
           LeftOf(current'[w], queue'[w], keyNo'[w]) = LeftOf(current[w], queue[w], keyNo[w]) + d,
           \A v \in Ids : v # w => /\ current'[v] = current[v] /\ queue'[v] = queue[v]
                                   /\ keyNo'[v] = keyNo[v]
    PROVE  KeysLeft' = KeysLeft + d
<1>1. /\ current \in [Ids -> JobType] /\ queue \in [Ids -> Seq(JobType)] /\ keyNo \in [Ids -> Nat]
      /\ current' \in [Ids -> JobType] /\ queue' \in [Ids -> Seq(JobType)] /\ keyNo' \in [Ids -> Nat]
  BY DEF TypeOK
<1>2. PICK g \in Seq(Int) : g = LeftNumbers(current, queue, keyNo)
  BY <1>1, LeftTyped
<1>3. PICK h \in Seq(Int) : h = LeftNumbers(current', queue', keyNo')
  BY <1>1, LeftTyped
<1>4. /\ Len(g) = MaxWorkers
      /\ \A v \in Ids : v + 1 \in 1 .. MaxWorkers /\ g[v + 1] = LeftOf(current[v], queue[v], keyNo[v])
  BY <1>1, <1>2, LeftTyped
<1>5. /\ Len(h) = MaxWorkers
      /\ \A v \in Ids : h[v + 1] = LeftOf(current'[v], queue'[v], keyNo'[v])
  BY <1>1, <1>3, LeftTyped
<1>6. \A i \in 1 .. Len(g) : i # w + 1 => h[i] = g[i]
  <2>1. ASSUME NEW i \in 1 .. Len(g), i # w + 1
        PROVE  h[i] = g[i]
    <3>1. i - 1 \in Ids /\ i - 1 # w /\ (i - 1) + 1 = i
      BY <1>4, <2>1, BoundsAssumption DEF Ids
    <3>2. h[(i - 1) + 1] = g[(i - 1) + 1]
      BY <1>4, <1>5, <3>1
    <3> QED
      BY <3>1, <3>2
  <2> QED
    BY <2>1
<1>7. h[w + 1] = g[w + 1] + d /\ w + 1 \in 1 .. Len(g)
  BY <1>4, <1>5
<1>8. Total(h) = Total(g) + d
  BY <1>4, <1>5, <1>6, <1>7, TotalChange
<1> QED
  BY <1>2, <1>3, <1>8, KeysLeftIs

LEMMA LeftSame ==
    ASSUME UNCHANGED <<current, queue, keyNo>>
    PROVE  KeysLeft' = KeysLeft
BY KeysLeftIs

-----------------------------------------------------------------------------
(* Where keys are counted: a worker without a job has done none of its     *)
(* keys, and outside of PostJob the main thread holds no job.              *)
KeysCounted ==
    /\ \A w \in Ids : wpc[w] # "work" => keyNo[w] = 0
    /\ mpc \in {"start", "case", "destroy", "exit"} => inHand.keys = <<>>
    /\ TotalOpAccounts

(* Steps of a worker: of the keys in its line, one more is done, or none.  *)
LEMMA WorkerCounts ==
    ASSUME IInv, TypeOK', KeysCounted, NEW w \in Ids, WorkerThread(w)
    PROVE  KeysCounted'
<1> USE DEF IInv
<1>1. UNCHANGED mainVars /\ mpc \notin Ended
  BY DEF WorkerThread, PopJob, FindEmpty, CheckOver, DoKey, DeleteJob
<1>2. UNCHANGED <<mpc, totalOp, inHand>>
  BY <1>1 DEF mainVars
<1>3. \A v \in Ids : v # w => /\ current'[v] = current[v] /\ queue'[v] = queue[v]
                              /\ keyNo'[v] = keyNo[v] /\ wpc'[v] = wpc[v]
  BY DEF WorkerThread, PopJob, FindEmpty, CheckOver, DoKey, DeleteJob, TypeOK
<1>4. /\ current[w] \in JobType /\ queue[w] \in Seq(JobType) /\ keyNo[w] \in Nat
      /\ totalOp \in Nat /\ executed \in Nat /\ Len(inHand.keys) \in Nat
  <2>1. inHand \in JobType /\ totalOp \in Nat /\ executed \in Nat
    BY DEF TypeOK
  <2>2. inHand.keys \in Seq(Nat)
    BY <2>1 DEF JobType
  <2>3. Len(inHand.keys) \in Nat
    BY <2>2
  <2>4. current \in [Ids -> JobType] /\ queue \in [Ids -> Seq(JobType)] /\ keyNo \in [Ids -> Nat]
    BY DEF TypeOK
  <2>5. current[w] \in JobType /\ queue[w] \in Seq(JobType) /\ keyNo[w] \in Nat
    BY <2>4
  <2> QED
    BY <2>1, <2>3, <2>5
<1>5. totalOp = executed + KeysLeft + Len(inHand.keys)
  BY <1>1 DEF KeysCounted, TotalOpAccounts, Ended
<1>6. KeysLeft \in Int
  <2>1. current \in [Ids -> JobType] /\ queue \in [Ids -> Seq(JobType)] /\ keyNo \in [Ids -> Nat]
    BY DEF TypeOK
  <2>2. Total(LeftNumbers(current, queue, keyNo)) \in Int
    BY <2>1, LeftTyped
  <2> QED
    BY <2>2, KeysLeftIs
<1>7. LeftOf(current[w], queue[w], keyNo[w]) \in Int
  <2>1. Row(current[w], queue[w]) \in Seq(JobType)
    BY <1>4, RowFacts
  <2>2. KeysOf(Row(current[w], queue[w])) \in Int
    BY <2>1, KeyNumbersTyped
  <2> QED
    BY <1>4, <2>2 DEF LeftOf
<1> DEFINE Counts == executed' + KeysLeft' = executed + KeysLeft
           Resting == wpc'[w] # "work" => keyNo'[w] = 0
<1> HIDE DEF KeysLeft
<1>8. ASSUME PopJob(w)
      PROVE  Counts /\ Resting
  <2>1. /\ wpc[w] = "poll" /\ queue[w] # <<>> /\ executed' = executed
        /\ current'[w] = Head(queue[w]) /\ queue'[w] = Tail(queue[w])
        /\ keyNo'[w] = 0 /\ wpc'[w] = "work"
    BY <1>8 DEF PopJob, TypeOK
  <2>2. current[w] = NoJob /\ keyNo[w] = 0
    BY <2>1 DEF WorkersKept, KeysCounted
  <2>3. Row(current'[w], queue'[w]) = Row(current[w], queue[w])
    BY <1>4, <2>1, <2>2, QueuedIsJob, RowPop
  <2>4. LeftOf(current'[w], queue'[w], keyNo'[w]) = LeftOf(current[w], queue[w], keyNo[w]) + 0
    BY <1>7, <2>1, <2>2, <2>3 DEF LeftOf
  <2>5. KeysLeft' = KeysLeft + 0
    BY <1>3, <2>4, LeftChange
  <2> QED
    BY <1>4, <1>6, <2>1, <2>5
<1>9. ASSUME FindEmpty(w) \/ CheckOver(w)
      PROVE  Counts /\ Resting
  <2>1. UNCHANGED <<current, queue, keyNo, executed>> /\ wpc[w] # "work"
    BY <1>9 DEF FindEmpty, CheckOver
  <2>2. KeysLeft' = KeysLeft
    BY <2>1, LeftSame
  <2> QED
    BY <1>3, <1>9, <2>1, <2>2 DEF KeysCounted
<1>10. ASSUME DoKey(w)
      PROVE  Counts /\ Resting
  <2>1. /\ wpc'[w] = "work" /\ executed' = executed + 1 /\ keyNo'[w] = keyNo[w] + 1
        /\ current'[w] = current[w] /\ queue'[w] = queue[w]
    BY <1>10 DEF DoKey, TypeOK
  <2>2. LeftOf(current'[w], queue'[w], keyNo'[w]) = LeftOf(current[w], queue[w], keyNo[w]) + (-1)
    <3>1. PICK all \in Int : all = KeysOf(Row(current[w], queue[w]))
      <4>1. Row(current[w], queue[w]) \in Seq(JobType)
        BY <1>4, RowFacts
      <4> QED
        BY <4>1, KeyNumbersTyped
    <3> QED
      BY <1>4, <2>1, <3>1 DEF LeftOf
  <2>3. KeysLeft' = KeysLeft + (-1)
    BY <1>3, <2>2, LeftChange
  <2> QED
    BY <1>4, <1>6, <2>1, <2>3
<1>11. ASSUME DeleteJob(w)
      PROVE  Counts /\ Resting
  <2>1. /\ wpc[w] = "work" /\ keyNo[w] = Len(current[w].keys) /\ executed' = executed
        /\ current'[w] = NoJob /\ queue'[w] = queue[w] /\ keyNo'[w] = 0
    BY <1>11 DEF DeleteJob, TypeOK
  <2>2. current[w] # NoJob
    BY <2>1 DEF WorkersKept
  <2>3. KeysOf(Row(current[w], queue[w])) = Len(current[w].keys) + KeysOf(queue[w])
    BY <1>4, <2>2, KeysFirst
  <2>4. Row(NoJob, queue[w]) = queue[w]
    BY <1>4, NoJobTyped, RowFacts
  <2>5. LeftOf(current'[w], queue'[w], keyNo'[w]) = LeftOf(current[w], queue[w], keyNo[w]) + 0
    <3>1. PICK rest \in Int : rest = KeysOf(queue[w])
      BY <1>4, KeyNumbersTyped
    <3>2. LeftOf(current'[w], queue'[w], keyNo'[w]) = rest - 0
      BY <2>1, <2>4, <3>1 DEF LeftOf
    <3>3. LeftOf(current[w], queue[w], keyNo[w]) = (keyNo[w] + rest) - keyNo[w]
      BY <2>1, <2>3, <3>1 DEF LeftOf
    <3> QED
      BY <1>4, <3>1, <3>2, <3>3
  <2>6. KeysLeft' = KeysLeft + 0
    BY <1>3, <2>5, LeftChange
  <2> QED
    BY <1>4, <1>6, <2>1, <2>6
<1>12. Counts /\ Resting
  BY <1>8, <1>9, <1>10, <1>11 DEF WorkerThread
<1>13. TotalOpAccounts'
  <2>1. executed' \in Nat /\ KeysLeft' \in Int
    <3>1. current' \in [Ids -> JobType] /\ queue' \in [Ids -> Seq(JobType)] /\ keyNo' \in [Ids -> Nat]
      BY DEF TypeOK
    <3>2. Total(LeftNumbers(current', queue', keyNo')) \in Int
      BY <3>1, LeftTyped
    <3> QED
      BY <3>2, KeysLeftIs DEF TypeOK
  <2> QED
    BY <1>2, <1>4, <1>5, <1>6, <1>12, <2>1 DEF TotalOpAccounts
<1> QED
  BY <1>2, <1>3, <1>12, <1>13 DEF KeysCounted

(* PostJob moves the keys of the job in hand to the end of a line.         *)
LEMMA PostCounts ==
    ASSUME IInv, TypeOK', KeysCounted, PostJob
    PROVE  KeysCounted'
<1> USE DEF IInv
<1>1. /\ mpc = "post" /\ mpc' = "case" /\ inHand' = NoJob /\ totalOp' = totalOp /\ workNums > 0
      /\ queue' = [queue EXCEPT ![selected] = Append(@, inHand)]
      /\ UNCHANGED <<wpc, current, keyNo, executed>>
  BY DEF PostJob, AcceptJob, workerVars
<1>2. selected \in Ids
  BY <1>1, NextSelectedFacts DEF Workers
<1>3. current[selected] \in JobType /\ queue[selected] \in Seq(JobType) /\ inHand \in JobType
  BY <1>2 DEF TypeOK
<1>4. Len(inHand.keys) \in Int
  <2>1. inHand.keys \in Seq(Nat)
    BY <1>3 DEF JobType
  <2> QED
    BY <2>1
<1>5. /\ queue'[selected] = Append(queue[selected], inHand)
      /\ \A v \in Ids : v # selected => queue'[v] = queue[v]
  BY <1>1, <1>2 DEF TypeOK
<1>6. LeftOf(current'[selected], queue'[selected], keyNo'[selected])
         = LeftOf(current[selected], queue[selected], keyNo[selected]) + Len(inHand.keys)
  <2>1. PICK row : row = Row(current[selected], queue[selected])
    OBVIOUS
  <2>2. row \in Seq(JobType)
    BY <1>3, <2>1, RowFacts
  <2>3. Row(current'[selected], queue'[selected]) = Append(row, inHand)
    BY <1>1, <1>3, <1>5, <2>1, RowAppend
  <2>4. KeysOf(Append(row, inHand)) = KeysOf(row) + Len(inHand.keys)
    BY <1>3, <2>2, KeysAppend
  <2>5. PICK all \in Int, done \in Nat, more \in Int :
           all = KeysOf(row) /\ done = keyNo[selected] /\ more = Len(inHand.keys)
    BY <1>2, <1>4, <2>2, KeyNumbersTyped DEF TypeOK
  <2>6. LeftOf(current'[selected], queue'[selected], keyNo'[selected]) = (all + more) - done
    BY <1>1, <2>3, <2>4, <2>5 DEF LeftOf
  <2>7. LeftOf(current[selected], queue[selected], keyNo[selected]) = all - done
    BY <2>1, <2>5 DEF LeftOf
  <2> QED
    BY <2>5, <2>6, <2>7
<1>7. KeysLeft' = KeysLeft + Len(inHand.keys)
  BY <1>1, <1>2, <1>4, <1>5, <1>6, LeftChange
<1>8. KeysLeft \in Int
  <2>1. current \in [Ids -> JobType] /\ queue \in [Ids -> Seq(JobType)] /\ keyNo \in [Ids -> Nat]
    BY DEF TypeOK
  <2>2. Total(LeftNumbers(current, queue, keyNo)) \in Int
    BY <2>1, LeftTyped
  <2> QED
    BY <2>2, KeysLeftIs
<1> HIDE DEF KeysLeft
<1>9. totalOp = executed + KeysLeft + Len(inHand.keys)
  BY <1>1 DEF KeysCounted, TotalOpAccounts
<1>10. inHand'.keys = <<>> /\ Len(inHand'.keys) = 0
  BY <1>1 DEF NoJob
<1>11. PICK kept \in Int, more \in Int, done \in Nat :
          kept = KeysLeft /\ more = Len(inHand.keys) /\ done = executed
  BY <1>4, <1>8 DEF TypeOK
<1>12. totalOp' = executed' + KeysLeft' + Len(inHand'.keys)
  <2>1. done + kept + more = done + (kept + more) + 0
    <3>1. \A a \in Nat, b, c \in Int : a + b + c = a + (b + c) + 0
      OBVIOUS
    <3> QED
      BY <1>11, <3>1
  <2>2. totalOp' = done + kept + more
    BY <1>1, <1>9, <1>11
  <2>3. executed' + KeysLeft' + Len(inHand'.keys) = done + (kept + more) + 0
    BY <1>1, <1>7, <1>10, <1>11
  <2> QED
    BY <2>1, <2>2, <2>3
<1> QED
  BY <1>1, <1>10, <1>12 DEF KeysCounted, TotalOpAccounts

(* do_work counts the keys of the job it prepares.                         *)
LEMMA PrepareCounts ==
    ASSUME IInv, KeysCounted, NEW n \in Nums, NEW op \in {"put", "get", "delete"}, Prepared(op, n)
    PROVE  KeysCounted'
<1> USE DEF IInv
<1>1. n \in Nat /\ n > 0
  BY BoundsAssumption
<1>2. /\ mpc = "case" /\ mpc' = "post" /\ totalOp' = totalOp + n
      /\ UNCHANGED <<queue, wpc, current, keyNo, executed>>
  BY DEF Prepared, PreparePut, PrepareFetch, workerVars
<1>3. Len(inHand'.keys) = n
  <2>1. CASE PreparePut(n)
    <3>1. inHand'.keys = [j \in 1 .. n |-> lines + j]
      BY <2>1 DEF PreparePut, Job
    <3> QED
      BY <1>1, <3>1
  <2>2. CASE op \in {"get", "delete"} /\ PrepareFetch(op, n)
    <3>1. inHand'.keys = LinesRead(Cursor(op), n) /\ ~TooShort(Cursor(op), n)
      BY <2>2 DEF PrepareFetch, Job
    <3>2. Cursor(op) \in Nat
      BY DEF Cursor, TypeOK
    <3> QED
      BY <1>1, <3>1, <3>2, LinesReadFacts
  <2> QED
    BY <2>1, <2>2 DEF Prepared
<1>4. KeysLeft' = KeysLeft
  BY <1>2, LeftSame
<1>5. KeysLeft \in Int
  <2>1. current \in [Ids -> JobType] /\ queue \in [Ids -> Seq(JobType)] /\ keyNo \in [Ids -> Nat]
    BY DEF TypeOK
  <2>2. Total(LeftNumbers(current, queue, keyNo)) \in Int
    BY <2>1, LeftTyped
  <2> QED
    BY <2>2, KeysLeftIs
<1> HIDE DEF KeysLeft
<1>6. totalOp = executed + KeysLeft + Len(inHand.keys) /\ Len(inHand.keys) = 0
  BY <1>2 DEF KeysCounted, TotalOpAccounts
<1>7. totalOp' = executed' + KeysLeft' + Len(inHand'.keys)
  <2>1. PICK kept \in Int, done \in Nat : kept = KeysLeft /\ done = executed
    BY <1>5 DEF TypeOK
  <2>2. totalOp' = (done + kept + 0) + n
    BY <1>2, <1>6, <2>1
  <2>3. executed' + KeysLeft' + Len(inHand'.keys) = done + kept + n
    BY <1>2, <1>3, <1>4, <2>1
  <2> QED
    BY <1>1, <2>1, <2>2, <2>3
<1> QED
  BY <1>2, <1>7 DEF KeysCounted, TotalOpAccounts

(* What else the main thread does takes no key and adds none; and of a     *)
(* process that failed nothing is said.                                    *)
LEMMA OthersCount ==
    ASSUME IInv, KeysCounted, UNCHANGED <<queue, current, keyNo, executed>>,
           \A w \in Ids : wpc'[w] # "work" => keyNo[w] = 0,
           \/ mpc' \in {"failed", "crashed"}
           \/ /\ totalOp' = totalOp /\ inHand' = inHand
              /\ mpc' \in {"start", "case", "destroy", "exit"} => mpc \in {"start", "case", "destroy"}
              /\ mpc \notin {"failed", "crashed"}
    PROVE  KeysCounted'
<1>1. KeysLeft' = KeysLeft
  BY LeftSame
<1>2. TotalOpAccounts'
  BY <1>1 DEF KeysCounted, TotalOpAccounts
<1> QED
  BY <1>2 DEF KeysCounted

LEMMA CountStep ==
    ASSUME IInv, KeysCounted, [Next]_vars
    PROVE  KeysCounted'
<1>1. TypeOK'
  BY TypeStep DEF IInv
<1>2. CASE StartWorker
  <2>1. \A w \in Ids : wpc'[w] # "work" => keyNo[w] = 0
    <3>1. ASSUME NEW w \in Ids, wpc'[w] # "work"
          PROVE  keyNo[w] = 0
      <4>1. wpc'[w] = wpc[w] \/ wpc[w] = "none"
        BY <1>2 DEF StartWorker, IInv, TypeOK, WorkersKept
      <4> QED
        BY <3>1, <4>1 DEF KeysCounted
    <3> QED
      BY <3>1
  <2> QED
    BY <1>2, <2>1, OthersCount DEF StartWorker
<1>3. CASE StartDone \/ DoWorkDone \/ StopWorker \/ JoinWorker \/ JoinNobody \/ Exit
           \/ RetryNext \/ PostToNobody
  <2>1. UNCHANGED <<queue, wpc, current, keyNo, executed, totalOp, inHand>>
    BY <1>3 DEF StartDone, DoWorkDone, StopWorker, JoinWorker, JoinNobody, Exit, RetryNext, PostToNobody,
                workerVars
  <2>2. \/ mpc' \in {"failed", "crashed"}
        \/ /\ mpc' \in {"start", "case", "destroy", "exit"} => mpc \in {"start", "case", "destroy"}
           /\ mpc \notin {"failed", "crashed"}
    BY <1>3 DEF StartDone, DoWorkDone, StopWorker, JoinWorker, JoinNobody, Exit, RetryNext, PostToNobody
  <2> QED
    BY <2>1, <2>2, OthersCount DEF KeysCounted
<1>4. CASE Prepare
  <2>1. PICK n \in Nums :
           \/ PreparePut(n) \/ PutFails(n) \/ FetchFails(n)
           \/ \E op \in {"get", "delete"} : PrepareFetch(op, n) \/ AbandonFetch(op, n)
    BY <1>4 DEF Prepare
  <2>2. CASE PutFails(n) \/ FetchFails(n)
    <3>1. UNCHANGED <<queue, wpc, current, keyNo, executed>> /\ mpc' \in {"failed", "crashed"}
      BY <2>2 DEF PutFails, FetchFails, workerVars
    <3> QED
      BY <3>1, OthersCount DEF KeysCounted
  <2>3. CASE \E op \in {"get", "delete"} : AbandonFetch(op, n)
    <3>1. UNCHANGED <<queue, wpc, current, keyNo, executed, totalOp, inHand, mpc>> /\ mpc = "case"
      BY <2>3 DEF AbandonFetch, workerVars
    <3> QED
      BY <3>1, OthersCount DEF KeysCounted
  <2>4. CASE PreparePut(n) \/ \E op \in {"get", "delete"} : PrepareFetch(op, n)
    <3>1. \E op \in {"put", "get", "delete"} : Prepared(op, n)
      BY <2>4 DEF Prepared
    <3> QED
      BY <3>1, PrepareCounts
  <2> QED
    BY <2>1, <2>2, <2>3, <2>4
<1>5. CASE PostJob
  BY <1>1, <1>5, PostCounts
<1>6. ASSUME NEW w \in Ids, WorkerThread(w)
      PROVE  KeysCounted'
  BY <1>1, <1>6, WorkerCounts
<1>7. CASE UNCHANGED vars
  <2>1. UNCHANGED <<queue, wpc, current, keyNo, executed, totalOp, inHand, mpc>>
    BY <1>7 DEF vars
  <2>2. KeysLeft' = KeysLeft
    BY <2>1, LeftSame
  <2> QED
    BY <2>1, <2>2 DEF KeysCounted, TotalOpAccounts
<1> QED
  BY <1>2, <1>3, <1>4, <1>5, <1>6, <1>7 DEF Next, MainThread, Post, Destroy, Over

LEMMA NothingToCount == Init => KeysCounted
<1> SUFFICES ASSUME Init
             PROVE  KeysCounted
  OBVIOUS
<1>1. TypeOK
  BY InitIInv DEF IInv
<1>2. inHand.keys = <<>> /\ \A w \in Ids : keyNo[w] = 0
  BY DEF Init, NoJob
<1>3. KeysLeft = 0
  <2>1. current \in [Ids -> JobType] /\ queue \in [Ids -> Seq(JobType)] /\ keyNo \in [Ids -> Nat]
    BY <1>1 DEF TypeOK
  <2>2. PICK g \in Seq(Int) : g = LeftNumbers(current, queue, keyNo)
    BY <2>1, LeftTyped
  <2>3. /\ Len(g) = MaxWorkers
        /\ \A v \in Ids : g[v + 1] = LeftOf(current[v], queue[v], keyNo[v])
    BY <2>1, <2>2, LeftTyped
  <2>4. \A v \in Ids : LeftOf(current[v], queue[v], keyNo[v]) = 0
    <3>1. ASSUME NEW v \in Ids
          PROVE  LeftOf(current[v], queue[v], keyNo[v]) = 0
      <4>1. current[v] = NoJob /\ queue[v] = <<>> /\ keyNo[v] = 0
        BY DEF Init
      <4>2. Row(NoJob, <<>>) = <<>>
        <5>1. <<>> \in Seq(JobType)
          OBVIOUS
        <5> QED
          BY <5>1, NoJobTyped, RowFacts
      <4>3. <<>> \in Seq(JobType) /\ KeyNumbers(<<>>) = <<>>
        BY DEF KeyNumbers
      <4>4. KeysOf(<<>>) = 0
        BY <4>3, KeyNumbersTyped, TotalEmpty
      <4> QED
        BY <4>1, <4>2, <4>4 DEF LeftOf
    <3> QED
      BY <3>1
  <2>5. \A j \in 1 .. Len(g) : g[j] = 0
    <3>1. ASSUME NEW j \in 1 .. Len(g)
          PROVE  g[j] = 0
      <4>1. j - 1 \in Ids /\ (j - 1) + 1 = j
        BY <2>3, BoundsAssumption DEF Ids
      <4>2. g[(j - 1) + 1] = 0
        BY <2>3, <2>4, <4>1
      <4> QED
        BY <4>1, <4>2
    <3> QED
      BY <3>1
  <2> DEFINE zeros == [j \in 0 .. Len(g) |-> 0]
  <2>6. Len(g) \in Nat
    OBVIOUS
  <2>7. DOMAIN zeros = 0 .. Len(g) /\ zeros[0] = 0 /\ zeros[Len(g)] = 0
    BY <2>6
  <2>8. \A j \in 1 .. Len(g) : zeros[j] = zeros[j - 1] + g[j]
    <3>1. ASSUME NEW j \in 1 .. Len(g)
          PROVE  zeros[j] = zeros[j - 1] + g[j]
      <4>1. zeros[j] = 0 /\ zeros[j - 1] = 0
        BY <2>6
      <4> QED
        BY <2>5, <4>1
    <3> QED
      BY <3>1
  <2> HIDE DEF zeros
  <2>9. Total(g) = 0
    BY <2>7, <2>8, TotalIs
  <2> QED
    BY <2>2, <2>9, KeysLeftIs
<1>4. totalOp = executed + KeysLeft + Len(inHand.keys)
  BY <1>2, <1>3 DEF Init
<1> QED
  BY <1>2, <1>4 DEF KeysCounted, TotalOpAccounts

(* total_op is the number of keys done and to be done, for any number of   *)
(* workers and of jobs of any length: a job that is offered to one worker  *)
(* after another, that is abandoned or that waits for a dead worker is     *)
(* counted once, or not at all.                                            *)
THEOREM TotalOpIsRight == Spec => []TotalOpAccounts
<1>1. Init => KeysCounted
  BY NothingToCount
<1>2. IInv /\ KeysCounted /\ [Next]_vars => KeysCounted'
  BY CountStep
<1>3. KeysCounted => TotalOpAccounts
  BY DEF KeysCounted
<1> QED
  BY <1>1, <1>2, <1>3, LoadKept, PTL DEF Spec
=============================================================================
