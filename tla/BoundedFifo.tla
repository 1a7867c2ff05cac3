----------------------------- MODULE BoundedFifo -----------------------------
(***************************************************************************)
(* What a TestWork promises about the jobs offered to it: a bounded        *)
(* first-in first-out queue that hands every job to its worker once, whole *)
(* and in the order of the offers.  It knows nothing of rings, indexes or  *)
(* memory; MyQueue is shown to implement it.                               *)
(***************************************************************************)
EXTENDS Naturals, Sequences

CONSTANTS Jobs,      \* the OpJob objects: a job is its address
          NoJob,     \* "no job"
          Capacity   \* how many jobs may wait at once

VARIABLES queue,     \* the jobs offered and not yet taken, oldest first
          taken      \* the job in the worker's hands, or NoJob

vars == <<queue, taken>>

Init == /\ queue = <<>>
        /\ taken = NoJob

(* A job is an allocated object: nobody can offer one that is still alive. *)
Alive(j) == j = taken \/ \E k \in 1 .. Len(queue) : queue[k] = j

Offer(j) == /\ ~Alive(j)
            /\ Len(queue) < Capacity
            /\ queue' = Append(queue, j)
            /\ UNCHANGED taken

Take == /\ taken = NoJob
        /\ queue # <<>>
        /\ taken' = Head(queue)
        /\ queue' = Tail(queue)

(* The worker deletes the job it has executed. *)
Free == /\ taken # NoJob
        /\ taken' = NoJob
        /\ UNCHANGED queue

Next == \/ \E j \in Jobs : Offer(j)
        \/ Take
        \/ Free

Spec == Init /\ [][Next]_vars
=============================================================================
