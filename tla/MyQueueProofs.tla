--------------------------- MODULE MyQueueProofs ----------------------------
(* Proofs about MyQueue, for every size of the ring and every set of jobs. *)
EXTENDS MyQueue, SequenceTheorems, TLAPS

-----------------------------------------------------------------------------
(* Ring arithmetic                                                         *)

(* The index after a slot is a slot, and the remainder wraps only at the   *)
(* last one.                                                               *)
LEMMA IncValue ==
    ASSUME NEW i \in Slots
    PROVE  /\ Inc(i) = IF i + 1 = Size THEN 0 ELSE i + 1
           /\ Inc(i) \in Slots
           /\ i % Size = i
BY SizeAssumption DEF Slots, Inc

(* A distance is shorter than the ring; it is zero only between a slot and *)
(* itself.                                                                 *)
LEMMA DistValue ==
    ASSUME NEW a \in Slots, NEW b \in Slots
    PROVE  /\ Dist(a, b) \in 0 .. Size - 1
           /\ Dist(a, b) = 0 <=> a = b
BY SizeAssumption DEF Slots, Dist

(* Stepping the far end of a distance makes it longer, stepping the near   *)
(* end shorter, by one.                                                    *)
LEMMA DistInc ==
    ASSUME NEW a \in Slots, NEW b \in Slots
    PROVE  /\ Dist(a, b) < Size - 1 => Dist(a, Inc(b)) = Dist(a, b) + 1
           /\ a # b => Dist(Inc(a), b) = Dist(a, b) - 1
           /\ Inc(b) # a <=> Dist(a, b) < Size - 1
<1>1. /\ Inc(a) = IF a + 1 = Size THEN 0 ELSE a + 1
      /\ Inc(b) = IF b + 1 = Size THEN 0 ELSE b + 1
  BY IncValue
<1> QED
  BY <1>1, SizeAssumption DEF Slots, Dist

(* Ahead inverts Dist.                                                     *)
LEMMA AheadValue ==
    ASSUME NEW a \in Slots
    PROVE  /\ \A k \in Slots : Ahead(a, k) \in Slots /\ Dist(a, Ahead(a, k)) = k
           /\ \A b \in Slots : Ahead(a, Dist(a, b)) = b
           /\ \A k \in Slots : k + 1 \in Slots =>
                                 Ahead(Inc(a), k) = Ahead(a, k + 1)
<1>1. Inc(a) = IF a + 1 = Size THEN 0 ELSE a + 1
  BY IncValue
<1> QED
  BY <1>1, SizeAssumption DEF Slots, Dist, Ahead

(* Distances that do not go round the ring add up.                         *)
LEMMA DistAdd ==
    ASSUME NEW a \in Slots, NEW b \in Slots, NEW c \in Slots,
           Dist(a, b) + Dist(b, c) < Size
    PROVE  Dist(a, c) = Dist(a, b) + Dist(b, c)
BY SizeAssumption DEF Slots, Dist

(* From one slot, no two slots are equally far.                            *)
LEMMA DistInjective ==
    ASSUME NEW a \in Slots, NEW b \in Slots, NEW c \in Slots,
           Dist(a, b) = Dist(a, c)
    PROVE  b = c
BY SizeAssumption DEF Slots, Dist

(* The slots between Inc(a) and b are those between a and b, but for a.    *)
LEMMA DistShrink ==
    ASSUME NEW a \in Slots, NEW b \in Slots, NEW i \in Slots, a # b
    PROVE  Dist(Inc(a), i) < Dist(Inc(a), b)
               <=> Dist(a, i) < Dist(a, b) /\ i # a
<1>1. Inc(a) = IF a + 1 = Size THEN 0 ELSE a + 1
  BY IncValue
<1> QED
  BY <1>1, SizeAssumption DEF Slots, Dist

(* The slots between a and Inc(b) are those between a and b, and b.        *)
LEMMA DistGrow ==
    ASSUME NEW a \in Slots, NEW b \in Slots, NEW i \in Slots,
           Dist(a, b) < Size - 1
    PROVE  Dist(a, i) < Dist(a, Inc(b)) <=> Dist(a, i) < Dist(a, b) \/ i = b
<1>1. Dist(a, Inc(b)) = Dist(a, b) + 1
  BY DistInc
<1>2. Dist(a, i) = Dist(a, b) => i = b
  BY DistInjective
<1>3. Dist(a, i) \in Nat /\ Dist(a, b) \in Nat
  BY DistValue, SizeAssumption
<1> QED
  BY <1>1, <1>2, <1>3

-----------------------------------------------------------------------------
(* The inductive invariant                                                 *)

(* Every variable keeps its type: indexes stay inside _buff, which is what *)
(* keeps pop() and push() inside the array.                                *)
LEMMA TypeStep ==
    ASSUME TypeOK, [Next]_vars
    PROVE  TypeOK'
<1> USE DEF TypeOK
<1>0. /\ Inc(start) \in Slots /\ Inc(end) \in Slots
      /\ Inc(seenStart) \in Slots /\ Inc(seenEnd) \in Slots
  BY IncValue
<1>1. ASSUME NEW j \in Jobs, OfferJob(j)
      PROVE  TypeOK'
  BY <1>1 DEF OfferJob, ringVars, seenVars, workerVars
<1>2. CASE StoreSlot
  BY <1>2 DEF StoreSlot, seenVars, workerVars
<1>3. CASE StoreEnd
  BY <1>3, <1>0 DEF StoreEnd, seenVars, workerVars
<1>4. CASE Poll \/ PollEmpty \/ AskOver
  BY <1>4 DEF Poll, PollEmpty, AskOver, ringVars, seenVars, mainVars
<1>5. CASE LoadSlot
  BY <1>5 DEF LoadSlot, ringVars, seenVars, mainVars
<1>6. CASE StoreStart
  BY <1>6, <1>0 DEF StoreStart, seenVars, mainVars
<1>7. CASE FinishJob
  BY <1>7 DEF FinishJob, ringVars, seenVars, mainVars
<1>8. CASE DrainSlot
  BY <1>8 DEF DrainSlot, ringVars, mainVars, workerVars
<1>9. CASE DrainEnd
  BY <1>9, <1>0 DEF DrainEnd, ringVars, mainVars, workerVars
<1>10. CASE DrainStart
  BY <1>10, <1>0 DEF DrainStart, ringVars, mainVars, workerVars
<1>11. CASE StoreOver
  BY <1>11 DEF StoreOver, ringVars, seenVars, workerVars
<1>12. CASE DrainOver
  BY <1>12 DEF DrainOver, ringVars, mainVars, workerVars
<1>13. CASE UNCHANGED vars
  BY <1>13 DEF vars
<1> QED
  BY <1>1, <1>2, <1>3, <1>4, <1>5, <1>6, <1>7, <1>8, <1>9, <1>10, <1>11,
     <1>12, <1>13
     DEF Next, Main, Worker, Drain, Ended

LEMMA InitTypeOK == Init => TypeOK
<1>1. 0 \in Slots
  BY SizeAssumption DEF Slots
<1> QED
  BY <1>1 DEF Init, TypeOK

(* The type invariant.                                                     *)
THEOREM TypeCorrect == Spec => []TypeOK
<1>1. Init => TypeOK
  BY InitTypeOK
<1>2. TypeOK /\ [Next]_vars => TypeOK'
  BY TypeStep
<1> QED
  BY <1>1, <1>2, PTL DEF Spec

(* The order of the four indexes is kept by every step.                    *)
LEMMA RingOrderStep ==
    ASSUME TypeOK, RingOrder, PopHoldsOldest, [Next]_vars
    PROVE  RingOrder'
<1> USE DEF TypeOK
<1> DEFINE d1 == Dist(seenStart, start)
           d2 == Dist(start, seenEnd)
           d3 == Dist(seenEnd, end)
<1>0. /\ d1 \in Nat /\ d2 \in Nat /\ d3 \in Nat /\ Size \in Nat
      /\ d1 + d2 + d3 <= Size - 1
      /\ mpc \in {"slot", "advance"} => d1 + d2 + d3 <= Size - 2
  BY DistValue, SizeAssumption DEF RingOrder
<1>1. ASSUME NEW j \in Jobs, OfferJob(j)
      PROVE  RingOrder'
  <2>1. Dist(seenStart, end) = d1 + d2 + d3
    <3>1. Dist(seenStart, seenEnd) = d1 + d2
      BY <1>0, DistAdd
    <3> QED
      BY <1>0, <3>1, DistAdd
  <2>2. Dist(seenStart, end) < Size - 1
    BY <1>1, DistInc DEF OfferJob, IsFull
  <2> QED
    BY <1>0, <1>1, <2>1, <2>2
       DEF OfferJob, RingOrder, ringVars, seenVars
<1>2. CASE StoreSlot
  BY <1>2 DEF StoreSlot, RingOrder, seenVars
<1>3. CASE StoreEnd
  <2>1. Dist(seenEnd, Inc(end)) = d3 + 1
    BY <1>0, <1>3, DistInc DEF StoreEnd
  <2> QED
    BY <1>0, <1>3, <2>1 DEF StoreEnd, RingOrder, seenVars
<1>4. CASE Poll \/ PollEmpty \/ AskOver \/ LoadSlot \/ FinishJob
  BY <1>4 DEF Poll, PollEmpty, AskOver, LoadSlot, FinishJob, RingOrder,
              ringVars, seenVars, mainVars
<1>5. CASE StoreStart
  <2>1. Dist(Inc(start), seenEnd) = d2 - 1
    BY <1>5, DistInc DEF StoreStart, PopHoldsOldest
  <2>2. d2 # 0
    BY <1>5, DistValue DEF StoreStart, PopHoldsOldest
  <2>3. Dist(seenStart, Inc(start)) = d1 + 1
    BY <1>0, <2>2, DistInc
  <2> QED
    BY <1>0, <1>5, <2>1, <2>3 DEF StoreStart, RingOrder, seenVars, mainVars
<1>6. CASE DrainSlot
  BY <1>6 DEF DrainSlot, RingOrder, ringVars, mainVars
<1>7. CASE DrainEnd
  <2>1. Dist(Inc(seenEnd), end) = d3 - 1 /\ d3 # 0
    BY <1>7, DistInc, DistValue DEF DrainEnd
  <2>2. d2 < Size - 1
    BY <1>0, <2>1
  <2>3. Dist(start, Inc(seenEnd)) = d2 + 1
    BY <2>2, DistInc
  <2> QED
    BY <1>0, <1>7, <2>1, <2>3 DEF DrainEnd, RingOrder, ringVars, mainVars
<1>8. CASE DrainStart
  <2>1. Dist(Inc(seenStart), start) = d1 - 1
    BY <1>8, DistInc DEF DrainStart
  <2> QED
    BY <1>0, <1>8, <2>1 DEF DrainStart, RingOrder, ringVars, mainVars
<1>9. CASE StoreOver
  BY <1>9 DEF StoreOver, RingOrder, ringVars, seenVars
<1>10. CASE DrainOver
  BY <1>10 DEF DrainOver, RingOrder, ringVars, mainVars
<1>11. CASE UNCHANGED vars
  BY <1>11 DEF vars, RingOrder
<1> QED
  BY <1>1, <1>2, <1>3, <1>4, <1>5, <1>6, <1>7, <1>8, <1>9, <1>10, <1>11
     DEF Next, Main, Worker, Drain, Ended

(* What the worker can reach in memory stays what the main thread stored,  *)
(* and a pop in progress keeps its slot.                                   *)
LEMMA PublishedStep ==
    ASSUME IInv, [Next]_vars
    PROVE  Published' /\ PopHoldsOldest'
<1> USE DEF IInv, TypeOK
<1> DEFINE d1 == Dist(seenStart, start)
           d2 == Dist(start, seenEnd)
           d3 == Dist(seenEnd, end)
<1>0. /\ d1 \in Nat /\ d2 \in Nat /\ d3 \in Nat /\ Size \in Nat
      /\ d1 + d2 + d3 <= Size - 1
      /\ mpc \in {"slot", "advance"} => d1 + d2 + d3 <= Size - 2
  BY DistValue, SizeAssumption DEF RingOrder
<1>1. ASSUME NEW j \in Jobs, OfferJob(j)
      PROVE  Published' /\ PopHoldsOldest'
  BY <1>1 DEF OfferJob, Published, PopHoldsOldest, ringVars, seenVars, workerVars
<1>2. CASE StoreSlot
  <2>1. Dist(start, end) = d2 + d3
    BY <1>0, DistAdd
  <2>2. \A i \in Slots : Dist(start, i) < d2 => i # end /\ buff'[i] = buff[i]
    BY <1>0, <1>2, <2>1 DEF StoreSlot
  <2>3. start # seenEnd => buff'[start] = buff[start]
    BY <1>0, <2>2, DistValue
  <2> QED
    BY <1>2, <2>2, <2>3
       DEF StoreSlot, Published, PopHoldsOldest, seenVars, workerVars
<1>3. CASE StoreEnd
  BY <1>3 DEF StoreEnd, Published, PopHoldsOldest, seenVars, workerVars
<1>4. CASE Poll
  <2>1. seenEnd # start
    BY <1>4, IncValue DEF Poll, IsEmpty
  <2> QED
    BY <1>4, <2>1 DEF Poll, Published, PopHoldsOldest, ringVars, seenVars, mainVars
<1>5. CASE LoadSlot
  <2>1. start # seenEnd
    BY <1>5 DEF LoadSlot, PopHoldsOldest
  <2>2. Dist(start, start) < d2
    BY <1>0, <2>1, DistValue
  <2>3. seenBuff[start] = buff[start]
    BY <2>2 DEF Published
  <2> QED
    BY <1>5, <2>1, <2>3
       DEF LoadSlot, Published, PopHoldsOldest, ringVars, seenVars, mainVars
<1>6. CASE StoreStart
  <2>1. start # seenEnd
    BY <1>6 DEF StoreStart, PopHoldsOldest
  <2>2. \A i \in Slots : Dist(Inc(start), i) < Dist(Inc(start), seenEnd)
                           => Dist(start, i) < d2
    BY <2>1, DistShrink
  <2> QED
    BY <1>6, <2>2 DEF StoreStart, Published, PopHoldsOldest, seenVars, mainVars
<1>7. CASE PollEmpty \/ AskOver \/ FinishJob
  BY <1>7 DEF PollEmpty, AskOver, FinishJob, Published, PopHoldsOldest,
              ringVars, seenVars, mainVars
<1>8. CASE DrainSlot
  BY <1>8 DEF DrainSlot, Published, PopHoldsOldest, ringVars, mainVars, workerVars
<1>9. CASE DrainEnd
  <2>1. d3 # 0
    BY <1>9, DistValue DEF DrainEnd
  <2>2. d2 < Size - 1
    BY <1>0, <2>1
  <2>3. \A i \in Slots : Dist(start, i) < Dist(start, Inc(seenEnd))
                           => Dist(start, i) < d2 \/ i = seenEnd
    BY <2>2, DistGrow
  <2>4. seenBuff[seenEnd] = buff[seenEnd]
    BY <1>9 DEF DrainEnd, HalfPushed
  <2>5. start # Inc(seenEnd)
    BY <2>2, DistInc
  <2> QED
    BY <1>9, <2>3, <2>4, <2>5
       DEF DrainEnd, Published, PopHoldsOldest, ringVars, mainVars, workerVars
<1>10. CASE DrainStart
  BY <1>10 DEF DrainStart, Published, PopHoldsOldest, ringVars, mainVars, workerVars
<1>11. CASE StoreOver \/ DrainOver
  BY <1>11 DEF StoreOver, DrainOver, Published, PopHoldsOldest,
               ringVars, seenVars, mainVars, workerVars
<1>12. CASE UNCHANGED vars
  BY <1>12 DEF vars, Published, PopHoldsOldest
<1> QED
  BY <1>1, <1>2, <1>3, <1>4, <1>5, <1>6, <1>7, <1>8, <1>9, <1>10, <1>11, <1>12
     DEF Next, Main, Worker, Drain, Ended

(* The half-done pushes.                                                   *)
LEMMA HalfPushedStep ==
    ASSUME IInv, [Next]_vars
    PROVE  HalfPushed'
<1> USE DEF IInv, TypeOK
<1>1. ASSUME NEW j \in Jobs, OfferJob(j)
      PROVE  HalfPushed'
  BY <1>1 DEF OfferJob, HalfPushed, ringVars, seenVars, workerVars
<1>2. CASE StoreSlot
  BY <1>2 DEF StoreSlot, HalfPushed, seenVars, workerVars
<1>3. CASE StoreEnd
  <2>1. Dist(seenEnd, end) < Size - 1
    BY <1>3, DistValue, SizeAssumption DEF StoreEnd, RingOrder
  <2>2. Inc(end) # seenEnd
    BY <2>1, DistInc
  <2> QED
    BY <1>3, <2>2 DEF StoreEnd, HalfPushed, seenVars, workerVars
<1>4. CASE Worker
  BY <1>4 DEF Worker, Poll, PollEmpty, AskOver, LoadSlot, StoreStart, FinishJob,
              HalfPushed, ringVars, seenVars, mainVars
<1>5. CASE DrainSlot
  BY <1>5 DEF DrainSlot, HalfPushed, ringVars, mainVars, workerVars
<1>6. CASE DrainEnd \/ DrainStart
  BY <1>6 DEF DrainEnd, DrainStart, HalfPushed, ringVars, mainVars, workerVars
<1>7. CASE StoreOver \/ DrainOver
  BY <1>7 DEF StoreOver, DrainOver, HalfPushed, ringVars, seenVars, mainVars,
              workerVars
<1>8. CASE UNCHANGED vars
  BY <1>8 DEF vars, HalfPushed
<1> QED
  BY <1>1, <1>2, <1>3, <1>4, <1>5, <1>6, <1>7, <1>8 DEF Next, Main, Drain, Ended

(* A job stays in one place.                                               *)
LEMMA SingleOwnerStep ==
    ASSUME IInv, [Next]_vars
    PROVE  SingleOwner'
<1> USE DEF IInv, TypeOK
<1> DEFINE d2 == Dist(start, seenEnd)
           d3 == Dist(seenEnd, end)
<1>0. /\ d2 \in Nat /\ d3 \in Nat /\ Size \in Nat
      /\ Dist(start, end) = d2 + d3
      /\ d2 + d3 <= Size - 1
      /\ mpc \in {"slot", "advance"} => d2 + d3 <= Size - 2
  BY DistValue, DistAdd, SizeAssumption DEF RingOrder
<1>1. ASSUME NEW j \in Jobs, OfferJob(j)
      PROVE  SingleOwner'
  BY <1>1, NoJobAssumption
     DEF OfferJob, SingleOwner, Alive, Waiting, ringVars, seenVars, workerVars
<1>2. CASE StoreSlot
  <2>1. \A i \in Slots : Dist(start, i) < Dist(start, end)
                           => buff'[i] = buff[i]
    BY <1>0, <1>2 DEF StoreSlot
  <2> QED
    BY <1>2, <2>1 DEF StoreSlot, SingleOwner, Alive, Waiting, seenVars, workerVars
<1>3. CASE StoreEnd
  <2>1. \A i \in Slots : Dist(start, i) < Dist(start, Inc(end))
                           <=> Dist(start, i) < Dist(start, end) \/ i = end
    BY <1>0, <1>3, DistGrow DEF StoreEnd
  <2>2. buff[end] = offered /\ offered # NoJob /\ ~Alive(offered)
    BY <1>3 DEF StoreEnd, HalfPushed, SingleOwner
  <2> QED
    BY <1>3, <2>1, <2>2
       DEF StoreEnd, SingleOwner, Alive, Waiting, seenVars, workerVars
<1>4. CASE Poll \/ PollEmpty \/ AskOver \/ LoadSlot
  BY <1>4 DEF Poll, PollEmpty, AskOver, LoadSlot, SingleOwner, Alive, Waiting,
              ringVars, seenVars, mainVars
<1>5. CASE StoreStart
  <2>1. start # seenEnd /\ data = buff[start]
    BY <1>5 DEF StoreStart, PopHoldsOldest
  <2>2. Dist(start, start) < Dist(start, end) /\ start # end
    BY <1>0, <2>1, DistValue
  <2>3. \A i \in Slots : Dist(Inc(start), i) < Dist(Inc(start), end)
                           <=> Dist(start, i) < Dist(start, end) /\ i # start
    BY <2>2, DistShrink
  <2>4. data # NoJob /\ Waiting(data)
    BY <2>1, <2>2 DEF SingleOwner, Waiting
  <2> QED
    BY <1>5, <2>1, <2>2, <2>3, <2>4
       DEF StoreStart, SingleOwner, Alive, Waiting, seenVars, mainVars
<1>6. CASE FinishJob
  BY <1>6 DEF FinishJob, SingleOwner, Alive, Waiting, ringVars, seenVars, mainVars
<1>7. CASE Drain
  BY <1>7 DEF Drain, DrainSlot, DrainEnd, DrainStart, DrainOver, SingleOwner,
              Alive, Waiting, ringVars, mainVars, workerVars
<1>8. CASE StoreOver
  BY <1>8 DEF StoreOver, SingleOwner, Alive, Waiting, ringVars, workerVars
<1>9. CASE UNCHANGED vars
  BY <1>9 DEF vars, SingleOwner, Alive, Waiting
<1> QED
  BY <1>1, <1>2, <1>3, <1>4, <1>5, <1>6, <1>7, <1>8, <1>9
     DEF Next, Main, Worker, Ended

(* The ring is safe under every interleaving of the two threads and their  *)
(* store buffers: IInv is inductive.                                       *)
THEOREM RingSafe == Spec => []IInv
<1>1. Init => IInv
  <2> SUFFICES ASSUME Init
               PROVE  IInv
    OBVIOUS
  <2>1. 0 \in Slots /\ Dist(0, 0) = 0
    BY SizeAssumption DEF Slots, Dist
  <2>2. TypeOK
    BY InitTypeOK
  <2>3. \A i \in Slots : ~(Dist(0, i) < 0)
    BY <2>1, DistValue, SizeAssumption
  <2> QED
    BY <2>1, <2>2, <2>3, SizeAssumption, NoJobAssumption
       DEF Init, IInv, RingOrder, Published, PopHoldsOldest, SingleOwner,
           HalfPushed, Waiting, Alive
<1>2. IInv /\ [Next]_vars => IInv'
  <2> SUFFICES ASSUME IInv, [Next]_vars
               PROVE  IInv'
    OBVIOUS
  <2>1. Published' /\ PopHoldsOldest' /\ HalfPushed' /\ SingleOwner'
    BY PublishedStep, HalfPushedStep, SingleOwnerStep
  <2>2. RingOrder'
    BY RingOrderStep DEF IInv
  <2>3. TypeOK'
    BY TypeStep DEF IInv
  <2> QED
    BY <2>1, <2>2, <2>3 DEF IInv
<1> QED
  BY <1>1, <1>2, PTL DEF Spec

(* The two threads' views of the indexes never pass each other.            *)
COROLLARY RingIsOrdered == Spec => []RingOrder
<1>1. IInv => RingOrder
  BY DEF IInv
<1> QED
  BY <1>1, RingSafe, PTL

(* A slot the worker may read holds, in memory, the job pushed there.      *)
COROLLARY SlotsArePublished == Spec => []Published
<1>1. IInv => Published
  BY DEF IInv
<1> QED
  BY <1>1, RingSafe, PTL

(* A job is in one slot, or being pushed, or in the worker's hands.        *)
COROLLARY JobsHaveOneOwner == Spec => []SingleOwner
<1>1. IInv => SingleOwner
  BY DEF IInv
<1> QED
  BY <1>1, RingSafe, PTL

-----------------------------------------------------------------------------
(* Refinement of BoundedFifo                                               *)

(* The slots between two indexes, as a sequence.                           *)
LEMMA WindowValue ==
    ASSUME NEW b \in [Slots -> Jobs \cup {NoJob}],
           NEW s \in Slots, NEW e \in Slots
    PROVE  /\ Window(b, s, e) \in Seq(Jobs \cup {NoJob})
           /\ Len(Window(b, s, e)) = Dist(s, e)
           /\ \A k \in 1 .. Dist(s, e) : Window(b, s, e)[k] = b[Ahead(s, k - 1)]
<1>1. Dist(s, e) \in Nat /\ Dist(s, e) <= Size - 1
  BY DistValue, SizeAssumption
<1>2. \A k \in 1 .. Dist(s, e) : k - 1 \in Slots
  BY <1>1, SizeAssumption DEF Slots
<1>3. \A k \in 1 .. Dist(s, e) : b[Ahead(s, k - 1)] \in Jobs \cup {NoJob}
  BY <1>2, AheadValue
<1> QED
  BY <1>1, <1>3 DEF Window

(* The waiting jobs as a sequence, before and after a step.                *)
LEMMA QueuedValue ==
    ASSUME TypeOK
    PROVE  /\ Queued \in Seq(Jobs \cup {NoJob})
           /\ Len(Queued) = Dist(start, end)
           /\ \A k \in 1 .. Dist(start, end) :
                 Queued[k] = buff[Ahead(start, k - 1)]
BY WindowValue DEF Queued, TypeOK

LEMMA QueuedNext ==
    ASSUME TypeOK'
    PROVE  /\ Queued' \in Seq(Jobs \cup {NoJob})
           /\ Len(Queued') = Dist(start', end')
           /\ \A k \in 1 .. Dist(start', end') :
                 Queued'[k] = buff'[Ahead(start', k - 1)]
<1>1. Slots' = Slots
  BY DEF Slots
<1> QED
  BY <1>1, WindowValue DEF Queued, TypeOK

(* A job waits in a slot exactly when it is in the sequence.               *)
LEMMA WaitingIsQueued ==
    ASSUME TypeOK, NEW j
    PROVE  Waiting(j) <=> \E k \in 1 .. Len(Queued) : Queued[k] = j
<1>1. Dist(start, end) \in Nat /\ Dist(start, end) <= Size - 1
  BY DistValue, SizeAssumption DEF TypeOK
<1>2. ASSUME NEW i \in Slots, Dist(start, i) < Dist(start, end), buff[i] = j
      PROVE  \E k \in 1 .. Len(Queued) : Queued[k] = j
  <2>1. Dist(start, i) + 1 \in 1 .. Dist(start, end)
    BY <1>1, <1>2, DistValue DEF TypeOK
  <2>2. Ahead(start, (Dist(start, i) + 1) - 1) = i
    BY <2>1, AheadValue, DistValue DEF TypeOK
  <2> QED
    BY <1>2, <2>1, <2>2, QueuedValue
<1>3. ASSUME NEW k \in 1 .. Len(Queued), Queued[k] = j
      PROVE  Waiting(j)
  <2>1. k - 1 \in Slots /\ k - 1 < Dist(start, end)
    BY <1>1, QueuedValue, SizeAssumption DEF Slots
  <2>2. Ahead(start, k - 1) \in Slots /\ Dist(start, Ahead(start, k - 1)) = k - 1
    BY <2>1, AheadValue DEF TypeOK
  <2> QED
    BY <1>3, <2>1, <2>2, QueuedValue DEF Waiting
<1> QED
  BY <1>2, <1>3 DEF Waiting

(* Storing _end appends the job pushed.                                    *)
LEMMA StoreEndAppends ==
    ASSUME IInv, TypeOK', StoreEnd
    PROVE  Queued' = Append(Queued, offered)
<1> USE DEF IInv
<1>1. /\ end' = Inc(end) /\ start' = start /\ buff' = buff
      /\ offered \in Jobs \cup {NoJob}
  BY DEF StoreEnd, TypeOK
<1>2. /\ Dist(start, end) \in Nat
      /\ Dist(start, end) < Size - 1
  BY DistAdd, DistValue, SizeAssumption DEF RingOrder, StoreEnd, TypeOK
<1>3. Dist(start', end') = Dist(start, end) + 1
  BY <1>1, <1>2, DistInc DEF TypeOK
<1>4. Ahead(start, Dist(start, end)) = end /\ buff[end] = offered
  BY AheadValue DEF TypeOK, HalfPushed, StoreEnd
<1>5. /\ Queued' \in Seq(Jobs \cup {NoJob})
      /\ Len(Queued') = Dist(start, end) + 1
      /\ \A k \in 1 .. Dist(start, end) + 1 :
            Queued'[k] = buff[Ahead(start, k - 1)]
  BY <1>1, <1>3, QueuedNext
<1>6. \A k \in 1 .. Dist(start, end) + 1 :
        Queued'[k] = IF k = Dist(start, end) + 1 THEN offered ELSE Queued[k]
  BY <1>2, <1>4, <1>5, QueuedValue
<1> QED
  BY <1>1, <1>2, <1>5, <1>6, QueuedValue, AppendProperties, SeqEqual

(* Storing _start removes the oldest job, which is the one popped.         *)
LEMMA StoreStartTakes ==
    ASSUME IInv, TypeOK', StoreStart
    PROVE  /\ Queued # <<>>
           /\ job' = Head(Queued)
           /\ Queued' = Tail(Queued)
<1> USE DEF IInv
<1>1. /\ start' = Inc(start) /\ end' = end /\ buff' = buff
      /\ start # seenEnd /\ data = buff[start] /\ job' = data
  BY DEF StoreStart, PopHoldsOldest, mainVars, seenVars
<1>2. /\ Dist(start, end) \in Nat /\ Dist(start, end) # 0
      /\ Dist(start, end) <= Size - 1
      /\ start # end
  <2>1. Dist(start, seenEnd) # 0 /\ Dist(start, seenEnd) \in Nat
    BY <1>1, DistValue, SizeAssumption DEF TypeOK
  <2>2. Dist(start, end) = Dist(start, seenEnd) + Dist(seenEnd, end)
    BY DistAdd, DistValue, SizeAssumption DEF RingOrder, TypeOK
  <2> QED
    BY <2>1, <2>2, DistValue, SizeAssumption DEF TypeOK
<1>3. Dist(start', end') = Dist(start, end) - 1
  BY <1>1, <1>2, DistInc DEF TypeOK
<1>4. Queued # <<>> /\ Queued[1] = buff[start]
  <2>1. 0 \in Slots /\ Ahead(start, 0) = start
    BY SizeAssumption DEF Slots, Ahead, TypeOK
  <2> QED
    BY <1>2, <2>1, QueuedValue
<1>5. /\ Queued' \in Seq(Jobs \cup {NoJob})
      /\ Len(Queued') = Dist(start, end) - 1
      /\ \A k \in 1 .. Dist(start, end) - 1 :
            Queued'[k] = buff[Ahead(Inc(start), k - 1)]
  BY <1>1, <1>3, QueuedNext
<1>6. \A k \in 1 .. Dist(start, end) - 1 : Queued'[k] = Queued[k + 1]
  <2>1. ASSUME NEW k \in 1 .. Dist(start, end) - 1
        PROVE  Queued'[k] = Queued[k + 1]
    <3>1. k - 1 \in Slots /\ (k - 1) + 1 \in Slots /\ k + 1 \in 1 .. Dist(start, end)
      BY <1>2, <2>1, SizeAssumption DEF Slots
    <3>2. Ahead(Inc(start), k - 1) = Ahead(start, (k - 1) + 1)
      BY <3>1, AheadValue DEF TypeOK
    <3>3. (k - 1) + 1 = (k + 1) - 1
      BY <2>1
    <3> QED
      BY <1>5, <3>1, <3>2, <3>3, QueuedValue
  <2> QED
    BY <2>1
<1>7. Queued' = Tail(Queued)
  BY <1>2, <1>4, <1>5, <1>6, QueuedValue, HeadTailProperties, SeqEqual
<1> QED
  BY <1>1, <1>4, <1>7, QueuedValue

(* A step that leaves the indexes and the waiting slots alone leaves the   *)
(* sequence alone.                                                         *)
LEMMA QueuedUnchanged ==
    ASSUME TypeOK, start' = start, end' = end,
           \A i \in Slots : Dist(start, i) < Dist(start, end) => buff'[i] = buff[i]
    PROVE  Queued' = Queued
<1>1. Dist(start, end) \in Nat /\ Dist(start, end) <= Size - 1
  BY DistValue, SizeAssumption DEF TypeOK
<1>2. ASSUME NEW k \in 1 .. Dist(start, end)
      PROVE  buff'[Ahead(start, k - 1)] = buff[Ahead(start, k - 1)]
  <2>1. k - 1 \in Slots /\ k - 1 < Dist(start, end)
    BY <1>1, SizeAssumption DEF Slots
  <2> QED
    BY <2>1, AheadValue DEF TypeOK
<1> QED
  BY <1>2 DEF Queued, Window

(* The unlocked ring implements the bounded queue: whatever the two        *)
(* threads and their store buffers do, the jobs come out whole, once and   *)
(* in the order they were offered (my_queue.h:48-72).                      *)
THEOREM RingImplementsFifo == Spec => ImplementsFifo
<1>1. Init => Fifo!Init
  <2> SUFFICES ASSUME Init
               PROVE  Fifo!Init
    OBVIOUS
  <2>1. Dist(start, end) = 0
    BY SizeAssumption DEF Init, Dist
  <2>2. TypeOK
    BY InitTypeOK
  <2> QED
    BY <2>1, <2>2, QueuedValue DEF Init, Fifo!Init
<1>2. IInv /\ IInv' /\ [Next]_vars => [Fifo!Next]_(Fifo!vars)
  <2> SUFFICES ASSUME IInv, IInv', [Next]_vars
               PROVE  Fifo!Next \/ UNCHANGED Fifo!vars
    BY DEF Fifo!vars
  <2>0. TypeOK /\ TypeOK'
    BY DEF IInv
  <2>1. CASE StoreEnd
    <3>1. offered \in Jobs /\ ~Alive(offered) /\ job' = job
      BY <2>0, <2>1 DEF StoreEnd, IInv, SingleOwner, TypeOK, workerVars
    <3>2. ~Fifo!Alive(offered)
      BY <2>0, <3>1, WaitingIsQueued DEF Alive, Fifo!Alive
    <3>3. Len(Queued) < Size - 1
      <4>1. /\ start \in Slots /\ end \in Slots /\ seenStart \in Slots /\ seenEnd \in Slots
            /\ Dist(seenStart, start) + Dist(start, seenEnd) + Dist(seenEnd, end) <= Size - 2
        BY <2>0, <2>1 DEF StoreEnd, IInv, RingOrder, TypeOK
      <4>2. /\ Dist(seenStart, start) \in Nat /\ Dist(start, seenEnd) \in Nat
            /\ Dist(seenEnd, end) \in Nat /\ Dist(start, end) \in Nat
        BY <4>1, DistValue, SizeAssumption
      <4>3. Dist(start, seenEnd) + Dist(seenEnd, end) < Size
        BY <4>1, <4>2, SizeAssumption
      <4>4. Dist(start, end) = Dist(start, seenEnd) + Dist(seenEnd, end)
        BY <4>1, <4>3, DistAdd
      <4>5. Dist(start, end) < Size - 1
        BY <4>1, <4>2, <4>4, SizeAssumption
      <4> QED
        BY <2>0, <4>2, <4>5, QueuedValue
    <3>4. Queued' = Append(Queued, offered)
      BY <2>0, <2>1, StoreEndAppends
    <3> QED
      BY <3>1, <3>2, <3>3, <3>4 DEF Fifo!Next, Fifo!Offer
  <2>2. CASE StoreStart
    <3>1. job = NoJob
      BY <2>2 DEF StoreStart, IInv, SingleOwner
    <3> QED
      BY <2>0, <2>2, <3>1, StoreStartTakes DEF Fifo!Next, Fifo!Take
  <2>3. CASE FinishJob
    <3>1. job # NoJob /\ job' = NoJob
      BY <2>3 DEF FinishJob, IInv, SingleOwner
    <3>2. Queued' = Queued
      BY <2>0, <2>3, QueuedUnchanged DEF FinishJob, ringVars
    <3> QED
      BY <3>1, <3>2 DEF Fifo!Next, Fifo!Free
  <2>4. CASE StoreSlot
    <3>1. \A i \in Slots : Dist(start, i) < Dist(start, end) => i # end
      BY <2>0, DistValue, SizeAssumption DEF TypeOK
    <3>2. /\ start' = start /\ end' = end /\ job' = job
          /\ \A i \in Slots : i # end => buff'[i] = buff[i]
      BY <2>0, <2>4 DEF StoreSlot, TypeOK, workerVars
    <3> QED
      BY <2>0, <3>1, <3>2, QueuedUnchanged DEF Fifo!vars
  <2>5. CASE \/ \E j \in Jobs : OfferJob(j)
             \/ StoreOver \/ Poll \/ PollEmpty \/ AskOver \/ LoadSlot
             \/ Drain \/ UNCHANGED vars
    <3>1. /\ start' = start /\ end' = end /\ buff' = buff /\ job' = job
      BY <2>5 DEF OfferJob, StoreOver, Poll, PollEmpty, AskOver, LoadSlot, Drain,
                  DrainSlot, DrainEnd, DrainStart, DrainOver, ringVars, workerVars,
                  vars
    <3> QED
      BY <2>0, <3>1, QueuedUnchanged DEF Fifo!vars
  <2> QED
    BY <2>1, <2>2, <2>3, <2>4, <2>5 DEF Next, Main, Worker, Ended
<1> QED
  BY <1>1, <1>2, RingSafe, PTL DEF Spec, Fifo!Spec, ImplementsFifo
=============================================================================
