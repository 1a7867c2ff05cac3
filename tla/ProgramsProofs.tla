-------------------------- MODULE ProgramsProofs ---------------------------
(***************************************************************************)
(* The small programs: the threads of c_thread.cpp run in turn, the level  *)
(* of signal_test.cpp follows its signals, the list of clean_data.cpp      *)
(* holds the regular files, server.cc prints what was sent, and mkdirs     *)
(* tells the truth; for every number of threads, signals, clients, files   *)
(* and programs, whatever happens between two calls.                       *)
(***************************************************************************)
EXTENDS Turns, SignalLevel, CleanData, ServerClient, MakeDirs,
        SequenceTheorems, FiniteSetTheorems, WellFoundedInduction, TLAPS

(***************************************************************************)
(* c_thread                                                                *)

(* While main still creates threads, those to come have not begun.         *)
NotBegun == mainpc = "create" => \A t \in Tids : t >= i => tpc[t] = "none"

TurnsIInv == TurnsTypeOK /\ NotBegun /\ InTurn /\ NoWakeupMissed

-----------------------------------------------------------------------------
(* The numbers 0, 1, ..., k - 1 and then k are 0, 1, ..., k.               *)
LEMMA CountOn ==
    ASSUME NEW k \in Nat
    PROVE  Append([j \in 1 .. k |-> j - 1], k) = [j \in 1 .. k + 1 |-> j - 1]
<1> DEFINE s == [j \in 1 .. k |-> j - 1]
<1>1. s \in Seq(Int) /\ Len(s) = k
  OBVIOUS
<1>2. Append(s, k) = [j \in 1 .. Len(s) + 1 |-> IF j = Len(s) + 1 THEN k ELSE s[j]]
  BY <1>1
<1>3. ASSUME NEW j \in 1 .. k + 1
      PROVE  (IF j = k + 1 THEN k ELSE s[j]) = j - 1
  OBVIOUS
<1> QED
  BY <1>1, <1>2, <1>3

(* Every step keeps every variable in its type.                            *)
LEMMA TurnsTypes ==
    ASSUME TurnsTypeOK, [TurnsNext]_turnsVars
    PROVE  TurnsTypeOK'
<1> USE TurnsAssumption DEF TurnsTypeOK, Tids, Nobody
<1>1. ASSUME NEW t \in Tids, Lock(t), UNCHANGED <<mainpc, i>> PROVE TurnsTypeOK'
  BY <1>1 DEF Lock
<1>2. ASSUME NEW t \in Tids, Wait(t), UNCHANGED <<mainpc, i>> PROVE TurnsTypeOK'
  BY <1>2 DEF Wait
<1>3. ASSUME NEW t \in Tids, WakeUp(t), UNCHANGED <<mainpc, i>> PROVE TurnsTypeOK'
  BY <1>3 DEF WakeUp
<1>4. ASSUME NEW t \in Tids, Run(t), UNCHANGED <<mainpc, i>> PROVE TurnsTypeOK'
  <2>1. ran' \in Seq(Tids)
    BY <1>4 DEF Run
  <2> QED
    BY <1>4, <2>1 DEF Run
<1>5. ASSUME NEW t \in Tids, Unlock(t), UNCHANGED <<mainpc, i>> PROVE TurnsTypeOK'
  BY <1>5 DEF Unlock
<1>6. ASSUME NEW t \in Tids, Broadcast(t), UNCHANGED <<mainpc, i>> PROVE TurnsTypeOK'
  BY <1>6 DEF Broadcast
<1>7. CASE Create
  BY <1>7 DEF Create
<1>8. CASE AllCreated
  BY <1>8 DEF AllCreated
<1>9. CASE Join
  BY <1>9 DEF Join
<1>10. CASE UNCHANGED turnsVars
  BY <1>10 DEF turnsVars
<1> QED
  BY <1>1, <1>2, <1>3, <1>4, <1>5, <1>6, <1>7, <1>8, <1>9, <1>10
     DEF TurnsNext, TurnsMain, ThreadStep, ThreadFunc

(* A thread that was not created takes no step, and so stays as it is.     *)
LEMMA NotBegunStep ==
    ASSUME TurnsTypeOK, NotBegun, [TurnsNext]_turnsVars
    PROVE  NotBegun'
<1> USE TurnsAssumption DEF TurnsTypeOK, Tids, NotBegun
<1>1. ASSUME NEW t \in Tids, ThreadStep(t) PROVE NotBegun'
  <2>1. tpc[t] # "none" /\ UNCHANGED <<mainpc, i>>
    BY <1>1 DEF ThreadStep, ThreadFunc, Lock, Wait, WakeUp, Run, Unlock, Broadcast
  <2>2. \A u \in Tids : tpc[u] = "none" => tpc'[u] = "none"
    BY <1>1, <2>1 DEF ThreadStep, ThreadFunc, Lock, Wait, WakeUp, Run, Unlock, Broadcast
  <2> QED
    BY <2>1, <2>2
<1>2. CASE Create
  BY <1>2 DEF Create
<1>3. CASE AllCreated
  BY <1>3 DEF AllCreated
<1>4. CASE Join
  BY <1>4 DEF Join
<1>5. CASE UNCHANGED turnsVars
  BY <1>5 DEF turnsVars
<1> QED
  BY <1>1, <1>2, <1>3, <1>4, <1>5 DEF TurnsNext, TurnsMain

-----------------------------------------------------------------------------
(* Only the thread whose turn it is leaves its loop, and counts on.        *)
LEMMA InTurnStep ==
    ASSUME TurnsTypeOK, NotBegun, InTurn, [TurnsNext]_turnsVars
    PROVE  InTurn'
<1> USE TurnsAssumption DEF TurnsTypeOK, Tids, InTurn, Left
<1>1. ASSUME NEW t \in Tids, ThreadStep(t), ~Run(t) PROVE InTurn'
  <2>1. UNCHANGED <<num, ran>>
    BY <1>1 DEF ThreadStep, ThreadFunc, Lock, Wait, WakeUp, Unlock, Broadcast
  <2>2. \A u \in Tids : Left(u) <=> Left(u)'
    BY <1>1 DEF ThreadStep, ThreadFunc, Lock, Wait, WakeUp, Unlock, Broadcast
  <2> QED
    BY <2>1, <2>2
<1>2. ASSUME NEW t \in Tids, Run(t) PROVE InTurn'
  <2>1. ran' = [k \in 1 .. num' |-> k - 1]
    BY <1>2, CountOn DEF Run
  <2>2. \A u \in Tids : Left(u)' <=> u < num'
    BY <1>2 DEF Run
  <2> QED
    BY <2>1, <2>2
<1>3. CASE Create
  BY <1>3 DEF Create, NotBegun
<1>4. CASE AllCreated \/ Join
  BY <1>4 DEF AllCreated, Join
<1>5. CASE UNCHANGED turnsVars
  BY <1>5 DEF turnsVars
<1> QED
  BY <1>1, <1>2, <1>3, <1>4, <1>5 DEF TurnsNext, TurnsMain

(* The thread that has passed the turn on still owes its broadcast, and    *)
(* nobody goes to sleep in its own turn.                                   *)
LEMMA NoWakeupMissedStep ==
    ASSUME TurnsTypeOK, NotBegun, NoWakeupMissed, [TurnsNext]_turnsVars
    PROVE  NoWakeupMissed'
<1> USE TurnsAssumption DEF TurnsTypeOK, Tids, NoWakeupMissed
<1>1. ASSUME NEW t \in Tids, Lock(t) \/ Wait(t) \/ WakeUp(t) \/ Unlock(t) PROVE NoWakeupMissed'
  <2>1. UNCHANGED num
    BY <1>1 DEF Lock, Wait, WakeUp, Unlock
  <2>2. num \in Tids /\ tpc'[num] = "wait" => tpc[num] = "wait"
    BY <1>1 DEF Lock, Wait, WakeUp, Unlock
  <2>3. \A u \in Tids : tpc[u] \in {"unlock", "broadcast"} => tpc'[u] \in {"unlock", "broadcast"}
    BY <1>1 DEF Lock, Wait, WakeUp, Unlock
  <2> QED
    BY <2>1, <2>2, <2>3
<1>2. ASSUME NEW t \in Tids, Run(t) PROVE NoWakeupMissed'
  BY <1>2 DEF Run
<1>3. ASSUME NEW t \in Tids, Broadcast(t) PROVE NoWakeupMissed'
  BY <1>3 DEF Broadcast
<1>4. CASE Create
  BY <1>4 DEF Create, NotBegun
<1>5. CASE AllCreated \/ Join
  BY <1>5 DEF AllCreated, Join
<1>6. CASE UNCHANGED turnsVars
  BY <1>6 DEF turnsVars
<1> QED
  BY <1>1, <1>2, <1>3, <1>4, <1>5, <1>6 DEF TurnsNext, TurnsMain, ThreadStep, ThreadFunc

-----------------------------------------------------------------------------
(* The strengthened invariant holds in every state of c_thread.            *)
THEOREM TurnsSafe == TurnsSpec => []TurnsIInv
<1>1. TurnsInit => TurnsIInv
  BY TurnsAssumption DEF TurnsInit, TurnsIInv, TurnsTypeOK, NotBegun, InTurn, NoWakeupMissed,
                         Left, Tids, Nobody
<1>2. TurnsIInv /\ [TurnsNext]_turnsVars => TurnsIInv'
  BY TurnsTypes, NotBegunStep, InTurnStep, NoWakeupMissedStep DEF TurnsIInv
<1> QED
  BY <1>1, <1>2, PTL DEF TurnsSpec

(* The threads run in the order of their numbers, each of them once        *)
(* (c_thread.cpp:16-21).                                                   *)
THEOREM ThreadsRunInTurn == TurnsSpec => []InTurn
<1>1. TurnsIInv => InTurn
  BY DEF TurnsIInv
<1> QED
  BY <1>1, TurnsSafe, PTL

(* Whose turn it is never waits for a broadcast that nobody owes it        *)
(* (c_thread.cpp:22-23).                                                   *)
THEOREM NobodyMissesItsTurn == TurnsSpec => []NoWakeupMissed
<1>1. TurnsIInv => NoWakeupMissed
  BY DEF TurnsIInv
<1> QED
  BY <1>1, TurnsSafe, PTL

-----------------------------------------------------------------------------
(***************************************************************************)
(* signal_test                                                             *)

LevelSpec == LevelInit /\ [][LevelNext]_levelVars

Handler == [num : Signals, at : {"entered", "loaded", "stored"}, level : Int]

(* Of each signal at most one handler runs, so there are at most two.      *)
Nested ==
    \/ handlers = <<>>
    \/ \E a \in Handler : handlers = <<a>>
    \/ \E a, b \in Handler : a.num # b.num /\ handlers = <<a, b>>

(* Signals whose handler has stored, and was not lost.                     *)
Handled(s) == sent[s] - queued[s]
Under(h, s) == h.num = s /\ h.at # "stored"
Pending(s) == IF \E k \in DOMAIN handlers : Under(handlers[k], s) THEN 1 ELSE 0
Net(s) == Handled(s) - Pending(s) - lost[s]

Counted == 2 + Net(42) - Net(41)

LevelTypeOK ==
    /\ Nested /\ log_level \in Int
    /\ sent \in [Signals -> Int] /\ queued \in [Signals -> Int] /\ lost \in [Signals -> Int]

(* The outermost handler has loaded what the signals make of the level, or *)
(* that is the level.                                                      *)
LevelKept ==
    /\ handlers # <<>> /\ handlers[1].at = "loaded" => handlers[1].level = Counted
    /\ ~(handlers # <<>> /\ handlers[1].at = "loaded") =>
          /\ log_level = Counted
          /\ Len(handlers) = 2 /\ handlers[2].at = "loaded" => handlers[2].level = Counted

(* Something is lost only when handlers of both signals have run.          *)
LostToOthers ==
    /\ \A s \in Signals : Handled(s) >= 0
    /\ \A k \in DOMAIN handlers : Handled(handlers[k].num) > 0
    /\ (\E s \in Signals : Handled(s) = 0) => \A s \in Signals : lost[s] = 0

LevelIInv == LevelTypeOK /\ LevelKept /\ LostToOthers

(* Stacks of one and of two.                                               *)
LEMMA Stacks ==
    ASSUME NEW a, NEW b
    PROVE  /\ Len(<<a>>) = 1 /\ <<a>> # <<>> /\ <<a>>[1] = a /\ DOMAIN <<a>> = {1}
           /\ Len(<<a, b>>) = 2 /\ <<a, b>> # <<>> /\ <<a, b>>[1] = a /\ <<a, b>>[2] = b
           /\ DOMAIN <<a, b>> = {1, 2}
           /\ Append(<<>>, a) = <<a>> /\ Append(<<a>>, b) = <<a, b>>
           /\ Front(<<a>>) = <<>> /\ Last(<<a>>) = a
           /\ Front(<<a, b>>) = <<a>> /\ Last(<<a, b>>) = b
<1>1. /\ Len(<<a>>) = 1 /\ <<a>> # <<>> /\ <<a>>[1] = a /\ DOMAIN <<a>> = {1}
      /\ Len(<<a, b>>) = 2 /\ <<a, b>> # <<>> /\ <<a, b>>[1] = a /\ <<a, b>>[2] = b
      /\ DOMAIN <<a, b>> = {1, 2}
  OBVIOUS
<1>2. Append(<<>>, a) = <<a>> /\ Append(<<a>>, b) = <<a, b>>
  <2>1. <<>> \in Seq({a, b}) /\ <<a>> \in Seq({a, b}) /\ <<a, b>> \in Seq({a, b})
    OBVIOUS
  <2>2. Append(<<>>, a) = <<a>>
    BY <2>1
  <2>3. Append(<<a>>, b) \in Seq({a, b}) /\ Len(Append(<<a>>, b)) = 2
    BY <2>1, AppendProperties
  <2>4. Append(<<a>>, b)[1] = a /\ Append(<<a>>, b)[2] = b
    BY <2>1, AppendProperties
  <2>5. PICK x : x = Append(<<a>>, b)
    OBVIOUS
  <2>6. x \in Seq({a, b}) /\ Len(x) = 2 /\ x[1] = a /\ x[2] = b
    BY <2>3, <2>4, <2>5
  <2>7. x = <<a, b>>
    BY <2>6
  <2> QED
    BY <2>2, <2>5, <2>7
<1>3. Last(<<a>>) = a /\ Last(<<a, b>>) = b
  BY <1>1 DEF Last
<1>4. Front(<<a>>) = <<>>
  BY <1>1 DEF Front
<1>5. Front(<<a, b>>) = <<a>>
  <2>1. <<a, b>> \in Seq({a, b}) /\ 2 - 1 = 1
    OBVIOUS
  <2>2. PICK front : front = SubSeq(<<a, b>>, 1, 1)
    OBVIOUS
  <2>3. front \in Seq({a, b}) /\ Len(front) = 1 /\ front[1] = a
    BY <1>1, <2>1, <2>2, SubSeqProperties
  <2>4. front = <<a>>
    BY <2>3
  <2> QED
    BY <1>1, <2>1, <2>2, <2>4 DEF Front
<1> QED
  BY <1>1, <1>2, <1>3, <1>4, <1>5

(* Who is pending, on a stack of one and of two.                           *)
LEMMA PendingFacts ==
    /\ handlers = <<>> => \A s : Pending(s) = 0
    /\ \A a : handlers = <<a>> => \A s : Pending(s) = IF Under(a, s) THEN 1 ELSE 0
    /\ \A a, b : handlers = <<a, b>> => \A s : Pending(s) = IF Under(a, s) \/ Under(b, s) THEN 1 ELSE 0
    /\ \A s : Pending(s) \in {0, 1}
BY Stacks DEF Pending

LEMMA NetTyped ==
    ASSUME LevelTypeOK
    PROVE  \A s \in Signals : Handled(s) \in Int /\ Net(s) \in Int
<1>1. ASSUME NEW s \in Signals
      PROVE  Handled(s) \in Int /\ Net(s) \in Int
  <2>1. sent[s] \in Int /\ queued[s] \in Int /\ lost[s] \in Int
    BY DEF LevelTypeOK
  <2>2. Pending(s) \in {0, 1}
    BY PendingFacts
  <2>3. PICK pending \in Int : pending = Pending(s)
    BY <2>2
  <2>4. Handled(s) \in Int
    BY <2>1 DEF Handled
  <2>5. Net(s) = Handled(s) - pending - lost[s]
    BY <2>3 DEF Net
  <2> HIDE DEF Handled
  <2> QED
    BY <2>1, <2>4, <2>5
<1> QED
  BY <1>1

(* One signal more makes the level what its handler makes of it.           *)
LEMMA CountedOnce ==
    ASSUME LevelTypeOK, LevelTypeOK', NEW s \in Signals,
           Net(s)' = Net(s) + 1, \A r \in Signals : r # s => Net(r)' = Net(r)
    PROVE  Counted' = Changed(s, Counted) /\ Counted \in Int
<1>1. Signals = {41, 42}
  BY DEF Signals
<1>2. PICK up \in Int, down \in Int : up = Net(42) /\ down = Net(41)
  BY <1>1, NetTyped
<1>3. Counted = 2 + up - down
  BY <1>2 DEF Counted
<1>4. CASE s = 42
  <2>1. Net(42)' = up + 1 /\ Net(41)' = down
    BY <1>1, <1>2, <1>4
  <2>2. Counted' = 2 + (up + 1) - down
    BY <2>1 DEF Counted
  <2> QED
    BY <1>3, <1>4, <2>2 DEF Changed
<1>5. CASE s = 41
  <2>1. Net(42)' = up /\ Net(41)' = down + 1
    BY <1>1, <1>2, <1>5
  <2>2. Counted' = 2 + up - (down + 1)
    BY <2>1 DEF Counted
  <2> QED
    BY <1>3, <1>5, <2>2 DEF Changed
<1> QED
  BY <1>1, <1>4, <1>5

LEMMA CountedSame ==
    ASSUME \A r \in Signals : Net(r)' = Net(r)
    PROVE  Counted' = Counted
BY DEF Counted, Signals

-----------------------------------------------------------------------------
(* What a handler is, whatever it is.                                      *)
LEMMA HandlerFields ==
    ASSUME NEW a \in Handler
    PROVE  /\ a.num \in Signals /\ a.level \in Int
           /\ a.at \in {"entered", "loaded", "stored"}
BY DEF Handler

(* A signal that is sent waits.                                            *)
LEMMA KillKeeps ==
    ASSUME LevelIInv, NEW s \in Signals, Kill(s)
    PROVE  LevelIInv'
<1> USE DEF LevelIInv
<1>1. /\ UNCHANGED <<log_level, handlers, lost>>
      /\ sent' = [sent EXCEPT ![s] = @ + 1] /\ queued' = [queued EXCEPT ![s] = @ + 1]
  BY DEF Kill
<1>2. LevelTypeOK'
  BY <1>1 DEF LevelTypeOK, Nested
<1>3. ASSUME NEW r \in Signals
      PROVE  Handled(r)' = Handled(r)
  <2>1. /\ sent[r] \in Int /\ queued[r] \in Int
        /\ r = s => sent'[r] = sent[r] + 1 /\ queued'[r] = queued[r] + 1
        /\ r # s => sent'[r] = sent[r] /\ queued'[r] = queued[r]
    BY <1>1 DEF LevelTypeOK
  <2>2. \A x, y \in Int : (x + 1) - (y + 1) = x - y
    OBVIOUS
  <2> QED
    BY <2>1, <2>2 DEF Handled
<1>4. \A r \in Signals : Pending(r)' = Pending(r)
  BY <1>1 DEF Pending
<1>5. \A r \in Signals : Net(r)' = Net(r)
  BY <1>1, <1>3, <1>4 DEF Net
<1>6. Counted' = Counted
  BY <1>5, CountedSame
<1>7. LevelKept'
  BY <1>1, <1>6 DEF LevelKept
<1>8. \A k \in DOMAIN handlers : handlers[k].num \in Signals
  BY Stacks, HandlerFields DEF LevelTypeOK, Nested
<1> HIDE DEF Handled
<1>9. LostToOthers'
  BY <1>1, <1>3, <1>8 DEF LostToOthers
<1> QED
  BY <1>2, <1>7, <1>9

-----------------------------------------------------------------------------
(* A handler that begins is counted as pending, above at most one other.   *)
LEMMA DeliverKeeps ==
    ASSUME LevelIInv, NEW s \in Signals, Deliver(s)
    PROVE  LevelIInv'
<1> USE DEF LevelIInv
<1> DEFINE h == [num |-> s, at |-> "entered", level |-> log_level]
<1>1. /\ UNCHANGED <<log_level, sent, lost>> /\ ~Blocked(s)
      /\ queued' = [queued EXCEPT ![s] = @ - 1] /\ handlers' = Append(handlers, h)
  BY DEF Deliver
<1>2. h \in Handler /\ h.num = s /\ h.at = "entered"
  BY DEF Handler, LevelTypeOK
<1>3. \A k \in DOMAIN handlers : handlers[k].num # s
  BY <1>1 DEF Blocked, ToSet
<1> HIDE DEF h
<1>4. \/ handlers = <<>> /\ handlers' = <<h>>
      \/ \E a \in Handler : handlers = <<a>> /\ a.num # s /\ handlers' = <<a, h>>
  <2>1. CASE handlers = <<>>
    BY <1>1, <2>1, Stacks
  <2>2. CASE \E a \in Handler : handlers = <<a>>
    <3>1. PICK a \in Handler : handlers = <<a>>
      BY <2>2
    <3>2. a.num # s
      BY <1>3, <3>1, Stacks
    <3>3. handlers' = <<a, h>>
      BY <1>1, <3>1, Stacks
    <3> QED
      BY <3>1, <3>2, <3>3
  <2>3. CASE \E a, b \in Handler : a.num # b.num /\ handlers = <<a, b>>
    <3>1. PICK a \in Handler, b \in Handler : a.num # b.num /\ handlers = <<a, b>>
      BY <2>3
    <3>2. a.num # s /\ b.num # s
      BY <1>3, <3>1, Stacks
    <3>3. a.num \in {41, 42} /\ b.num \in {41, 42} /\ s \in {41, 42}
      BY HandlerFields DEF Signals
    <3> QED
      BY <3>1, <3>2, <3>3
  <2> QED
    BY <2>1, <2>2, <2>3 DEF LevelTypeOK, Nested
<1>5. LevelTypeOK'
  BY <1>1, <1>2, <1>4 DEF LevelTypeOK, Nested
<1>6. ASSUME NEW r \in Signals
      PROVE  Handled(r)' = IF r = s THEN Handled(r) + 1 ELSE Handled(r)
  <2>1. /\ sent[r] \in Int /\ queued[r] \in Int /\ sent'[r] = sent[r]
        /\ r = s => queued'[r] = queued[r] - 1
        /\ r # s => queued'[r] = queued[r]
    BY <1>1 DEF LevelTypeOK
  <2>2. \A x, y \in Int : x - (y - 1) = (x - y) + 1
    OBVIOUS
  <2> QED
    BY <2>1, <2>2 DEF Handled
<1>7. ASSUME NEW r \in Signals
      PROVE  IF r = s THEN Pending(r) = 0 /\ Pending(r)' = 1 ELSE Pending(r)' = Pending(r)
  <2>1. Under(h, r) <=> r = s
    BY <1>2 DEF Under
  <2>2. CASE handlers = <<>> /\ handlers' = <<h>>
    <3>1. Pending(r) = 0
      BY <2>2, PendingFacts
    <3>2. Pending(r)' = IF \E k \in DOMAIN <<h>> : Under(<<h>>[k], r) THEN 1 ELSE 0
      BY <2>2 DEF Pending, Under
    <3>3. Pending(r)' = IF Under(h, r) THEN 1 ELSE 0
      BY <3>2, Stacks
    <3> QED
      BY <2>1, <3>1, <3>3
  <2>3. CASE \E a \in Handler : handlers = <<a>> /\ a.num # s /\ handlers' = <<a, h>>
    <3>1. PICK a \in Handler : handlers = <<a>> /\ a.num # s /\ handlers' = <<a, h>>
      BY <2>3
    <3>2. Pending(r) = IF Under(a, r) THEN 1 ELSE 0
      BY <3>1, PendingFacts
    <3>3. Pending(r)' = IF \E k \in DOMAIN <<a, h>> : Under(<<a, h>>[k], r) THEN 1 ELSE 0
      BY <3>1 DEF Pending, Under
    <3>4. Pending(r)' = IF Under(a, r) \/ Under(h, r) THEN 1 ELSE 0
      BY <3>3, Stacks
    <3>5. r = s => ~Under(a, r)
      BY <3>1 DEF Under
    <3> QED
      BY <2>1, <3>2, <3>4, <3>5
  <2> QED
    BY <1>4, <2>2, <2>3
<1>8. \A r \in Signals : Handled(r) \in Int /\ lost[r] \in Int
  BY NetTyped DEF LevelTypeOK
<1> HIDE DEF Handled, Pending
<1>9. \A r \in Signals : Net(r)' = Net(r)
  <2>1. \A x, y \in Int : (x + 1) - 1 - y = x - 0 - y
    OBVIOUS
  <2> QED
    BY <1>1, <1>6, <1>7, <1>8, <2>1 DEF Net
<1>10. Counted' = Counted
  BY <1>9, CountedSame
<1> HIDE DEF Counted
<1>11. LevelKept'
  <2>1. CASE handlers = <<>> /\ handlers' = <<h>>
    <3>1. handlers' # <<>> /\ handlers'[1] = h /\ Len(handlers') = 1
      BY <2>1, Stacks
    <3>2. log_level = Counted
      BY <2>1 DEF LevelKept
    <3> QED
      BY <1>1, <1>2, <1>10, <3>1, <3>2 DEF LevelKept
  <2>2. CASE \E a \in Handler : handlers = <<a>> /\ a.num # s /\ handlers' = <<a, h>>
    <3>1. PICK a \in Handler : handlers = <<a>> /\ a.num # s /\ handlers' = <<a, h>>
      BY <2>2
    <3>2. handlers # <<>> /\ handlers[1] = a
      BY <3>1, Stacks
    <3>3. handlers' # <<>> /\ handlers'[1] = a /\ handlers'[2] = h
      BY <3>1, Stacks
    <3> QED
      BY <1>1, <1>2, <1>10, <3>2, <3>3 DEF LevelKept
  <2> QED
    BY <1>4, <2>1, <2>2
<1>12. LostToOthers'
  <2>1. \A k \in DOMAIN handlers' : handlers'[k].num = s \/ (k \in DOMAIN handlers /\ handlers'[k] = handlers[k])
    <3>1. CASE handlers = <<>> /\ handlers' = <<h>>
      <4>1. DOMAIN handlers' = {1} /\ handlers'[1] = h
        BY <3>1, Stacks
      <4> QED
        BY <1>2, <4>1
    <3>2. CASE \E a \in Handler : handlers = <<a>> /\ a.num # s /\ handlers' = <<a, h>>
      <4>1. PICK a \in Handler : handlers = <<a>> /\ a.num # s /\ handlers' = <<a, h>>
        BY <3>2
      <4>2. DOMAIN handlers = {1} /\ handlers[1] = a
        BY <4>1, Stacks
      <4>3. DOMAIN handlers' = {1, 2} /\ handlers'[1] = a /\ handlers'[2] = h
        BY <4>1, Stacks
      <4> QED
        BY <1>2, <4>2, <4>3
    <3> QED
      BY <1>4, <3>1, <3>2
  <2>2. \A k \in DOMAIN handlers : handlers[k].num \in Signals
    BY Stacks, HandlerFields DEF LevelTypeOK, Nested
  <2>3. \A r \in Signals : Handled(r) >= 0
    BY DEF LostToOthers
  <2>4. Handled(s)' > 0 /\ \A r \in Signals : Handled(r)' >= 0
    BY <1>6, <1>8, <2>3
  <2>5. \A k \in DOMAIN handlers' : Handled(handlers[k].num)' > 0 \/ handlers'[k].num = s
    BY <1>6, <1>8, <2>1, <2>2, <2>3 DEF LostToOthers
  <2>6. \A k \in DOMAIN handlers' : (Handled(handlers[k].num))' > 0
    BY <2>1, <2>4, <2>5
  <2>7. (\E r \in Signals : Handled(r)' = 0) => \A r \in Signals : lost[r] = 0
    BY <1>6, <1>8, <2>4 DEF LostToOthers
  <2> QED
    BY <1>1, <2>4, <2>6, <2>7 DEF LostToOthers
<1> QED
  BY <1>5, <1>11, <1>12

-----------------------------------------------------------------------------
(* The same after a step.                                                  *)
LEMMA PendingAfter ==
    /\ handlers' = <<>> => \A r : Pending(r)' = 0
    /\ \A a : handlers' = <<a>> => \A r : Pending(r)' = IF Under(a, r) THEN 1 ELSE 0
    /\ \A a, b : handlers' = <<a, b>> => \A r : Pending(r)' = IF Under(a, r) \/ Under(b, r) THEN 1 ELSE 0
<1>1. ASSUME NEW r, handlers' = <<>>
      PROVE  Pending(r)' = 0
  BY <1>1 DEF Pending
<1>2. ASSUME NEW a, NEW r, handlers' = <<a>>
      PROVE  Pending(r)' = IF Under(a, r) THEN 1 ELSE 0
  <2>1. Pending(r)' = IF \E k \in DOMAIN <<a>> : Under(<<a>>[k], r) THEN 1 ELSE 0
    BY <1>2 DEF Pending, Under
  <2> QED
    BY <2>1, Stacks
<1>3. ASSUME NEW a, NEW b, NEW r, handlers' = <<a, b>>
      PROVE  Pending(r)' = IF Under(a, r) \/ Under(b, r) THEN 1 ELSE 0
  <2>1. Pending(r)' = IF \E k \in DOMAIN <<a, b>> : Under(<<a, b>>[k], r) THEN 1 ELSE 0
    BY <1>3 DEF Pending, Under
  <2> QED
    BY <2>1, Stacks
<1> QED
  BY <1>1, <1>2, <1>3

(* The innermost handler and what is below it.                             *)
LEMMA Innermost ==
    ASSUME LevelTypeOK, handlers # <<>>
    PROVE  \E h \in Handler :
              /\ Last(handlers) = h
              /\ \/ handlers = <<h>> /\ Front(handlers) = <<>>
                 \/ \E a \in Handler : a.num # h.num /\ handlers = <<a, h>> /\ Front(handlers) = <<a>>
<1>1. CASE \E a \in Handler : handlers = <<a>>
  BY <1>1, Stacks
<1>2. CASE \E a, b \in Handler : a.num # b.num /\ handlers = <<a, b>>
  <2>1. PICK a \in Handler, b \in Handler : a.num # b.num /\ handlers = <<a, b>>
    BY <1>2
  <2>2. Last(handlers) = b /\ Front(handlers) = <<a>>
    BY <2>1, Stacks
  <2> QED
    BY <2>1, <2>2
<1> QED
  BY <1>1, <1>2 DEF LevelTypeOK, Nested

(* What a step that leaves sent and queued alone keeps of LostToOthers.    *)
LEMMA HandledSame ==
    ASSUME UNCHANGED <<sent, queued>>
    PROVE  \A r : Handled(r)' = Handled(r)
BY DEF Handled

(* A handler loads what the signals have made of the level.                *)
LEMMA LoadKeeps ==
    ASSUME LevelIInv, Load
    PROVE  LevelIInv'
<1> USE DEF LevelIInv
<1>1. /\ handlers # <<>> /\ UNCHANGED <<log_level, sent, queued, lost>>
  BY DEF Load
<1>2. PICK h \in Handler :
         /\ Last(handlers) = h
         /\ \/ handlers = <<h>> /\ Front(handlers) = <<>>
            \/ \E a \in Handler : a.num # h.num /\ handlers = <<a, h>> /\ Front(handlers) = <<a>>
  BY <1>1, Innermost
<1> DEFINE g == [h EXCEPT !.at = "loaded", !.level = log_level]
<1>3. h.at = "entered" /\ handlers' = Append(Front(handlers), g)
  BY <1>2 DEF Load, Becomes
<1>4. g \in Handler /\ g.num = h.num /\ g.at = "loaded" /\ g.level = log_level
  BY DEF Handler, LevelTypeOK
<1> HIDE DEF g
<1>5. \/ handlers = <<h>> /\ handlers' = <<g>>
      \/ \E a \in Handler : a.num # h.num /\ handlers = <<a, h>> /\ handlers' = <<a, g>>
  <2>1. CASE handlers = <<h>> /\ Front(handlers) = <<>>
    BY <1>3, <2>1, Stacks
  <2>2. CASE \E a \in Handler : a.num # h.num /\ handlers = <<a, h>> /\ Front(handlers) = <<a>>
    <3>1. PICK a \in Handler : a.num # h.num /\ handlers = <<a, h>> /\ Front(handlers) = <<a>>
      BY <2>2
    <3>2. handlers' = <<a, g>>
      BY <1>3, <3>1, Stacks
    <3> QED
      BY <3>1, <3>2
  <2> QED
    BY <1>2, <2>1, <2>2
<1>6. LevelTypeOK'
  BY <1>1, <1>4, <1>5 DEF LevelTypeOK, Nested
<1>7. \A r \in Signals : Pending(r)' = Pending(r)
  <2>1. \A r : Under(g, r) <=> Under(h, r)
    BY <1>3, <1>4 DEF Under
  <2> QED
    BY <1>5, <2>1, PendingFacts, PendingAfter
<1>8. \A r \in Signals : Net(r)' = Net(r)
  BY <1>1, <1>7, HandledSame DEF Net
<1>9. Counted' = Counted
  BY <1>8, CountedSame
<1> HIDE DEF Counted, Handled
<1>10. LevelKept' /\ LostToOthers'
  <2>1. CASE handlers = <<h>> /\ handlers' = <<g>>
    <3>1. /\ handlers # <<>> /\ handlers[1] = h /\ DOMAIN handlers = {1}
          /\ handlers' # <<>> /\ handlers'[1] = g /\ Len(handlers') = 1 /\ DOMAIN handlers' = {1}
      BY <2>1, Stacks
    <3>2. LevelKept'
      BY <1>1, <1>3, <1>4, <1>9, <3>1 DEF LevelKept
    <3>3. LostToOthers'
      BY <1>1, <1>4, <3>1, HandledSame DEF LostToOthers
    <3> QED
      BY <3>2, <3>3
  <2>2. CASE \E a \in Handler : a.num # h.num /\ handlers = <<a, h>> /\ handlers' = <<a, g>>
    <3>1. PICK a \in Handler : a.num # h.num /\ handlers = <<a, h>> /\ handlers' = <<a, g>>
      BY <2>2
    <3>2. /\ handlers # <<>> /\ handlers[1] = a /\ handlers[2] = h /\ DOMAIN handlers = {1, 2}
          /\ handlers' # <<>> /\ handlers'[1] = a /\ handlers'[2] = g /\ DOMAIN handlers' = {1, 2}
      BY <3>1, Stacks
    <3>3. LevelKept'
      BY <1>1, <1>3, <1>4, <1>9, <3>2 DEF LevelKept
    <3>4. LostToOthers'
      BY <1>1, <1>4, <3>2, HandledSame DEF LostToOthers
    <3> QED
      BY <3>3, <3>4
  <2> QED
    BY <1>5, <2>1, <2>2
<1> QED
  BY <1>6, <1>10

(* A handler that is done was counted when it stored.                      *)
LEMMA ReturnKeeps ==
    ASSUME LevelIInv, Return
    PROVE  LevelIInv'
<1> USE DEF LevelIInv
<1>1. /\ handlers # <<>> /\ UNCHANGED <<log_level, sent, queued, lost>>
  BY DEF Return
<1>2. PICK h \in Handler :
         /\ Last(handlers) = h
         /\ \/ handlers = <<h>> /\ Front(handlers) = <<>>
            \/ \E a \in Handler : a.num # h.num /\ handlers = <<a, h>> /\ Front(handlers) = <<a>>
  BY <1>1, Innermost
<1>3. h.at = "stored" /\ handlers' = Front(handlers)
  BY <1>2 DEF Return
<1>5. \/ handlers = <<h>> /\ handlers' = <<>>
      \/ \E a \in Handler : handlers = <<a, h>> /\ handlers' = <<a>>
  BY <1>2, <1>3
<1>6. LevelTypeOK'
  BY <1>1, <1>5 DEF LevelTypeOK, Nested
<1>7. \A r \in Signals : Pending(r)' = Pending(r)
  <2>1. \A r : ~Under(h, r)
    BY <1>3 DEF Under
  <2> QED
    BY <1>5, <2>1, PendingFacts, PendingAfter
<1>8. \A r \in Signals : Net(r)' = Net(r)
  BY <1>1, <1>7, HandledSame DEF Net
<1>9. Counted' = Counted
  BY <1>8, CountedSame
<1> HIDE DEF Counted, Handled
<1>10. LevelKept' /\ LostToOthers'
  <2>1. CASE handlers = <<h>> /\ handlers' = <<>>
    <3>1. /\ handlers # <<>> /\ handlers[1] = h /\ DOMAIN handlers' = {} /\ Len(handlers') = 0
      BY <2>1, Stacks
    <3>2. LevelKept'
      BY <1>1, <1>3, <1>9, <2>1, <3>1 DEF LevelKept
    <3>3. LostToOthers'
      BY <1>1, <3>1, HandledSame DEF LostToOthers
    <3> QED
      BY <3>2, <3>3
  <2>2. CASE \E a \in Handler : handlers = <<a, h>> /\ handlers' = <<a>>
    <3>1. PICK a \in Handler : handlers = <<a, h>> /\ handlers' = <<a>>
      BY <2>2
    <3>2. /\ handlers # <<>> /\ handlers[1] = a /\ DOMAIN handlers = {1, 2}
          /\ handlers' # <<>> /\ handlers'[1] = a /\ DOMAIN handlers' = {1} /\ Len(handlers') = 1
      BY <3>1, Stacks
    <3>3. LevelKept'
      BY <1>1, <1>9, <3>2 DEF LevelKept
    <3>4. LostToOthers'
      BY <1>1, <3>2, HandledSame DEF LostToOthers
    <3> QED
      BY <3>3, <3>4
  <2> QED
    BY <1>5, <2>1, <2>2
<1> QED
  BY <1>6, <1>10

-----------------------------------------------------------------------------
(* A store counts the signal it handles, or loses it to the handler below. *)
LEMMA StoreKeeps ==
    ASSUME LevelIInv, Store
    PROVE  LevelIInv'
<1> USE DEF LevelIInv
<1>1. /\ handlers # <<>> /\ UNCHANGED <<sent, queued>>
  BY DEF Store
<1>2. PICK h \in Handler :
         /\ Last(handlers) = h
         /\ \/ handlers = <<h>> /\ Front(handlers) = <<>>
            \/ \E a \in Handler : a.num # h.num /\ handlers = <<a, h>> /\ Front(handlers) = <<a>>
  BY <1>1, Innermost
<1> DEFINE g == [h EXCEPT !.at = "stored"]
           loaded == IF h.at = "loaded" THEN h.level ELSE log_level
           below == Front(handlers)
<1>3. /\ h.at \in {"entered", "loaded"} /\ log_level' = Changed(h.num, loaded)
      /\ lost' = IF below # <<>> /\ Last(below).at = "loaded"
                 THEN [lost EXCEPT ![h.num] = @ + 1] ELSE lost
      /\ handlers' = Append(Front(handlers), g)
  BY <1>2 DEF Store, Becomes
<1>4. g \in Handler /\ g.num = h.num /\ g.at = "stored" /\ h.num \in Signals
  BY DEF Handler
<1> HIDE DEF g
<1>5. \/ handlers = <<h>> /\ handlers' = <<g>> /\ lost' = lost
      \/ \E a \in Handler :
            /\ a.num # h.num /\ handlers = <<a, h>> /\ handlers' = <<a, g>>
            /\ lost' = IF a.at = "loaded" THEN [lost EXCEPT ![h.num] = @ + 1] ELSE lost
  <2>1. CASE handlers = <<h>> /\ Front(handlers) = <<>>
    BY <1>3, <2>1, Stacks
  <2>2. CASE \E a \in Handler : a.num # h.num /\ handlers = <<a, h>> /\ Front(handlers) = <<a>>
    <3>1. PICK a \in Handler : a.num # h.num /\ handlers = <<a, h>> /\ Front(handlers) = <<a>>
      BY <2>2
    <3>2. handlers' = <<a, g>>
      BY <1>3, <3>1, Stacks
    <3>3. below # <<>> /\ Last(below) = a
      BY <3>1, Stacks
    <3>4. lost' = IF a.at = "loaded" THEN [lost EXCEPT ![h.num] = @ + 1] ELSE lost
      BY <1>3, <3>3
    <3> QED
      BY <3>1, <3>2, <3>4
  <2> QED
    BY <1>2, <2>1, <2>2
<1>6. loaded \in Int /\ log_level' \in Int
  <2>1. loaded \in Int
    BY <1>2, HandlerFields DEF LevelTypeOK
  <2> HIDE DEF loaded
  <2> QED
    BY <1>3, <2>1 DEF Changed
<1>7. LevelTypeOK'
  <2>1. lost' \in [Signals -> Int]
    BY <1>4, <1>5 DEF LevelTypeOK
  <2>2. Nested'
    BY <1>4, <1>5 DEF Nested
  <2> QED
    BY <1>1, <1>6, <2>1, <2>2 DEF LevelTypeOK
<1>8. \A r : /\ Under(h, r) <=> r = h.num
             /\ ~Under(g, r)
  BY <1>3, <1>4 DEF Under
<1>9. \A r \in Signals : Handled(r) \in Int /\ lost[r] \in Int
  BY NetTyped DEF LevelTypeOK
<1>10. LevelTypeOK
  OBVIOUS
<1> HIDE DEF Handled
<1>11. CASE handlers = <<h>> /\ handlers' = <<g>> /\ lost' = lost
  <2>1. /\ handlers # <<>> /\ handlers[1] = h /\ DOMAIN handlers = {1} /\ Len(handlers) = 1
        /\ handlers' # <<>> /\ handlers'[1] = g /\ Len(handlers') = 1 /\ DOMAIN handlers' = {1}
    BY <1>11, Stacks
  <2>2. \A r \in Signals : Pending(r) = (IF r = h.num THEN 1 ELSE 0) /\ Pending(r)' = 0
    BY <1>8, <1>11, PendingFacts, PendingAfter
  <2>3. \A x, y \in Int : x - 0 - y = (x - 1 - y) + 1
    OBVIOUS
  <2>4. Net(h.num)' = Net(h.num) + 1 /\ \A r \in Signals : r # h.num => Net(r)' = Net(r)
    BY <1>1, <1>4, <1>9, <1>11, <2>2, <2>3, HandledSame DEF Net
  <2>5. Counted' = Changed(h.num, Counted)
    BY <1>4, <1>7, <1>10, <2>4, CountedOnce
  <2> HIDE DEF Counted
  <2>6. loaded = Counted
    BY <2>1 DEF LevelKept
  <2> HIDE DEF loaded
  <2>7. LevelKept'
    BY <1>3, <1>4, <2>1, <2>5, <2>6 DEF LevelKept
  <2>8. LostToOthers'
    BY <1>1, <1>4, <1>11, <2>1, HandledSame DEF LostToOthers
  <2> QED
    BY <1>7, <2>7, <2>8
<1>12. CASE \E a \in Handler :
            /\ a.num # h.num /\ handlers = <<a, h>> /\ handlers' = <<a, g>>
            /\ lost' = IF a.at = "loaded" THEN [lost EXCEPT ![h.num] = @ + 1] ELSE lost
  <2>1. PICK a \in Handler :
            /\ a.num # h.num /\ handlers = <<a, h>> /\ handlers' = <<a, g>>
            /\ lost' = IF a.at = "loaded" THEN [lost EXCEPT ![h.num] = @ + 1] ELSE lost
    BY <1>12
  <2>2. /\ handlers # <<>> /\ handlers[1] = a /\ handlers[2] = h /\ DOMAIN handlers = {1, 2}
        /\ Len(handlers) = 2
        /\ handlers' # <<>> /\ handlers'[1] = a /\ handlers'[2] = g /\ DOMAIN handlers' = {1, 2}
    BY <2>1, Stacks
  <2>3. Pending(h.num) = 1 /\ Pending(h.num)' = 0
    <3>1. ~Under(a, h.num)
      BY <2>1 DEF Under
    <3> QED
      BY <1>8, <2>1, <3>1, PendingFacts, PendingAfter
  <2>4. \A r \in Signals : r # h.num => Pending(r)' = Pending(r)
    BY <1>8, <2>1, PendingFacts, PendingAfter
  <2>5. \A r \in Signals : r # h.num => Net(r)' = Net(r)
    <3>1. \A r \in Signals : r # h.num => lost'[r] = lost[r]
      BY <1>4, <2>1 DEF LevelTypeOK
    <3> QED
      BY <1>1, <2>4, <3>1, HandledSame DEF Net
  <2>6. \A k \in {1, 2} : Handled(handlers[k].num) > 0
    BY <2>2 DEF LostToOthers
  <2>7. Handled(a.num) > 0 /\ Handled(h.num) > 0
    BY <2>2, <2>6
  <2>8. \A r \in Signals : Handled(r) > 0
    <3>1. a.num \in {41, 42} /\ h.num \in {41, 42}
      BY <1>4, HandlerFields DEF Signals
    <3> QED
      BY <2>1, <2>7, <3>1 DEF Signals
  <2>9. LostToOthers'
    <3>1. \A r \in Signals : Handled(r)' > 0
      BY <1>1, <2>8, HandledSame
    <3>2. ~(\E r \in Signals : Handled(r)' = 0) /\ \A r \in Signals : Handled(r)' >= 0
      BY <1>1, <1>9, <2>8, HandledSame
    <3>3. \A k \in DOMAIN handlers' : (Handled(handlers[k].num))' > 0
      BY <1>1, <1>4, <2>2, <2>7, HandledSame
    <3> QED
      BY <3>2, <3>3 DEF LostToOthers
  <2>10. CASE a.at = "loaded"
    <3>1. lost'[h.num] = lost[h.num] + 1
      BY <1>4, <2>1, <2>10 DEF LevelTypeOK
    <3>2. \A x, y \in Int : x - 0 - (y + 1) = x - 1 - y
      OBVIOUS
    <3>3. Net(h.num)' = Net(h.num)
      BY <1>1, <1>4, <1>9, <2>3, <3>1, <3>2, HandledSame DEF Net
    <3>4. Counted' = Counted
      BY <2>5, <3>3, CountedSame
    <3> HIDE DEF Counted
    <3>5. LevelKept'
      BY <2>2, <2>10, <3>4 DEF LevelKept
    <3> QED
      BY <1>7, <2>9, <3>5
  <2>11. CASE a.at # "loaded"
    <3>1. lost' = lost
      BY <2>1, <2>11
    <3>2. \A x, y \in Int : x - 0 - y = (x - 1 - y) + 1
      OBVIOUS
    <3>3. Net(h.num)' = Net(h.num) + 1
      BY <1>1, <1>4, <1>9, <2>3, <3>1, <3>2, HandledSame DEF Net
    <3>4. Counted' = Changed(h.num, Counted)
      BY <1>4, <1>7, <1>10, <2>5, <3>3, CountedOnce
    <3> HIDE DEF Counted
    <3>5. loaded = Counted
      BY <2>2, <2>11 DEF LevelKept
    <3> HIDE DEF loaded
    <3>6. LevelKept'
      BY <1>3, <1>4, <2>2, <2>11, <3>4, <3>5 DEF LevelKept
    <3> QED
      BY <1>7, <2>9, <3>6
  <2> QED
    BY <2>10, <2>11
<1> QED
  BY <1>5, <1>11, <1>12

(* However the signals and their handlers come between each other: while   *)
(* main runs, log_level is what the handled signals make of it, but for    *)
(* those counted as lost, and none is lost unless both kinds have come     *)
(* (signal_test.cpp:17-19).                                                *)
THEOREM LevelFollows == LevelSpec => []LevelFollowsSignals
<1>1. LevelInit => LevelIInv
  <2> SUFFICES ASSUME LevelInit
               PROVE  LevelIInv
    OBVIOUS
  <2>1. LevelTypeOK
    BY DEF LevelInit, LevelTypeOK, Nested
  <2>2. \A s \in Signals : sent[s] = 0 /\ queued[s] = 0 /\ lost[s] = 0 /\ Pending(s) = 0
    BY PendingFacts DEF LevelInit
  <2>3. \A s \in Signals : Handled(s) = 0 /\ Net(s) = 0
    BY <2>2 DEF Handled, Net
  <2>4. Counted = 2
    BY <2>3 DEF Counted, Signals
  <2> HIDE DEF Counted, Handled
  <2>5. handlers = <<>> /\ log_level = 2 /\ DOMAIN handlers = {} /\ Len(handlers) = 0
    BY DEF LevelInit
  <2> QED
    BY <2>1, <2>2, <2>3, <2>4, <2>5 DEF LevelIInv, LevelKept, LostToOthers
<1>2. LevelIInv /\ [LevelNext]_levelVars => LevelIInv'
  <2> SUFFICES ASSUME LevelIInv, [LevelNext]_levelVars
               PROVE  LevelIInv'
    OBVIOUS
  <2>1. CASE UNCHANGED levelVars
    BY <2>1 DEF levelVars, LevelIInv, LevelTypeOK, Nested, LevelKept, LostToOthers, Counted, Net,
               Pending, Handled
  <2> QED
    BY <2>1, KillKeeps, DeliverKeeps, LoadKeeps, StoreKeeps, ReturnKeeps DEF LevelNext
<1>3. LevelIInv => LevelFollowsSignals
  <2> SUFFICES ASSUME LevelIInv, handlers = <<>>
               PROVE  LET handled == [s \in Signals |-> sent[s] - queued[s]]
                      IN /\ log_level = 2 + (handled[42] - lost[42]) - (handled[41] - lost[41])
                         /\ (\E s \in Signals : handled[s] = 0) => \A s \in Signals : lost[s] = 0
    BY DEF LevelFollowsSignals
  <2>1. log_level = Counted
    BY DEF LevelIInv, LevelKept
  <2>2. \A s \in Signals : Pending(s) = 0
    BY PendingFacts
  <2>3. \A s \in Signals : Handled(s) \in Int /\ lost[s] \in Int
    BY NetTyped DEF LevelIInv, LevelTypeOK
  <2>4. \A x, y \in Int : x - 0 - y = x - y
    OBVIOUS
  <2>5. \A s \in Signals : Net(s) = Handled(s) - lost[s]
    BY <2>2, <2>3, <2>4 DEF Net
  <2>6. log_level = 2 + (Handled(42) - lost[42]) - (Handled(41) - lost[41])
    BY <2>1, <2>5 DEF Counted, Signals
  <2>7. (\E s \in Signals : Handled(s) = 0) => \A s \in Signals : lost[s] = 0
    BY DEF LevelIInv, LostToOthers
  <2> DEFINE handled == [s \in Signals |-> sent[s] - queued[s]]
  <2>8. \A s \in Signals : handled[s] = Handled(s)
    BY DEF Handled
  <2> HIDE DEF handled
  <2>9. log_level = 2 + (handled[42] - lost[42]) - (handled[41] - lost[41])
    BY <2>6, <2>8 DEF Signals
  <2>10. (\E s \in Signals : handled[s] = 0) => \A s \in Signals : lost[s] = 0
    BY <2>7, <2>8
  <2> QED
    BY <2>9, <2>10 DEF handled
<1> QED
  BY <1>1, <1>2, <1>3, PTL DEF LevelSpec

-----------------------------------------------------------------------------
(***************************************************************************)
(* clean_data                                                              *)

DataSpec(directories, garbage) == DataInit(directories, garbage) /\ [][DataNext]_dataVars

Read == {block[k] : k \in DOMAIN block}
Listed == {block[file_name[k]] : k \in DOMAIN file_name}

DataTypeOK ==
    /\ tmp_str \in Nat /\ DOMAIN block = 0 .. tmp_str - 1
    /\ file_name \in Seq(DOMAIN block) /\ unread \subseteq DOMAIN entries
    /\ dirp = <<>> \/ \E name : dirp = <<name>>

(* No name is read twice.                                                  *)
ReadOnce ==
    /\ Read \cap unread = {}
    /\ \A name : dirp = <<name>> => name \notin Read \cup unread

ListedOnce ==
    /\ \A name \in Read \ gone : name \in Listed <=> entries[name] = "file"
    /\ DOMAIN entries \subseteq Read \cup gone \cup unread \cup ToSet(dirp)
    /\ IsFiniteSet(Listed) /\ Len(file_name) = Cardinality(Listed)

DataIInv == DataTypeOK /\ ReadOnce /\ ListedOnce

LEMMA OneName == \A name : <<name>> # <<>> /\ <<name>>[1] = name /\ ToSet(<<name>>) = {name}
<1>1. ASSUME NEW name
      PROVE  <<name>> # <<>> /\ <<name>>[1] = name /\ DOMAIN <<name>> = {1}
  OBVIOUS
<1> QED
  BY <1>1 DEF ToSet

LEMMA NoName == ToSet(<<>>) = {}
<1>1. DOMAIN <<>> = {}
  OBVIOUS
<1> QED
  BY <1>1 DEF ToSet

(* The path of a name lies behind those that were written before it.       *)
LEMMA BlockGrows ==
    ASSUME tmp_str \in Nat, DOMAIN block = 0 .. tmp_str - 1
    PROVE  /\ DOMAIN WithPath = 0 .. tmp_str /\ WithPath[tmp_str] = dirp[1]
           /\ \A place \in DOMAIN block : WithPath[place] = block[place]
<1>1. DOMAIN block \cup {tmp_str} = 0 .. tmp_str /\ tmp_str \notin DOMAIN block
  OBVIOUS
<1> QED
  BY <1>1 DEF WithPath

LEMMA StatKeeps ==
    ASSUME DataIInv, Stat
    PROVE  DataIInv'
<1> USE DEF DataIInv
<1>1. PICK name : dirp = <<name>> /\ dirp[1] = name
  BY OneName DEF Stat, DataTypeOK
<1>2. /\ block' = WithPath
      /\ st' = IF name \in gone THEN st ELSE entries[name]
      /\ file_name' = IF st' = "file" THEN Append(file_name, tmp_str) ELSE file_name
      /\ tmp_str' = tmp_str + 1 /\ dirp' = <<>> /\ UNCHANGED <<entries, gone, unread>>
  BY <1>1 DEF Stat
<1>3. tmp_str \in Nat /\ DOMAIN block = 0 .. tmp_str - 1
  BY DEF DataTypeOK
<1>4. /\ DOMAIN block' = 0 .. tmp_str /\ block'[tmp_str] = name
      /\ \A j \in DOMAIN block : block'[j] = block[j]
  BY <1>1, <1>2, <1>3, BlockGrows
<1>5. DOMAIN block' = DOMAIN block \cup {tmp_str} /\ tmp_str \notin DOMAIN block
  BY <1>3, <1>4
<1>6. name \notin Read \cup unread
  BY <1>1 DEF ReadOnce
<1>7. Read' = Read \cup {name}
  <2>1. Read' = {block'[k] : k \in DOMAIN block'}
    BY DEF Read
  <2>2. Read' = {block'[k] : k \in DOMAIN block} \cup {block'[tmp_str]}
    BY <1>5, <2>1, Zenon
  <2>3. {block'[k] : k \in DOMAIN block} = {block[k] : k \in DOMAIN block}
    BY <1>4, Zenon
  <2> QED
    BY <1>4, <2>2, <2>3 DEF Read
<1>8. file_name \in Seq(DOMAIN block)
  BY DEF DataTypeOK
<1>9. \A k \in DOMAIN file_name : file_name[k] \in DOMAIN block
  BY <1>8
<1>10. Listed \subseteq Read
  BY <1>9 DEF Read, Listed
<1>11. IF st' = "file" THEN Listed' = Listed \cup {name} ELSE Listed' = Listed
  <2>1. CASE st' # "file"
    <3>1. file_name' = file_name
      BY <1>2, <2>1
    <3> QED
      BY <1>4, <1>9, <2>1, <3>1 DEF Listed
  <2>2. CASE st' = "file"
    <3>1. file_name' = Append(file_name, tmp_str)
      BY <1>2, <2>2
    <3>2. PICK n \in Nat : n = Len(file_name)
      BY <1>8
    <3>3. DOMAIN file_name = 1 .. n /\ file_name \in Seq(DOMAIN block \cup {tmp_str})
      BY <1>8, <3>2
    <3>4. /\ DOMAIN file_name' = 1 .. n + 1 /\ file_name'[n + 1] = tmp_str
          /\ \A k \in 1 .. n : file_name'[k] = file_name[k]
      BY <3>1, <3>2, <3>3, AppendProperties
    <3>5. 1 .. n + 1 = 1 .. n \cup {n + 1}
      BY <3>2
    <3>6. \A k \in 1 .. n : block'[file_name'[k]] = block[file_name[k]]
      BY <1>4, <1>9, <3>3, <3>4
    <3>7. block'[file_name'[n + 1]] = name
      BY <1>4, <3>4
    <3> QED
      BY <2>2, <3>3, <3>4, <3>5, <3>6, <3>7 DEF Listed
  <2> QED
    BY <2>1, <2>2
<1>12. DataTypeOK'
  <2>1. file_name' \in Seq(DOMAIN block')
    <3>1. file_name \in Seq(DOMAIN block') /\ tmp_str \in DOMAIN block'
      BY <1>5, <1>8
    <3>2. Append(file_name, tmp_str) \in Seq(DOMAIN block')
      BY <3>1, AppendProperties
    <3>3. file_name' = file_name \/ file_name' = Append(file_name, tmp_str)
      BY <1>2
    <3> QED
      BY <3>1, <3>2, <3>3
  <2> QED
    BY <1>2, <1>3, <1>4, <2>1 DEF DataTypeOK
<1>13. ReadOnce'
  <2>1. Read' \cap unread' = {}
    BY <1>2, <1>6, <1>7 DEF ReadOnce
  <2>2. \A n : dirp' # <<n>>
    BY <1>2, OneName
  <2> QED
    BY <2>1, <2>2 DEF ReadOnce
<1>14. ListedOnce'
  <2>1. ASSUME NEW n \in Read' \ gone'
        PROVE  n \in Listed' <=> entries'[n] = "file"
    <3>1. CASE n = name
      <4>1. n \notin Listed /\ st' = entries'[n]
        BY <1>2, <1>6, <1>10, <2>1, <3>1
      <4> QED
        BY <1>11, <3>1, <4>1
    <3>2. CASE n # name
      <4>1. n \in Read \ gone /\ (n \in Listed' <=> n \in Listed)
        BY <1>2, <1>7, <1>11, <2>1, <3>2
      <4> QED
        BY <1>2, <4>1 DEF ListedOnce
    <3> QED
      BY <3>1, <3>2
  <2>2. DOMAIN entries' \subseteq Read' \cup gone' \cup unread' \cup ToSet(dirp)'
    <3>1. ToSet(dirp) = {name}
      BY <1>1, OneName
    <3> QED
      BY <1>2, <1>7, <3>1 DEF ListedOnce
  <2>3. IsFiniteSet(Listed') /\ Len(file_name') = Cardinality(Listed')
    <3>1. IsFiniteSet(Listed) /\ Len(file_name) = Cardinality(Listed)
      BY DEF ListedOnce
    <3>2. CASE st' = "file"
      <4>1. name \notin Listed /\ Listed' = Listed \cup {name}
        BY <1>6, <1>10, <1>11, <3>2
      <4>2. IsFiniteSet(Listed') /\ Cardinality(Listed') = Cardinality(Listed) + 1
        BY <3>1, <4>1, FS_AddElement
      <4>3. file_name \in Seq(DOMAIN block \cup {tmp_str}) /\ tmp_str \in DOMAIN block \cup {tmp_str}
        BY <1>8
      <4>4. Len(file_name') = Len(file_name) + 1
        BY <1>2, <3>2, <4>3, AppendProperties
      <4> QED
        BY <3>1, <4>2, <4>4
    <3>3. CASE st' # "file"
      BY <1>2, <1>11, <3>1, <3>3
    <3> QED
      BY <3>2, <3>3
  <2> QED
    BY <2>1, <2>2, <2>3 DEF ListedOnce
<1> QED
  BY <1>12, <1>13, <1>14

(* Whatever others remove meanwhile: the list holds, once each, the        *)
(* regular files that readdir returned; only for a name that was removed   *)
(* may st be the one of the name before it (clean_data.cpp:63-72).         *)
THEOREM ListIsRegular ==
    ASSUME NEW directories, NEW garbage
    PROVE  DataSpec(directories, garbage) => []ListedRegular
<1>1. DataInit(directories, garbage) => DataIInv
  <2> SUFFICES ASSUME DataInit(directories, garbage)
               PROVE  DataIInv
    OBVIOUS
  <2>1. /\ unread = DOMAIN entries /\ dirp = <<>> /\ tmp_str = 0
        /\ block = <<>> /\ file_name = <<>>
    BY DEF DataInit
  <2>2. DOMAIN <<>> = {} /\ 0 .. 0 - 1 = {} /\ Len(<<>>) = 0 /\ <<>> \in Seq({})
    OBVIOUS
  <2>3. Read = {} /\ Listed = {}
    BY <2>1, <2>2 DEF Read, Listed
  <2>4. DataTypeOK
    BY <2>1, <2>2 DEF DataTypeOK
  <2>5. ReadOnce
    BY <2>1, <2>3, OneName DEF ReadOnce
  <2>6. ListedOnce
    BY <2>1, <2>2, <2>3, FS_EmptySet DEF ListedOnce
  <2> QED
    BY <2>4, <2>5, <2>6 DEF DataIInv
<1>2. DataIInv /\ [DataNext]_dataVars => DataIInv'
  <2> SUFFICES ASSUME DataIInv, [DataNext]_dataVars
               PROVE  DataIInv'
    OBVIOUS
  <2> USE DEF DataIInv
  <2>1. CASE Readdir
    <3>1. PICK name \in unread : dirp' = <<name>> /\ unread' = unread \ {name}
      BY <2>1 DEF Readdir
    <3>2. dirp = <<>> /\ UNCHANGED <<entries, gone, tmp_str, block, st, file_name>>
      BY <2>1 DEF Readdir
    <3>3. Read' = Read /\ Listed' = Listed
      BY <3>2 DEF Read, Listed
    <3>4. DataTypeOK'
      BY <3>1, <3>2 DEF DataTypeOK
    <3>5. ReadOnce'
      <4>1. \A n : dirp' = <<n>> => n = name
        BY <3>1, OneName
      <4> QED
        BY <3>1, <3>3, <4>1 DEF ReadOnce
    <3>6. ToSet(dirp) = {} /\ ToSet(dirp)' = {name}
      BY <3>1, <3>2, OneName, NoName
    <3>7. ListedOnce'
      BY <3>1, <3>2, <3>3, <3>6 DEF ListedOnce
    <3> QED
      BY <3>4, <3>5, <3>7
  <2>2. CASE Stat
    BY <2>2, StatKeeps
  <2>3. CASE RemoveByOthers
    <3>1. PICK name \in DOMAIN entries \ gone :
             gone' = gone \cup {name} /\ unread' \in {unread, unread \ {name}}
      BY <2>3 DEF RemoveByOthers
    <3>2. UNCHANGED <<entries, dirp, tmp_str, block, st, file_name>>
      BY <2>3 DEF RemoveByOthers
    <3>3. Read' = Read /\ Listed' = Listed
      BY <3>2 DEF Read, Listed
    <3>4. unread' \subseteq unread
      BY <3>1
    <3>5. DataTypeOK' /\ ReadOnce'
      BY <3>2, <3>3, <3>4 DEF DataTypeOK, ReadOnce
    <3>6. ToSet(dirp)' = ToSet(dirp)
      BY <3>2
    <3>7. ListedOnce'
      BY <3>1, <3>2, <3>3, <3>6 DEF ListedOnce
    <3> QED
      BY <3>5, <3>7
  <2>4. CASE UNCHANGED dataVars
    BY <2>4 DEF dataVars, DataTypeOK, ReadOnce, ListedOnce, Read, Listed
  <2> QED
    BY <2>1, <2>2, <2>3, <2>4 DEF DataNext
<1>3. DataIInv => ListedRegular
  BY DEF DataIInv, ListedOnce, ListedRegular, Read, Listed
<1> QED
  BY <1>1, <1>2, <1>3, PTL DEF DataSpec

-----------------------------------------------------------------------------
(***************************************************************************)
(* server and client                                                       *)

ServerSpec(lengths) == ServerInit(lengths) /\ [][ServerNext]_serverVars

Content == {NUL, Junk} \cup (Clients \X Nat)

ServerTypeOK ==
    /\ sendline \in [Clients -> Nat] /\ DOMAIN wire = Clients
    /\ \A c \in Clients : wire[c] \in {<<>>, Line(c)}
    /\ backlog \in Seq(Clients)
    /\ connfd = <<>> \/ \E c \in Clients : connfd = <<c>>
    /\ buff \in [Cells -> Content]
    /\ printed \in Seq(Clients \X Int \X {Printed(b) : b \in [Cells -> Content]})

(* The connections before the k-th on which recv did not fail, and that    *)
(* the last of them was printed as the text.                               *)
Good(k) == {j \in 1 .. k - 1 : printed[j][2] >= 0}
LastGood(k, text) ==
    Good(k) # {} =>
        \E m \in Good(k) : (\A j \in Good(k) : j <= m) /\ printed[m][3] = text

OwnText(k) ==
    printed[k][2] >= 0 =>
        /\ printed[k][2] < MaxLine
        /\ printed[k][3] = SubSeq(Line(printed[k][1]), 1, printed[k][2])

Texts ==
    /\ \A k \in DOMAIN printed : OwnText(k) /\ (printed[k][2] < 0 => LastGood(k, printed[k][3]))
    /\ LastGood(Len(printed) + 1, Printed(buff))

ServerIInv == ServerTypeOK /\ Texts

LEMMA MaxIs ==
    ASSUME NEW S \in SUBSET Int, NEW m \in S, \A j \in S : j <= m
    PROVE  Max(S) = m
<1>1. \A x \in S : (\A y \in S : x >= y) => x = m
  OBVIOUS
<1>2. \A y \in S : m >= y
  OBVIOUS
<1> QED
  BY <1>1, <1>2 DEF Max

LEMMA MinIs ==
    ASSUME NEW S \in SUBSET Int, NEW m \in S, \A j \in S : j >= m
    PROVE  Min(S) = m
<1>1. \A x \in S : (\A y \in S : x <= y) => x = m
  OBVIOUS
<1>2. \A y \in S : m <= y
  OBVIOUS
<1> QED
  BY <1>1, <1>2 DEF Min

(* The lines fit the buffer, with a place for the NUL.                     *)
LEMMA LineFits ==
    ASSUME ServerTypeOK, NEW c \in Clients
    PROVE  \E len \in Nat :
              /\ len < MaxLine /\ Line(c) = [k \in 1 .. len |-> <<c, k>>]
              /\ Line(c) \in Seq(Clients \X Nat) /\ Len(Line(c)) = len
<1>1. sendline[c] \in Nat /\ MaxLine \in Nat /\ MaxLine > 0
  BY ServerAssumption DEF ServerTypeOK
<1>2. PICK typed \in Nat : typed = sendline[c]
  BY <1>1
<1>3. PICK len \in Nat : len = Fgets(typed) /\ len < MaxLine
  BY <1>1 DEF Fgets
<1>4. Line(c) = [k \in 1 .. len |-> <<c, k>>]
  BY <1>2, <1>3 DEF Line
<1>5. [k \in 1 .. len |-> <<c, k>>] \in Seq(Clients \X Nat) /\ Len([k \in 1 .. len |-> <<c, k>>]) = len
  <2>1. \A k \in 1 .. len : <<c, k>> \in Clients \X Nat
    OBVIOUS
  <2> QED
    BY <2>1
<1> QED
  BY <1>3, <1>4, <1>5

(* What recv can return is -1, or the number of the first characters of    *)
(* the client's line.                                                      *)
LEMMA ReceivedFits ==
    ASSUME ServerTypeOK, NEW c \in Clients, NEW n \in Received(c)
    PROVE  \/ n = -1
           \/ /\ n \in Nat /\ n < MaxLine /\ n <= Len(Line(c))
              /\ \A k \in 1 .. n : wire[c][k] = <<c, k>> /\ Line(c)[k] = <<c, k>>
<1>1. PICK len \in Nat :
         /\ len < MaxLine /\ Line(c) = [k \in 1 .. len |-> <<c, k>>]
         /\ Line(c) \in Seq(Clients \X Nat) /\ Len(Line(c)) = len
  BY LineFits
<1>2. \/ n = -1 \/ n = 0
      \/ wire[c] # <<>> /\ n \in 1 .. Len(wire[c])
  BY DEF Received
<1>3. CASE n = 0
  BY <1>1, <1>3, ServerAssumption
<1>4. CASE wire[c] # <<>> /\ n \in 1 .. Len(wire[c])
  <2>1. wire[c] = Line(c)
    BY <1>4 DEF ServerTypeOK
  <2>2. n \in 1 .. len
    BY <1>1, <1>4, <2>1
  <2>3. \A k \in 1 .. n : k \in 1 .. len
    BY <2>2
  <2>4. \A k \in 1 .. len : Line(c)[k] = <<c, k>>
    BY <1>1
  <2>5. n \in Nat /\ n < MaxLine /\ n <= len
    BY <1>1, <2>2, ServerAssumption
  <2> QED
    BY <1>1, <2>1, <2>3, <2>4, <2>5
<1> QED
  BY <1>2, <1>3, <1>4

(* The NUL ends the text that was received.                                *)
LEMMA FilledText ==
    ASSUME ServerTypeOK, NEW c \in Clients, NEW n \in Received(c), n # -1
    PROVE  /\ n \in Nat /\ n < MaxLine /\ Filled(c, n) \in [Cells -> Content]
           /\ Printed(Filled(c, n)) = SubSeq(Line(c), 1, n)
<1>1. /\ n \in Nat /\ n < MaxLine /\ n <= Len(Line(c)) /\ MaxLine \in Nat
      /\ \A k \in 1 .. n : wire[c][k] = <<c, k>> /\ Line(c)[k] = <<c, k>>
  BY ReceivedFits, ServerAssumption
<1> DEFINE b == Filled(c, n)
           nuls == {k \in Cells : b[k] = NUL} \cup {MaxLine}
<1>2. /\ n \in Cells /\ b[n] = NUL
      /\ \A k \in Cells : k < n => b[k] = <<c, k + 1>>
  <2>1. \A k \in Cells : k \in Nat /\ k < MaxLine
    BY <1>1 DEF Cells
  <2>2. n \in Cells
    BY <1>1 DEF Cells
  <2>3. b[n] = NUL
    BY <1>1, <2>2 DEF Filled
  <2>4. ASSUME NEW k \in Cells, k < n
        PROVE  b[k] = <<c, k + 1>>
    <3>1. k # n /\ k + 1 \in 1 .. n
      BY <1>1, <2>1, <2>4
    <3>2. b[k] = wire[c][k + 1]
      BY <2>4, <3>1 DEF Filled
    <3> QED
      BY <1>1, <3>1, <3>2
  <2> QED
    BY <2>2, <2>3, <2>4
<1>3. b \in [Cells -> Content]
  <2>1. ASSUME NEW k \in Cells
        PROVE  (CASE k = n -> NUL [] k < n -> wire[c][k + 1] [] OTHER -> buff[k]) \in Content
    <3>1. CASE k = n
      <4>1. k \in Int /\ n \in Int /\ ~(k < n)
        BY <1>1, <3>1 DEF Cells
      <4> QED
        BY <3>1, <4>1 DEF Content
    <3>2. CASE k # n /\ k < n
      <4>1. k + 1 \in 1 .. n /\ k + 1 \in Nat
        BY <1>1, <3>2 DEF Cells
      <4>2. wire[c][k + 1] = <<c, k + 1>>
        BY <1>1, <4>1
      <4> QED
        BY <3>2, <4>1, <4>2 DEF Content
    <3>3. CASE k # n /\ ~(k < n)
      BY <3>3 DEF ServerTypeOK
    <3> QED
      BY <3>1, <3>2, <3>3
  <2> QED
    BY <2>1 DEF Filled
<1> HIDE DEF b
<1>4. Min(nuls) = n
  <2>1. nuls \subseteq Int
    BY <1>1 DEF Cells
  <2>2. n \in nuls
    BY <1>2
  <2>3. \A k \in nuls : k >= n
    <3>1. ASSUME NEW k \in Cells, b[k] = NUL, k < n
          PROVE  FALSE
      <4>1. b[k] = <<c, k + 1>>
        BY <1>2, <3>1
      <4>2. <<c, k + 1>> # <<>>
        OBVIOUS
      <4> QED
        BY <3>1, <4>1, <4>2 DEF NUL
    <3>2. \A k \in Cells : k \in Int
      BY <1>1 DEF Cells
    <3> QED
      BY <1>1, <3>1, <3>2
  <2> HIDE DEF nuls
  <2> QED
    BY <2>1, <2>2, <2>3, MinIs
<1>5. Printed(b) = [k \in 1 .. n |-> b[k - 1]]
  BY <1>4 DEF Printed
<1>6. \A k \in 1 .. n : b[k - 1] = Line(c)[k]
  <2>1. ASSUME NEW k \in 1 .. n
        PROVE  b[k - 1] = Line(c)[k]
    <3>1. k - 1 \in Cells /\ k - 1 < n /\ (k - 1) + 1 = k
      BY <1>1 DEF Cells
    <3>2. b[k - 1] = <<c, (k - 1) + 1>>
      BY <1>2, <3>1
    <3> QED
      BY <1>1, <3>1, <3>2
  <2> QED
    BY <2>1
<1>7. SubSeq(Line(c), 1, n) = [k \in 1 .. n |-> Line(c)[k]]
  <2>1. PICK line \in Seq(Clients \X Nat) : line = Line(c)
    BY LineFits
  <2>2. PICK text : text = SubSeq(line, 1, n)
    OBVIOUS
  <2>3. text \in Seq(Clients \X Nat) /\ Len(text) = n /\ \A k \in 1 .. n : text[k] = line[k]
    BY <1>1, <2>1, <2>2, SubSeqProperties
  <2> QED
    BY <1>1, <2>1, <2>2, <2>3
<1> QED
  BY <1>1, <1>3, <1>5, <1>6, <1>7 DEF b

-----------------------------------------------------------------------------
(* Steps that print nothing keep what was printed and what it rests on.    *)
LEMMA TextsSame ==
    ASSUME Texts, UNCHANGED <<sendline, buff, printed>>
    PROVE  Texts'
BY DEF Texts, OwnText, LastGood, Good, Line

(* A recv prints what it received, or once more what was printed last.     *)
LEMMA RecvKeeps ==
    ASSUME ServerIInv, Recv
    PROVE  ServerIInv'
<1> USE DEF ServerIInv
<1>1. PICK c \in Clients : connfd = <<c>> /\ connfd[1] = c
  BY OneName DEF Recv, ServerTypeOK
<1>2. PICK n \in Received(c) :
         /\ buff' = Filled(c, n)
         /\ printed' = Append(printed, <<c, n, Printed(buff')>>)
  BY <1>1 DEF Recv
<1>3. connfd' = <<>> /\ UNCHANGED <<sendline, client, wire, backlog, losses>>
  BY DEF Recv
<1>4. MaxLine \in Nat /\ MaxLine > 0
  BY ServerAssumption
<1>5. n = -1 => buff' = buff
  <2>1. ASSUME n = -1, NEW b \in Cells
        PROVE  (CASE b = n -> NUL [] b < n -> wire[c][b + 1] [] OTHER -> buff[b]) = buff[b]
    <3>1. b # n /\ ~(b < n)
      BY <1>4, <2>1 DEF Cells
    <3> QED
      BY <3>1
  <2>2. buff = [b \in Cells |-> buff[b]]
    BY DEF ServerTypeOK
  <2> QED
    BY <1>2, <2>1, <2>2 DEF Filled
<1>6. n # -1 => /\ n \in Nat /\ n < MaxLine /\ buff' \in [Cells -> Content]
                /\ Printed(buff') = SubSeq(Line(c), 1, n)
  BY <1>2, FilledText
<1>7. n \in Int /\ buff' \in [Cells -> Content] /\ (n >= 0 <=> n # -1)
  BY <1>5, <1>6 DEF ServerTypeOK
<1>text. PICK text : text = Printed(buff')
  OBVIOUS
<1> DEFINE Entries == Clients \X Int \X {Printed(b) : b \in [Cells -> Content]}
<1>8. <<c, n, text>> \in Entries
  <2>1. text \in {Printed(b) : b \in [Cells -> Content]}
    BY <1>7, <1>text
  <2> QED
    BY <1>7, <2>1
<1> DEFINE entry == <<c, n, text>>
<1>9. entry[1] = c /\ entry[2] = n /\ entry[3] = text
  OBVIOUS
<1>10. entry \in Entries /\ printed' = Append(printed, entry)
  BY <1>2, <1>8, <1>text
<1>11. printed \in Seq(Entries)
  BY DEF ServerTypeOK
<1>12. n # -1 => text = SubSeq(Line(c), 1, n)
  BY <1>6, <1>text
<1>13. n = -1 => text = Printed(buff)
  BY <1>5, <1>text
<1> HIDE DEF entry, Entries
<1>14. PICK len \in Nat : len = Len(printed)
  BY <1>11
<1>15. /\ printed' \in Seq(Entries) /\ Len(printed') = len + 1 /\ printed'[len + 1] = entry
       /\ \A k \in 1 .. len : printed'[k] = printed[k]
  BY <1>10, <1>11, <1>14, AppendProperties
<1>16. DOMAIN printed = 1 .. len /\ DOMAIN printed' = 1 .. len + 1
  BY <1>11, <1>14, <1>15
<1>17. ServerTypeOK'
  <2>1. \A d \in Clients : Line(d)' = Line(d)
    BY <1>3 DEF Line
  <2>2. printed' \in Seq(Clients \X Int \X {Printed(b) : b \in [Cells -> Content]})
    BY <1>15 DEF Entries
  <2> QED
    BY <1>3, <1>7, <2>1, <2>2 DEF ServerTypeOK
<1>18. \A k \in 1 .. len + 1 : Good(k)' = Good(k)
  <2>1. ASSUME NEW k \in 1 .. len + 1, NEW j \in 1 .. k - 1
        PROVE  printed'[j] = printed[j]
    <3>1. j \in 1 .. len
      BY <1>14, <2>1
    <3> QED
      BY <1>15, <3>1
  <2> QED
    BY <2>1 DEF Good
<1>19. \A k \in 1 .. len + 1 : Good(k) \subseteq 1 .. len
  BY <1>14 DEF Good
<1>20. \A k \in 1 .. len + 1 : \A any : LastGood(k, any) =>
          (Good(k)' # {} => \E m \in Good(k)' : (\A j \in Good(k)' : j <= m) /\ printed'[m][3] = any)
  <2>1. ASSUME NEW k \in 1 .. len + 1, NEW any, LastGood(k, any), Good(k) # {}
        PROVE  \E m \in Good(k) : (\A j \in Good(k) : j <= m) /\ printed'[m][3] = any
    <3>1. PICK m \in Good(k) : (\A j \in Good(k) : j <= m) /\ printed[m][3] = any
      BY <2>1 DEF LastGood
    <3>2. printed'[m] = printed[m]
      BY <1>15, <1>19, <3>1
    <3> QED
      BY <3>1, <3>2
  <2> QED
    BY <1>18, <2>1
<1>21. LastGood(len + 1, Printed(buff))
  BY <1>14 DEF Texts
<1>22. ASSUME NEW k \in 1 .. len
       PROVE  OwnText(k)' /\ ((printed[k][2] < 0)' => LastGood(k, printed[k][3])')
  <2>1. printed'[k] = printed[k] /\ k \in 1 .. len + 1
    BY <1>14, <1>15
  <2>2. OwnText(k) /\ (printed[k][2] < 0 => LastGood(k, printed[k][3]))
    BY <1>16 DEF Texts
  <2>3. OwnText(k)'
    BY <1>3, <2>1, <2>2 DEF OwnText, Line
  <2>4. (printed[k][2] < 0)' => LastGood(k, printed[k][3])'
    BY <1>20, <2>1, <2>2 DEF LastGood
  <2> QED
    BY <2>3, <2>4
<1>23. OwnText(len + 1)'
  <2>1. \A d : Line(d)' = Line(d)
    BY <1>3 DEF Line
  <2> HIDE DEF Line
  <2>2. printed'[len + 1][1] = c /\ printed'[len + 1][2] = n /\ printed'[len + 1][3] = text
    BY <1>9, <1>15
  <2>3. n >= 0 => n < MaxLine /\ text = SubSeq(Line(c), 1, n)
    BY <1>6, <1>7, <1>12
  <2> QED
    BY <2>1, <2>2, <2>3 DEF OwnText
<1>24. (printed[len + 1][2] < 0)' => LastGood(len + 1, printed[len + 1][3])'
  <2>1. printed'[len + 1][2] = n /\ printed'[len + 1][3] = text
    BY <1>9, <1>15
  <2>2. n < 0 => LastGood(len + 1, text)'
    <3>1. n < 0 => LastGood(len + 1, text)
      BY <1>7, <1>13, <1>21
    <3>2. len + 1 \in 1 .. len + 1
      BY <1>14
    <3> QED
      BY <1>20, <3>1, <3>2 DEF LastGood
  <2> QED
    BY <2>1, <2>2
<1>25. LastGood(Len(printed) + 1, Printed(buff))'
  <2>1. SUFFICES LastGood((len + 1) + 1, text)'
    BY <1>15, <1>text DEF LastGood, Good
  <2>2. 1 .. (len + 1) + 1 - 1 = 1 .. len + 1
    BY <1>14
  <2>3. Good((len + 1) + 1)' = {j \in 1 .. len + 1 : printed'[j][2] >= 0}
    BY <2>2 DEF Good
  <2>4. len + 1 \in 1 .. len + 1 /\ printed'[len + 1][2] = n /\ printed'[len + 1][3] = text
    BY <1>9, <1>14, <1>15
  <2>5. CASE n >= 0
    <3>1. len + 1 \in Good((len + 1) + 1)'
      BY <2>3, <2>4, <2>5
    <3>2. \A j \in Good((len + 1) + 1)' : j <= len + 1
      BY <1>14, <2>3
    <3> QED
      BY <2>4, <3>1, <3>2 DEF LastGood
  <2>6. CASE n = -1
    <3>1. Good((len + 1) + 1)' = Good(len + 1)
      <4>1. \A j \in 1 .. len + 1 : j \in 1 .. len \/ j = len + 1
        BY <1>14
      <4>2. Good(len + 1) = {j \in 1 .. len : printed[j][2] >= 0}
        <5>1. (len + 1) - 1 = len
          BY <1>14
        <5> QED
          BY <5>1 DEF Good
      <4>3. \A j \in 1 .. len : j \in 1 .. len + 1
        BY <1>14
      <4>4. ~(n >= 0)
        BY <2>6
      <4> QED
        BY <1>15, <2>3, <2>4, <4>1, <4>2, <4>3, <4>4
    <3>2. LastGood(len + 1, text)
      BY <1>13, <1>21, <2>6
    <3>3. len + 1 \in 1 .. len + 1
      BY <1>14
    <3> QED
      BY <1>18, <1>20, <3>1, <3>2, <3>3 DEF LastGood
  <2> QED
    BY <1>7, <2>5, <2>6
<1>26. Texts'
  <2>1. \A k \in 1 .. len + 1 : k \in 1 .. len \/ k = len + 1
    BY <1>14
  <2>2. ASSUME NEW k \in 1 .. len + 1
        PROVE  OwnText(k)' /\ ((printed[k][2] < 0)' => LastGood(k, printed[k][3])')
    BY <1>22, <1>23, <1>24, <2>1
  <2> QED
    BY <1>16, <1>25, <2>2 DEF Texts
<1> QED
  BY <1>17, <1>26

(* What the clients do, and a connection that is accepted, keep the wires  *)
(* either empty or with the client's own line on them.                     *)
LEMMA ClientsKeep ==
    ASSUME ServerIInv,
           Accept \/ \E c \in Clients : Connect(c) \/ Send(c) \/ CloseClient(c) \/ Break(c)
    PROVE  ServerIInv'
<1> USE DEF ServerIInv
<1>1. UNCHANGED <<sendline, buff, printed>>
  BY DEF Accept, Connect, Send, CloseClient, Break
<1>2. Texts'
  BY <1>1, TextsSame
<1>3. \A d \in Clients : Line(d)' = Line(d)
  BY <1>1 DEF Line
<1> HIDE DEF Line
<1>4. CASE Accept
  <2>1. /\ backlog # <<>> /\ connfd' = <<Head(backlog)>> /\ backlog' = Tail(backlog) /\ UNCHANGED wire
    BY <1>4 DEF Accept
  <2>2. Head(backlog) \in Clients /\ Tail(backlog) \in Seq(Clients)
    BY <2>1 DEF ServerTypeOK
  <2> QED
    BY <1>1, <1>2, <1>3, <2>1, <2>2 DEF ServerTypeOK
<1>5. ASSUME NEW c \in Clients, Connect(c)
      PROVE  ServerIInv'
  BY <1>1, <1>2, <1>3, <1>5 DEF Connect, ServerTypeOK
<1>6. ASSUME NEW c \in Clients, Send(c) \/ CloseClient(c) \/ Break(c)
      PROVE  ServerIInv'
  <2>1. UNCHANGED <<backlog, connfd>>
    BY <1>6 DEF Send, CloseClient, Break
  <2>2. \/ wire' = wire \/ wire' = [wire EXCEPT ![c] = Line(c)] \/ wire' = [wire EXCEPT ![c] = <<>>]
    BY <1>6 DEF Send, CloseClient, Break
  <2>3. DOMAIN wire' = Clients /\ \A d \in Clients : wire'[d] \in {<<>>, Line(d)}
    BY <2>2 DEF ServerTypeOK
  <2> QED
    BY <1>1, <1>2, <1>3, <2>1, <2>3 DEF ServerTypeOK
<1> QED
  BY <1>4, <1>5, <1>6

(* For every number of clients, every length of their lines and every size *)
(* of the buffers, however recv cuts a line and whichever connections      *)
(* break: what is printed for a connection is what was received on it, and *)
(* after a failed recv the text before (server.cc:53-55).                  *)
THEOREM OwnTextIsPrinted ==
    ASSUME NEW lengths \in SUBSET Nat
    PROVE  ServerSpec(lengths) => []PrintedIsOwn
<1>1. ServerInit(lengths) => ServerIInv
  <2> SUFFICES ASSUME ServerInit(lengths)
               PROVE  ServerIInv
    OBVIOUS
  <2>1. /\ sendline \in [Clients -> lengths] /\ wire = [c \in Clients |-> <<>>]
        /\ backlog = <<>> /\ connfd = <<>> /\ printed = <<>> /\ buff = [b \in Cells |-> Junk]
    BY DEF ServerInit
  <2>2. Junk \in Content
    BY DEF Content
  <2>3. ServerTypeOK
    <3>1. sendline \in [Clients -> Nat] /\ buff \in [Cells -> Content]
      BY <2>1, <2>2
    <3>2. DOMAIN wire = Clients /\ \A c \in Clients : wire[c] = <<>>
      BY <2>1
    <3>3. \A S : <<>> \in Seq(S)
      OBVIOUS
    <3>4. backlog \in Seq(Clients) /\ printed \in Seq(Clients \X Int \X {Printed(b) : b \in [Cells -> Content]})
      BY <2>1, <3>3
    <3> QED
      BY <2>1, <3>1, <3>2, <3>4 DEF ServerTypeOK
  <2>4. Len(printed) = 0 /\ DOMAIN printed = {}
    BY <2>1
  <2>5. Good(0 + 1) = {}
    BY DEF Good
  <2> QED
    BY <2>3, <2>4, <2>5 DEF ServerIInv, Texts, LastGood
<1>2. ServerIInv /\ [ServerNext]_serverVars => ServerIInv'
  <2> SUFFICES ASSUME ServerIInv, [ServerNext]_serverVars
               PROVE  ServerIInv'
    OBVIOUS
  <2>1. CASE UNCHANGED serverVars
    <3>1. Texts'
      BY <2>1, TextsSame DEF serverVars, ServerIInv
    <3>2. ServerTypeOK'
      BY <2>1 DEF serverVars, ServerIInv, ServerTypeOK, Line
    <3> QED
      BY <3>1, <3>2 DEF ServerIInv
  <2> QED
    BY <2>1, RecvKeeps, ClientsKeep DEF ServerNext
<1>3. ServerIInv => PrintedIsOwn
  <2> SUFFICES ASSUME ServerIInv, NEW k \in DOMAIN printed
               PROVE  LET c == printed[k][1]
                          n == printed[k][2]
                          before == {j \in 1 .. k - 1 : printed[j][2] >= 0}
                      IN IF n >= 0 THEN n < MaxLine /\ printed[k][3] = SubSeq(Line(c), 1, n)
                         ELSE before # {} => printed[k][3] = printed[Max(before)][3]
    BY DEF PrintedIsOwn
  <2>1. OwnText(k) /\ (printed[k][2] < 0 => LastGood(k, printed[k][3]))
    BY DEF ServerIInv, Texts
  <2>2. printed[k][2] \in Int /\ k \in Nat
    BY DEF ServerIInv, ServerTypeOK
  <2>3. CASE printed[k][2] >= 0
    BY <2>1, <2>3 DEF OwnText
  <2>4. CASE ~(printed[k][2] >= 0)
    <3>1. printed[k][2] < 0
      BY <2>2, <2>4
    <3>2. ASSUME Good(k) # {}
          PROVE  printed[k][3] = printed[Max(Good(k))][3]
      <4>1. PICK m \in Good(k) : (\A j \in Good(k) : j <= m) /\ printed[m][3] = printed[k][3]
        BY <2>1, <3>1, <3>2 DEF LastGood
      <4>2. Good(k) \subseteq Int
        BY DEF Good
      <4>3. Max(Good(k)) = m
        BY <4>1, <4>2, MaxIs
      <4> QED
        BY <4>1, <4>3
    <3> QED
      BY <2>4, <3>2 DEF Good
  <2> QED
    BY <2>3, <2>4
<1> QED
  BY <1>1, <1>2, <1>3, PTL DEF ServerSpec

(***************************************************************************)
(* c_mkdir                                                                 *)

Pathnames == {p \in Seq(Names) : Len(p) <= MaxNames}

(* A file system: what is there lies in a directory, and a plain file is   *)
(* none.                                                                   *)
IsTree(d, f) ==
    /\ d \subseteq Seq(Names) /\ f \subseteq Seq(Names)
    /\ <<>> \in d /\ d \cap f = {}
    /\ \A p \in d \cup f : p # <<>> => Front(p) \in d

MkdirsSpec(paths, trees) == MkdirsInit(paths, trees) /\ [][MkdirsNext]_dirsVars

DirsTypeOK ==
    /\ path \in [Makers -> Pathnames]
    /\ cut \in [Makers -> Nat \ {0}]
    /\ dpc \in [Makers -> {"access", "mkdir", "0", "-1"}]
    /\ \A m \in Makers : path[m] # <<>> => cut[m] <= Len(path[m])
    /\ \A m \in Makers : path[m] = <<>> => dpc[m] = "-1"

(* What a program has passed is there; what it made lies behind it; and a  *)
(* directory it is about to make is there only if another has made it, or  *)
(* if access was refused.                                                  *)
PassedBy(m) ==
    /\ path[m] # <<>> => \A k \in 1 .. cut[m] - 1 : Prefix(m, k) \in dirs \cup plain
    /\ dpc[m] = "0" => path[m] \in dirs \cup plain /\ cut[m] = Len(path[m])
    /\ dpc[m] = "mkdir" /\ m \notin refused =>
          /\ Here(m) \notin plain
          /\ Here(m) \in dirs => \E o \in Makers : <<o, Here(m)>> \in madeBy

Passed == \A m \in Makers : PassedBy(m)

MadeBy(o, d) ==
    /\ path[o] # <<>> /\ Len(d) \in 1 .. cut[o] /\ d = Prefix(o, Len(d))
    /\ Len(d) = cut[o] => dpc[o] = "0"

Made ==
    /\ madeBy \subseteq Makers \X dirs
    /\ \A o \in Makers, d \in dirs : <<o, d>> \in madeBy => MadeBy(o, d)

Failed == \A m \in Makers : dpc[m] = "-1" => Excused(m)

DirsIInv == DirsTypeOK /\ IsTree(dirs, plain) /\ Passed /\ Made /\ Failed

-----------------------------------------------------------------------------
(* A prefix of k names has k names, lies in the prefix of k - 1, and is a  *)
(* prefix.                                                                 *)
LEMMA PrefixFacts ==
    ASSUME NEW p \in Seq(Names), NEW k \in 1 .. Len(p)
    PROVE  /\ SubSeq(p, 1, k) \in Seq(Names) /\ Len(SubSeq(p, 1, k)) = k
           /\ SubSeq(p, 1, k) # <<>>
           /\ Front(SubSeq(p, 1, k)) = SubSeq(p, 1, k - 1)
           /\ IsPrefix(SubSeq(p, 1, k), p)
<1> DEFINE s == SubSeq(p, 1, k)
<1>1. s \in Seq(Names) /\ Len(s) = k /\ \A j \in 1 .. k : s[j] = p[j]
  BY SubSeqProperties
<1>2. SubSeq(s, 1, k - 1) = SubSeq(p, 1, k - 1)
  <2>1. Len(SubSeq(s, 1, k - 1)) = k - 1 /\ Len(SubSeq(p, 1, k - 1)) = k - 1
    BY <1>1, SubSeqProperties
  <2>2. \A j \in 1 .. k - 1 : SubSeq(s, 1, k - 1)[j] = SubSeq(p, 1, k - 1)[j]
    BY <1>1, SubSeqProperties
  <2> QED
    BY <1>1, <2>1, <2>2
<1>3. SubSeq(s, 1, k) = s
  BY <1>1
<1> QED
  BY <1>1, <1>2, <1>3 DEF Front, IsPrefix

LEMMA PathPrefix ==
    ASSUME DirsTypeOK, NEW m \in Makers, path[m] # <<>>
    PROVE  /\ path[m] \in Seq(Names) /\ Prefix(m, Len(path[m])) = path[m]
           /\ \A k \in 1 .. Len(path[m]) :
                 /\ Prefix(m, k) \in Seq(Names) /\ Len(Prefix(m, k)) = k
                 /\ Prefix(m, k) # <<>> /\ Front(Prefix(m, k)) = Prefix(m, k - 1)
                 /\ IsPrefix(Prefix(m, k), path[m])
           /\ cut[m] \in 1 .. Len(path[m])
           /\ Prefix(m, 0) = <<>>
<1>1. path[m] \in Seq(Names) /\ cut[m] \in 1 .. Len(path[m])
  BY DEF DirsTypeOK, Pathnames
<1>2. Prefix(m, 0) = <<>>
  BY SubSeqEmpty DEF Prefix
<1>3. Prefix(m, Len(path[m])) = path[m]
  BY <1>1 DEF Prefix
<1>4. ASSUME NEW k \in 1 .. Len(path[m])
      PROVE  /\ Prefix(m, k) \in Seq(Names) /\ Len(Prefix(m, k)) = k
             /\ Prefix(m, k) # <<>> /\ Front(Prefix(m, k)) = Prefix(m, k - 1)
             /\ IsPrefix(Prefix(m, k), path[m])
  BY <1>1, PrefixFacts DEF Prefix
<1> QED
  BY <1>1, <1>2, <1>3, <1>4

-----------------------------------------------------------------------------
LEMMA DirsTypeStep ==
    ASSUME DirsTypeOK, [MkdirsNext]_dirsVars
    PROVE  DirsTypeOK'
<1>1. ASSUME NEW m \in Makers, NextSlash(m), UNCHANGED path, path[m] # <<>>
      PROVE  DirsTypeOK'
  <2>1. path[m] \in Seq(Names) /\ cut[m] \in 1 .. Len(path[m])
    BY <1>1 DEF DirsTypeOK, Pathnames
  <2>2. CASE cut[m] = Len(path[m])
    BY <1>1, <2>2 DEF DirsTypeOK, NextSlash
  <2>3. CASE cut[m] # Len(path[m])
    <3>1. /\ dpc' = [dpc EXCEPT ![m] = "access"] /\ cut' = [cut EXCEPT ![m] = cut[m] + 1]
          /\ path' = path
      BY <1>1, <2>3 DEF NextSlash
    <3>2. cut[m] + 1 \in Nat \ {0} /\ cut[m] + 1 <= Len(path[m])
      BY <2>1, <2>3
    <3>3. /\ cut' \in [Makers -> Nat \ {0}]
          /\ dpc' \in [Makers -> {"access", "mkdir", "0", "-1"}]
      BY <3>1, <3>2 DEF DirsTypeOK
    <3>4. \A n \in Makers : path'[n] # <<>> => cut'[n] <= Len(path'[n])
      BY <3>1, <3>2 DEF DirsTypeOK
    <3>5. \A n \in Makers : path'[n] = <<>> => dpc'[n] = "-1"
      BY <1>1, <3>1 DEF DirsTypeOK
    <3> QED
      BY <3>1, <3>3, <3>4, <3>5 DEF DirsTypeOK
  <2> QED
    BY <2>2, <2>3
<1>2. ASSUME NEW m \in Makers, UNCHANGED <<path, cut>>, path[m] # <<>>,
             NEW s \in {"mkdir", "-1"}, dpc' = [dpc EXCEPT ![m] = s]
      PROVE  DirsTypeOK'
  BY <1>2 DEF DirsTypeOK
<1>3. ASSUME NEW m \in Makers, Access(m) PROVE DirsTypeOK'
  BY <1>1, <1>2, <1>3 DEF Access, DirsTypeOK
<1>4. ASSUME NEW m \in Makers, Mkdir(m) PROVE DirsTypeOK'
  BY <1>1, <1>2, <1>4 DEF Mkdir, DirsTypeOK
<1>5. CASE UNCHANGED dirsVars
  BY <1>5 DEF dirsVars, DirsTypeOK
<1>6. ASSUME NEW m \in Makers, AccessRefused(m) \/ MkdirRefused(m) PROVE DirsTypeOK'
  BY <1>2, <1>6 DEF AccessRefused, MkdirRefused, DirsTypeOK
<1> QED
  BY <1>3, <1>4, <1>5, <1>6 DEF MkdirsNext

(* mkdir makes a directory in a directory, and nothing is removed.         *)
Grown ==
    /\ UNCHANGED <<path, plain>> /\ dirs \subseteq dirs' /\ madeBy \subseteq madeBy'
    /\ refused \subseteq refused'
    /\ \A d \in dirs' \ dirs : \E o \in Makers : <<o, d>> \in madeBy'

LEMMA TreeStep ==
    ASSUME DirsTypeOK, IsTree(dirs, plain), [MkdirsNext]_dirsVars
    PROVE  IsTree(dirs, plain)' /\ Grown
<1>1. CASE UNCHANGED <<path, plain, dirs, madeBy>> /\ refused \subseteq refused'
  BY <1>1 DEF IsTree, Grown
<1>2. ASSUME NEW m \in Makers, Access(m) \/ AccessRefused(m) \/ MkdirRefused(m)
      PROVE  UNCHANGED <<path, plain, dirs, madeBy>> /\ refused \subseteq refused'
  BY <1>2 DEF Access, AccessRefused, MkdirRefused
<1>3. ASSUME NEW m \in Makers, Mkdir(m)
      PROVE  \/ UNCHANGED <<path, plain, dirs, madeBy, refused>>
             \/ IsTree(dirs, plain)' /\ Grown
  <2>1. CASE ~(Here(m) \notin dirs \cup plain /\ Front(Here(m)) \in dirs)
    BY <1>3, <2>1 DEF Mkdir
  <2>2. CASE Here(m) \notin dirs \cup plain /\ Front(Here(m)) \in dirs
    <3>1. dpc[m] = "mkdir" /\ path[m] # <<>>
      BY <1>3 DEF Mkdir, DirsTypeOK
    <3>2. Here(m) \in Seq(Names) /\ Here(m) # <<>>
      BY <3>1, PathPrefix DEF Here
    <3>3. /\ dirs' = dirs \cup {Here(m)} /\ madeBy' = madeBy \cup {<<m, Here(m)>>}
          /\ UNCHANGED <<path, plain, refused>>
      BY <1>3, <2>2 DEF Mkdir
    <3>4. IsTree(dirs, plain)'
      BY <2>2, <3>2, <3>3 DEF IsTree
    <3>5. Grown
      BY <3>3 DEF Grown
    <3> QED
      BY <3>4, <3>5
  <2> QED
    BY <2>1, <2>2
<1>4. UNCHANGED dirsVars => UNCHANGED <<path, plain, dirs, madeBy, refused>>
  BY DEF dirsVars
<1> QED
  BY <1>1, <1>2, <1>3, <1>4 DEF MkdirsNext

-----------------------------------------------------------------------------
(* A step of mkdirs: past the name it is at, on to mkdir, or to a failure, *)
(* with or without a refusal.                                              *)
Others(m) ==
    \A n \in Makers \ {m} :
        cut'[n] = cut[n] /\ dpc'[n] = dpc[n] /\ (n \in refused' <=> n \in refused)

Passing(m) ==
    /\ Here(m) \in dirs' \cup plain
    /\ \/ cut[m] = Len(path[m]) /\ cut'[m] = cut[m] /\ dpc'[m] = "0"
       \/ cut'[m] = cut[m] + 1 /\ dpc'[m] = "access"
    /\ \/ UNCHANGED <<dirs, madeBy>>
       \/ dirs' = dirs \cup {Here(m)} /\ madeBy' = madeBy \cup {<<m, Here(m)>>}

Missing(m) ==
    /\ Here(m) \notin dirs \cup plain \/ m \in refused'
    /\ dpc'[m] = "mkdir" /\ cut'[m] = cut[m] /\ UNCHANGED <<dirs, madeBy>>

Failing(m) ==
    /\ dpc[m] = "mkdir"
    /\ ~(Here(m) \notin dirs \cup plain /\ Front(Here(m)) \in dirs) \/ m \in refused'
    /\ dpc'[m] = "-1" /\ cut'[m] = cut[m] /\ UNCHANGED <<dirs, madeBy>>

Moving(m) ==
    /\ dpc[m] \in {"access", "mkdir"} /\ path[m] # <<>> /\ Others(m)
    /\ Passing(m) \/ Missing(m) \/ Failing(m)

LEMMA MkdirsStep ==
    ASSUME DirsTypeOK, [MkdirsNext]_dirsVars
    PROVE  (\E m \in Makers : Moving(m)) \/ UNCHANGED dirsVars
<1>1. ASSUME NEW m \in Makers, NextSlash(m), dpc[m] \in {"access", "mkdir"}, UNCHANGED refused
      PROVE  /\ Others(m)
             /\ \/ cut[m] = Len(path[m]) /\ cut'[m] = cut[m] /\ dpc'[m] = "0"
                \/ cut'[m] = cut[m] + 1 /\ dpc'[m] = "access"
  <2>1. CASE cut[m] = Len(path[m])
    BY <1>1, <2>1 DEF NextSlash, Others, DirsTypeOK
  <2>2. CASE cut[m] # Len(path[m])
    BY <1>1, <2>2 DEF NextSlash, Others, DirsTypeOK
  <2> QED
    BY <2>1, <2>2
<1>2. ASSUME NEW m \in Makers, NEW s \in {"mkdir", "-1"}, dpc' = [dpc EXCEPT ![m] = s],
             UNCHANGED cut, refused' \in {refused, refused \cup {m}}
      PROVE  Others(m) /\ dpc'[m] = s /\ cut'[m] = cut[m]
  BY <1>2 DEF Others, DirsTypeOK
<1>3. ASSUME NEW m \in Makers, Access(m) PROVE Moving(m)
  <2>1. dpc[m] = "access" /\ path[m] # <<>>
    BY <1>3 DEF Access, DirsTypeOK
  <2>2. CASE Here(m) \in dirs \cup plain
    BY <1>1, <1>3, <2>1, <2>2 DEF Access, Moving, Passing
  <2>3. CASE Here(m) \notin dirs \cup plain
    BY <1>2, <1>3, <2>1, <2>3 DEF Access, Moving, Missing
  <2> QED
    BY <2>2, <2>3
<1>4. ASSUME NEW m \in Makers, Mkdir(m) PROVE Moving(m)
  <2>1. dpc[m] = "mkdir" /\ path[m] # <<>>
    BY <1>4 DEF Mkdir, DirsTypeOK
  <2>2. CASE Here(m) \notin dirs \cup plain /\ Front(Here(m)) \in dirs
    BY <1>1, <1>4, <2>1, <2>2 DEF Mkdir, Moving, Passing
  <2>3. CASE ~(Here(m) \notin dirs \cup plain /\ Front(Here(m)) \in dirs)
    BY <1>2, <1>4, <2>1, <2>3 DEF Mkdir, Moving, Failing
  <2> QED
    BY <2>2, <2>3
<1>5. ASSUME NEW m \in Makers, AccessRefused(m) PROVE Moving(m)
  <2>1. dpc[m] = "access" /\ path[m] # <<>> /\ m \in refused'
    BY <1>5 DEF AccessRefused, DirsTypeOK
  <2>2. Others(m) /\ dpc'[m] = "mkdir" /\ cut'[m] = cut[m]
    BY <1>2, <1>5 DEF AccessRefused
  <2> QED
    BY <1>5, <2>1, <2>2 DEF AccessRefused, Moving, Missing
<1>6. ASSUME NEW m \in Makers, MkdirRefused(m) PROVE Moving(m)
  <2>1. dpc[m] = "mkdir" /\ path[m] # <<>> /\ m \in refused'
    BY <1>6 DEF MkdirRefused, DirsTypeOK
  <2>2. Others(m) /\ dpc'[m] = "-1" /\ cut'[m] = cut[m]
    BY <1>2, <1>6 DEF MkdirRefused
  <2> QED
    BY <1>6, <2>1, <2>2 DEF MkdirRefused, Moving, Failing
<1> QED
  BY <1>3, <1>4, <1>5, <1>6 DEF MkdirsNext

LEMMA PassedStep ==
    ASSUME DirsTypeOK, IsTree(dirs, plain), Passed, [MkdirsNext]_dirsVars
    PROVE  Passed'
<1>1. Grown
  BY TreeStep
<1>2. ASSUME NEW n \in Makers, cut'[n] = cut[n], dpc'[n] = dpc[n], n \in refused' <=> n \in refused
      PROVE  PassedBy(n)'
  <2>1. Here(n)' = Here(n) /\ \A k \in Nat : Prefix(n, k)' = Prefix(n, k)
    BY <1>1, <1>2 DEF Here, Prefix, Grown
  <2>2. PassedBy(n)
    BY DEF Passed
  <2>3. Here(n) \in dirs' /\ dpc[n] = "mkdir" /\ n \notin refused => \E o \in Makers : <<o, Here(n)>> \in madeBy'
    <3>1. CASE Here(n) \in dirs
      BY <1>1, <2>2, <3>1 DEF PassedBy, Grown
    <3>2. CASE Here(n) \in dirs' \ dirs
      BY <1>1, <3>2 DEF Grown
    <3> QED
      BY <3>1, <3>2
  <2>4. path'[n] # <<>> => \A k \in 1 .. cut'[n] - 1 : Prefix(n, k)' \in dirs' \cup plain'
    <3>1. cut[n] \in Nat
      BY DEF DirsTypeOK
    <3> QED
      BY <1>1, <1>2, <2>1, <2>2, <3>1 DEF PassedBy, Grown
  <2>5. dpc'[n] = "0" => path'[n] \in dirs' \cup plain' /\ cut'[n] = Len(path'[n])
    BY <1>1, <1>2, <2>2 DEF PassedBy, Grown
  <2>6. dpc'[n] = "mkdir" /\ n \notin refused' => Here(n)' \notin plain'
    BY <1>1, <1>2, <2>1, <2>2 DEF PassedBy, Grown
  <2> QED
    BY <1>2, <2>1, <2>3, <2>4, <2>5, <2>6 DEF PassedBy
<1>3. ASSUME NEW m \in Makers, Moving(m) PROVE PassedBy(m)'
  <2>1. /\ cut[m] \in 1 .. Len(path[m]) /\ path[m] # <<>> /\ Len(path[m]) \in Nat
        /\ Prefix(m, Len(path[m])) = path[m]
    BY <1>3, PathPrefix DEF Moving
  <2>2. path' = path /\ plain' = plain /\ dirs \subseteq dirs'
    BY <1>1 DEF Grown
  <2>3. \A k \in Nat : Prefix(m, k)' = Prefix(m, k)
    BY <2>2 DEF Prefix
  <2>4. \A k \in 1 .. cut[m] - 1 : Prefix(m, k)' \in dirs' \cup plain'
    BY <2>1, <2>2, <2>3 DEF Passed, PassedBy
  <2>5. CASE Passing(m)
    <3>1. Here(m) \in dirs' \cup plain'
      BY <2>2, <2>5 DEF Passing
    <3>2. \A k \in 1 .. cut[m] : Prefix(m, k)' \in dirs' \cup plain'
      <4>1. SUFFICES ASSUME NEW k \in 1 .. cut[m]
                     PROVE  Prefix(m, k)' \in dirs' \cup plain'
        OBVIOUS
      <4>2. CASE k = cut[m]
        <5>1. Prefix(m, k)' = Prefix(m, k) /\ Prefix(m, k) = Here(m)
          BY <2>1, <2>3, <4>2 DEF Here
        <5> QED
          BY <3>1, <5>1
      <4>3. CASE k # cut[m]
        BY <2>1, <2>4, <4>3
      <4> QED
        BY <4>2, <4>3
    <3>3. CASE cut[m] = Len(path[m]) /\ cut'[m] = cut[m] /\ dpc'[m] = "0"
      <4>1. path'[m] \in dirs' \cup plain'
        BY <2>1, <2>2, <3>1, <3>3 DEF Here
      <4> QED
        BY <2>2, <2>4, <3>3, <4>1 DEF PassedBy
    <3>4. CASE cut'[m] = cut[m] + 1 /\ dpc'[m] = "access"
      <4>1. \A k \in 1 .. cut'[m] - 1 : Prefix(m, k)' \in dirs' \cup plain'
        BY <2>1, <3>2, <3>4
      <4> QED
        BY <3>4, <4>1 DEF PassedBy
    <3> QED
      BY <2>5, <3>3, <3>4 DEF Passing
  <2>6. CASE Missing(m)
    <3>1. Here(m)' = Here(m) /\ dirs' = dirs /\ cut'[m] = cut[m] /\ dpc'[m] = "mkdir"
      BY <2>2, <2>6 DEF Missing, Here, Prefix
    <3>2. \A k \in 1 .. cut'[m] - 1 : Prefix(m, k)' \in dirs' \cup plain'
      BY <2>4, <3>1
    <3>3. Here(m)' \notin dirs' \cup plain' \/ m \in refused'
      BY <2>2, <2>6, <3>1 DEF Missing
    <3> QED
      BY <3>1, <3>2, <3>3 DEF PassedBy
  <2>7. CASE Failing(m)
    <3>1. cut'[m] = cut[m] /\ dpc'[m] = "-1"
      BY <2>7 DEF Failing
    <3>2. \A k \in 1 .. cut'[m] - 1 : Prefix(m, k)' \in dirs' \cup plain'
      BY <2>4, <3>1
    <3> QED
      BY <3>1, <3>2 DEF PassedBy
  <2> QED
    BY <1>3, <2>5, <2>6, <2>7 DEF Moving
<1>4. CASE UNCHANGED dirsVars
  BY <1>2, <1>4 DEF dirsVars, Passed
<1>5. ASSUME NEW m \in Makers, Moving(m) PROVE Passed'
  <2>1. \A n \in Makers \ {m} : PassedBy(n)'
    BY <1>2, <1>5 DEF Moving, Others
  <2> QED
    BY <1>3, <1>5, <2>1 DEF Passed
<1> QED
  BY <1>4, <1>5, MkdirsStep

LEMMA MadeStep ==
    ASSUME DirsTypeOK, IsTree(dirs, plain), Made, [MkdirsNext]_dirsVars
    PROVE  Made'
<1>1. Grown
  BY TreeStep
<1>2. \A o \in Makers, k \in Nat : Prefix(o, k)' = Prefix(o, k)
  BY <1>1 DEF Grown, Prefix
<1>3. ASSUME NEW m \in Makers, Moving(m) PROVE Made'
  <2>1. /\ cut[m] \in 1 .. Len(path[m]) /\ path[m] # <<>> /\ path'[m] = path[m]
        /\ Here(m) = Prefix(m, cut[m]) /\ Len(Here(m)) = cut[m]
    BY <1>1, <1>3, PathPrefix DEF Moving, Grown, Here
  <2>2. cut'[m] \in {cut[m], cut[m] + 1}
    BY <1>3 DEF Moving, Passing, Missing, Failing
  <2>3. ASSUME NEW o \in Makers, NEW d, MadeBy(o, d) PROVE MadeBy(o, d)'
    <3>1. Len(d) \in 1 .. cut[o] /\ cut[o] \in Nat /\ Prefix(o, Len(d))' = Prefix(o, Len(d))
      BY <1>2, <2>3 DEF MadeBy, DirsTypeOK
    <3>2. CASE o # m
      <4>1. cut'[o] = cut[o] /\ dpc'[o] = dpc[o] /\ path'[o] = path[o]
        BY <1>1, <1>3, <3>2 DEF Moving, Others, Grown
      <4> QED
        BY <2>3, <3>1, <4>1 DEF MadeBy
    <3>3. CASE o = m
      <4>1. Len(d) \in 1 .. cut'[o] /\ Len(d) # cut[o] /\ Len(d) # cut'[o]
        BY <1>3, <2>2, <2>3, <3>1, <3>3 DEF MadeBy, Moving
      <4> QED
        BY <2>1, <2>3, <3>1, <3>3, <4>1 DEF MadeBy
    <3> QED
      BY <3>2, <3>3
  <2>4. ASSUME NEW h, h = Here(m), Passing(m) PROVE MadeBy(m, h)'
    <3>1. Len(h) = cut[m] /\ h = Prefix(m, Len(h)) /\ cut[m] \in Nat /\ cut[m] >= 1
      BY <2>1, <2>4
    <3>2. Len(h) \in 1 .. cut'[m] /\ (Len(h) = cut'[m] => dpc'[m] = "0")
      BY <2>4, <3>1 DEF Passing
    <3>3. Prefix(m, Len(h))' = h
      BY <1>2, <3>1
    <3> QED
      BY <2>1, <3>2, <3>3 DEF MadeBy
  <2>5. \/ UNCHANGED <<dirs, madeBy>>
        \/ Passing(m) /\ dirs' = dirs \cup {Here(m)} /\ madeBy' = madeBy \cup {<<m, Here(m)>>}
    BY <1>3 DEF Moving, Passing, Missing, Failing
  <2>6. CASE UNCHANGED <<dirs, madeBy>>
    BY <2>3, <2>6 DEF Made
  <2>7. ASSUME NEW h, h = Here(m), Passing(m), dirs' = dirs \cup {h}, madeBy' = madeBy \cup {<<m, h>>}
        PROVE  Made'
    <3>1. madeBy' \subseteq Makers \X dirs'
      BY <2>7 DEF Made
    <3>2. ASSUME NEW o \in Makers, NEW d \in dirs', <<o, d>> \in madeBy' PROVE MadeBy(o, d)'
      <4>1. CASE <<o, d>> \in madeBy
        <5>1. d \in dirs
          BY <4>1 DEF Made
        <5>2. MadeBy(o, d)
          BY <4>1, <5>1 DEF Made
        <5> QED
          BY <2>3, <5>2
      <4>2. CASE o = m /\ d = h
        BY <2>4, <2>7, <4>2
      <4> QED
        BY <2>7, <3>2, <4>1, <4>2
    <3> QED
      BY <3>1, <3>2 DEF Made
  <2> QED
    BY <2>5, <2>6, <2>7
<1>4. CASE UNCHANGED dirsVars
  BY <1>4 DEF dirsVars, Made, MadeBy, Prefix
<1> QED
  BY <1>3, <1>4, MkdirsStep

(* A failure is excused when it happens, and stays excused.                *)
LEMMA FailedStep ==
    ASSUME DirsIInv, [MkdirsNext]_dirsVars
    PROVE  Failed'
<1>1. Grown
  BY TreeStep DEF DirsIInv
<1>2. ASSUME NEW n \in Makers, cut'[n] = cut[n], Excused(n) PROVE Excused(n)'
  <2>1. Here(n)' = Here(n) /\ \A k \in Nat : Prefix(n, k)' = Prefix(n, k)
    BY <1>1, <1>2 DEF Here, Prefix, Grown
  <2>2. path' = path /\ plain' = plain /\ madeBy \subseteq madeBy' /\ cut[n] \in Nat
    BY <1>1 DEF Grown, DirsIInv, DirsTypeOK
  <2>3. CASE path[n] = <<>>
    BY <2>2, <2>3 DEF Excused
  <2>4. ASSUME NEW k \in 1 .. cut[n] - 1, Prefix(n, k) \in plain PROVE Excused(n)'
    <3>1. k \in 1 .. cut'[n] - 1 /\ Prefix(n, k)' \in plain'
      BY <1>2, <2>1, <2>2, <2>4
    <3> QED
      BY <3>1 DEF Excused
  <2>5. ASSUME NEW o \in Makers \ {n}, <<o, Here(n)>> \in madeBy PROVE Excused(n)'
    <3>1. <<o, Here(n)'>> \in madeBy'
      BY <2>1, <2>2, <2>5
    <3> QED
      BY <3>1 DEF Excused
  <2>6. CASE n \in refused
    BY <1>1, <2>6 DEF Excused, Grown
  <2> QED
    BY <1>2, <2>3, <2>4, <2>5, <2>6 DEF Excused
<1>3. ASSUME NEW m \in Makers, Moving(m), Failing(m), m \notin refused' PROVE Excused(m)
  <2>1. /\ cut[m] \in 1 .. Len(path[m]) /\ path[m] # <<>> /\ Here(m) = Prefix(m, cut[m])
        /\ Len(Here(m)) = cut[m] /\ Front(Here(m)) = Prefix(m, cut[m] - 1)
        /\ Prefix(m, 0) = <<>>
    BY <1>3, PathPrefix DEF Moving, Here, DirsIInv
  <2>2. PassedBy(m) /\ dpc[m] = "mkdir" /\ m \notin refused
    BY <1>1, <1>3 DEF Failing, DirsIInv, Passed, Grown
  <2>3. CASE Here(m) \in dirs
    <3>1. PICK o \in Makers : <<o, Here(m)>> \in madeBy
      BY <2>2, <2>3 DEF PassedBy
    <3>2. MadeBy(o, Here(m))
      BY <2>3, <3>1 DEF DirsIInv, Made
    <3>3. o # m
      BY <2>1, <2>2, <3>2 DEF MadeBy
    <3> QED
      BY <3>1, <3>3 DEF Excused
  <2>4. CASE Front(Here(m)) \notin dirs
    <3>1. cut[m] # 1
      BY <2>1, <2>4 DEF DirsIInv, IsTree
    <3>2. cut[m] - 1 \in 1 .. cut[m] - 1
      BY <2>1, <3>1
    <3>3. Prefix(m, cut[m] - 1) \in plain
      BY <2>1, <2>2, <2>4, <3>2 DEF PassedBy
    <3> QED
      BY <3>2, <3>3 DEF Excused
  <2>5. Here(m) \notin plain
    BY <2>2 DEF PassedBy
  <2> QED
    BY <1>3, <2>3, <2>4, <2>5 DEF Failing
<1>4. ASSUME NEW n \in Makers, cut'[n] = cut[n], dpc'[n] = dpc[n]
      PROVE  dpc'[n] = "-1" => Excused(n)'
  BY <1>2, <1>4 DEF DirsIInv, Failed
<1>5. ASSUME NEW m \in Makers, Moving(m) PROVE Failed'
  <2>1. \A n \in Makers \ {m} : dpc'[n] = "-1" => Excused(n)'
    BY <1>4, <1>5 DEF Moving, Others
  <2>2. CASE Failing(m)
    <3>1. Excused(m)'
      <4>1. CASE m \in refused'
        BY <4>1 DEF Excused
      <4>2. CASE m \notin refused'
        BY <1>2, <1>3, <1>5, <2>2, <4>2 DEF Failing
      <4> QED
        BY <4>1, <4>2
    <3> QED
      BY <2>1, <3>1 DEF Failed
  <2>3. CASE Passing(m) \/ Missing(m)
    <3>1. dpc'[m] # "-1"
      BY <2>3 DEF Passing, Missing
    <3> QED
      BY <2>1, <3>1 DEF Failed
  <2> QED
    BY <1>5, <2>2, <2>3 DEF Moving
<1>6. CASE UNCHANGED dirsVars
  BY <1>4, <1>6 DEF dirsVars, Failed
<1> QED
  BY <1>5, <1>6, MkdirsStep DEF DirsIInv

-----------------------------------------------------------------------------
(* Whoever made the name at which a program failed is further than it: the *)
(* program that got furthest does not fail.                                *)
LEMMA FurthestWins ==
    ASSUME DirsIInv, Makers # {}, plain = {}, refused = {},
           \A m \in Makers : path[m] # <<>> /\ dpc[m] \in {"0", "-1"}
    PROVE  \E m \in Makers : dpc[m] = "0"
<1>1. SUFFICES ASSUME \A m \in Makers : dpc[m] = "-1" PROVE FALSE
  OBVIOUS
<1>2. ASSUME NEW m \in Makers PROVE \E o \in Makers : cut[o] > cut[m]
  <2>1. PICK o \in Makers \ {m} : <<o, Here(m)>> \in madeBy
    BY <1>1 DEF DirsIInv, Failed, Excused
  <2>2. MadeBy(o, Here(m))
    BY <2>1 DEF DirsIInv, Made
  <2>3. Len(Here(m)) = cut[m]
    BY PathPrefix DEF DirsIInv, Here
  <2>4. cut[o] \in Nat /\ cut[m] \in Nat
    BY DEF DirsIInv, DirsTypeOK
  <2> QED
    BY <1>1, <2>2, <2>3, <2>4 DEF MadeBy
<1> DEFINE ToGo == {MaxNames - cut[m] : m \in Makers}
<1>3. \A m \in Makers : cut[m] \in Nat /\ MaxNames - cut[m] \in Nat
  <2>1. ASSUME NEW m \in Makers PROVE cut[m] \in Nat /\ cut[m] <= MaxNames
    <3>1. path[m] \in Seq(Names) /\ Len(path[m]) <= MaxNames
      BY DEF DirsIInv, DirsTypeOK, Pathnames
    <3>2. cut[m] \in Nat /\ cut[m] <= Len(path[m])
      BY DEF DirsIInv, DirsTypeOK
    <3>3. Len(path[m]) \in Nat
      BY <3>1
    <3> QED
      BY <3>1, <3>2, <3>3, MakeDirsAssumption
  <2> QED
    BY <2>1, MakeDirsAssumption
<1>4. ToGo \subseteq Nat /\ ToGo # {}
  BY <1>3
<1>5. PICK x \in ToGo : \A y \in ToGo : ~ (<<y, x>> \in OpToRel(<, Nat))
  BY <1>4, WFMin, NatLessThanWellFounded
<1>6. \A y \in ToGo : ~ (y < x)
  BY <1>4, <1>5 DEF OpToRel
<1>7. PICK m \in Makers : x = MaxNames - cut[m]
  BY <1>5
<1>8. PICK o \in Makers : cut[o] > cut[m]
  BY <1>2
<1>9. MaxNames - cut[o] \in ToGo /\ MaxNames - cut[o] < MaxNames - cut[m]
  BY <1>3, <1>8, MakeDirsAssumption
<1> QED
  BY <1>6, <1>7, <1>9

LEMMA InvImpliesOutcome ==
    ASSUME DirsIInv, Makers # {}
    PROVE  MkdirsOutcome
<1>1. ASSUME NEW m \in Makers, dpc[m] = "0" PROVE PathMade(m)
  <2>1. path[m] # <<>> /\ PassedBy(m)
    BY <1>1 DEF DirsIInv, DirsTypeOK, Passed
  <2>2. path[m] \in dirs \cup plain /\ cut[m] = Len(path[m]) /\ Len(path[m]) \in Nat
    BY <1>1, <2>1, PathPrefix DEF PassedBy, DirsIInv
  <2>3. ASSUME NEW k \in 1 .. Len(path[m]) - 1 PROVE Prefix(m, k) \in dirs
    <3>1. k + 1 \in 1 .. Len(path[m]) /\ (k + 1) - 1 = k
      BY <2>2
    <3>2. Prefix(m, k + 1) # <<>> /\ Front(Prefix(m, k + 1)) = Prefix(m, (k + 1) - 1)
      BY <2>1, <3>1, PathPrefix DEF DirsIInv
    <3>3. Prefix(m, k + 1) \in dirs \cup plain
      <4>1. CASE k + 1 = Len(path[m])
        BY <2>1, <2>2, <4>1, PathPrefix DEF DirsIInv
      <4>2. CASE k + 1 # Len(path[m])
        BY <2>1, <2>2, <3>1, <4>2 DEF PassedBy
      <4> QED
        BY <4>1, <4>2
    <3> QED
      BY <3>1, <3>2, <3>3 DEF DirsIInv, IsTree
  <2> QED
    BY <2>2, <2>3 DEF PathMade
<1>2. ASSUME NEW o \in Makers, NEW d \in dirs, <<o, d>> \in madeBy PROVE IsPrefix(d, path[o])
  <2>1. MadeBy(o, d)
    BY <1>2 DEF DirsIInv, Made
  <2>2. path[o] # <<>> /\ cut[o] \in 1 .. Len(path[o])
    BY <2>1, PathPrefix DEF MadeBy, DirsIInv
  <2>3. Len(d) \in 1 .. Len(path[o])
    BY <2>1, <2>2 DEF MadeBy
  <2> QED
    BY <2>1, <2>2, <2>3, PathPrefix DEF MadeBy, DirsIInv
<1>3. \A m \in Makers : dpc[m] = "-1" => Excused(m)
  BY DEF DirsIInv, Failed
<1> QED
  BY <1>1, <1>2, <1>3, FurthestWins DEF MkdirsOutcome

-----------------------------------------------------------------------------
(* What mkdirs returns is true, whatever programs run together, on any     *)
(* paths of at most MaxNames names and in any file system: 0 says that the *)
(* path is there, -1 that a plain file was in the way, another program     *)
(* made the directory between access and mkdir (c_mkdir.cpp:35-37), or the *)
(* system refused a call; without plain files and refusals not all of them *)
(* fail.                                                                   *)
THEOREM MkdirsTellsTheTruth ==
    ASSUME Makers # {},
           NEW paths \in SUBSET [Makers -> Pathnames],
           NEW trees, \A tree \in trees : IsTree(tree.dirs, tree.plain)
    PROVE  MkdirsSpec(paths, trees) => []MkdirsOutcome
<1>1. MkdirsInit(paths, trees) => DirsIInv
  <2>1. SUFFICES ASSUME MkdirsInit(paths, trees) PROVE DirsIInv
    OBVIOUS
  <2>2. /\ path \in [Makers -> Pathnames] /\ cut = [m \in Makers |-> 1] /\ madeBy = {}
        /\ dpc = [m \in Makers |-> IF path[m] = <<>> THEN "-1" ELSE "access"]
        /\ IsTree(dirs, plain)
    BY <2>1 DEF MkdirsInit
  <2>3. ASSUME NEW m \in Makers PROVE path[m] # <<>> => cut[m] <= Len(path[m])
    BY <2>2 DEF Pathnames
  <2>4. DirsTypeOK
    BY <2>2, <2>3 DEF DirsTypeOK
  <2>5. Passed /\ Made /\ Failed
    BY <2>2 DEF Passed, PassedBy, Made, Failed, Excused
  <2> QED
    BY <2>2, <2>4, <2>5 DEF DirsIInv
<1>2. DirsIInv /\ [MkdirsNext]_dirsVars => DirsIInv'
  BY DirsTypeStep, TreeStep, PassedStep, MadeStep, FailedStep DEF DirsIInv
<1>3. DirsIInv => MkdirsOutcome
  BY InvImpliesOutcome
<1> QED
  BY <1>1, <1>2, <1>3, PTL DEF MkdirsSpec
=============================================================================
