--------------------------- MODULE TairCtlProofs ---------------------------
(* Proofs about tair.sh, for every set of servers, lists of them, and      *)
(* number of runs, where the name of no configuration is a prefix of       *)
(* another's (ExactMatch).                                                 *)
EXTENDS TairCtl, TLAPS

(* The lists are sequences of servers.                                     *)
LEMMA ListsOfServers ==
    /\ Lists \subseteq Seq(Servers) /\ <<>> \in Seq(Servers)
    /\ Cs \in Servers /\ Mem \in Servers
<1>1. Indices \subseteq Servers /\ Cs \in Servers /\ Mem \in Servers
  BY DEF Servers
<1>2. Requests \subseteq Seq(Servers)
  BY <1>1, TairCtlAssumption
<1>3. <<Cs>> \in Seq(Servers) /\ <<Mem>> \in Seq(Servers) /\ <<>> \in Seq(Servers)
  BY <1>1
<1> QED
  BY <1>1, <1>2, <1>3 DEF Lists

(* A server runs, for the script, if it has one process.                   *)
LEMMA FoundExactly ==
    ASSUME ExactMatch, NEW s \in Servers, NEW t
    PROVE  OnlyProcess(s, t) <=> t = s /\ running[s] = 1
BY DEF ExactMatch, OnlyProcess, Grep

(* The index of the loop, and the server whose turn it is.                 *)
LEMMA TheTurn ==
    ASSUME TypeOK
    PROVE  /\ index \in Seq(Servers) /\ Len(index) \in Nat /\ i \in Nat
           /\ \A j \in 1 .. Len(index) : index[j] \in Servers /\ index[j] \in Range(index)
           /\ i <= Len(index) => i \in 1 .. Len(index) /\ i + 1 \in 1 .. Len(index) + 1
           /\ Range(index) \subseteq Servers
<1>1. index \in Seq(Servers)
  BY ListsOfServers DEF TypeOK
<1>2. Len(index) \in Nat /\ i \in Nat /\ DOMAIN index = 1 .. Len(index)
  BY <1>1 DEF TypeOK
<1>3. i <= Len(index) => i \in 1 .. Len(index) /\ i + 1 \in 1 .. Len(index) + 1
  BY <1>2 DEF TypeOK
<1> QED
  BY <1>1, <1>2, <1>3 DEF Range

(* Before the first command. *)
LEMMA CtlInit == Init => CtlIInv
<1> SUFFICES ASSUME Init PROVE CtlIInv
  OBVIOUS
<1> USE ListsOfServers DEF Init
<1>1. TypeOK
  <2>1. Len(index) = 0 /\ 1 \in 1 .. Len(index) + 1
    OBVIOUS
  <2>2. /\ running \in [Servers -> Nat] /\ leaving \in [Servers -> Nat]
        /\ \A s \in Servers : leaving[s] <= running[s]
    OBVIOUS
  <2>3. index \in Lists \cup {<<>>} /\ i \in 1 .. Len(index) + 1
    BY <2>1
  <2>4. array \subseteq Range(index) /\ target \in Servers /\ flag \in BOOLEAN /\ crashed \in BOOLEAN
    OBVIOUS
  <2> QED
    BY <2>2, <2>3, <2>4 DEF TypeOK
<1>2. OneProcess /\ InHand /\ Passed /\ Judged /\ StartedRuns
  BY DEF OneProcess, InHand, Passed, Judged, StartedRuns
<1>3. OnlyNamedKilled /\ StoppedIsGone
  BY DEF OnlyNamedKilled, StoppedIsGone, Range
<1> QED
  BY <1>1, <1>2, <1>3 DEF CtlIInv

(* Types.                                                                  *)
LEMMA CtlTypes ==
    ASSUME ExactMatch, CtlIInv, [Next]_vars
    PROVE  TypeOK'
<1> USE DEF CtlIInv, TypeOK, procs
<1>0. /\ index \in Seq(Servers) /\ Len(index) \in Nat /\ i \in Nat
      /\ 1 \in 1 .. Len(index) + 1
      /\ i <= Len(index) => /\ index[i] \in Servers /\ index[i] \in Range(index)
                            /\ i + 1 \in 1 .. Len(index) + 1
  <2>1. TypeOK
    OBVIOUS
  <2>2. /\ index \in Seq(Servers) /\ Len(index) \in Nat /\ i \in Nat
        /\ \A j \in 1 .. Len(index) : index[j] \in Servers /\ index[j] \in Range(index)
        /\ i <= Len(index) => i \in 1 .. Len(index) /\ i + 1 \in 1 .. Len(index) + 1
    BY <2>1, TheTurn
  <2> QED
    BY <2>2
<1>1. ASSUME NEW c \in {"start", "stop"}, NEW list \in Lists, Command(c, list)
      PROVE  TypeOK'
  <2>1. index' = list /\ list \in Seq(Servers)
    BY <1>1, ListsOfServers DEF Command
  <2>2. Len(list) \in Nat
    BY <2>1
  <2>3. i' \in 1 .. Len(index') + 1
    BY <1>1, <2>1, <2>2 DEF Command
  <2> QED
    BY <1>1, <2>1, <2>3 DEF Command
<1>2. CASE StartLook
  BY <1>0, <1>2 DEF StartLook, Turn, Step, StayAt
<1>3. CASE ShmTooSmall
  BY <1>0, <1>3 DEF ShmTooSmall, Turn, Step
<1>4. CASE Launch
  <2>1. index[i] \in Servers /\ i' \in 1 .. Len(index') + 1
    BY <1>0, <1>4 DEF Launch, Turn, Step
  <2>2. running' \in [Servers -> Nat] /\ \A s \in Servers : leaving'[s] <= running'[s]
    BY <2>1, <1>4 DEF Launch
  <2> QED
    BY <1>4, <2>1, <2>2 DEF Launch, Turn, Step
<1>5. CASE StartVerdict
  BY <1>0, <1>5 DEF StartVerdict, Turn, Step, CameUp, IsRunning
<1>6. CASE StopLook
  BY <1>0, <1>6 DEF StopLook, Turn, Step, StayAt
<1>7. CASE Kill
  <2>1. ASSUME leaving[target] < running[target]
        PROVE  leaving' \in [Servers -> Nat] /\ \A s \in Servers : leaving'[s] <= running'[s]
    <3>1. running' = running /\ leaving' = [leaving EXCEPT ![target] = @ + 1]
      BY <1>7, <2>1 DEF Kill
    <3> QED
      BY <2>1, <3>1
  <2>2. ASSUME ~(leaving[target] < running[target])
        PROVE  leaving' \in [Servers -> Nat] /\ \A s \in Servers : leaving'[s] <= running'[s]
    <3>1. running' = running /\ leaving' = leaving
      BY <1>7, <2>2 DEF Kill
    <3> QED
      BY <3>1
  <2>3. leaving' \in [Servers -> Nat] /\ \A s \in Servers : leaving'[s] <= running'[s]
    BY <2>1, <2>2
  <2>4. i' = i + 1 /\ i <= Len(index) /\ pc' = "first"
        /\ UNCHANGED <<running, cmd, index, array, target, flag, crashed>>
    BY <1>7 DEF Kill, Turn, Step
  <2> QED
    BY <1>0, <2>3, <2>4
<1>8. CASE StopVerdict
  BY <1>0, <1>8 DEF StopVerdict, Turn, Step, IsRunning
<1>9. CASE Sleep
  BY <1>0, <1>9 DEF Sleep
<1>10. CASE Return
  BY <1>10 DEF Return
<1>11. ASSUME NEW s \in Servers, Exit(s)
       PROVE  TypeOK'
  <2>1. /\ running' \in [Servers -> Nat] /\ leaving' \in [Servers -> Nat]
        /\ \A t \in Servers : leaving'[t] <= running'[t]
    BY <1>11 DEF Exit
  <2> QED
    BY <1>11, <2>1 DEF Exit
<1>12. ASSUME NEW s \in Servers, Crash(s)
       PROVE  TypeOK'
  <2>1. running' \in [Servers -> Nat] /\ \A t \in Servers : leaving'[t] <= running'[t]
    BY <1>12 DEF Crash
  <2> QED
    BY <1>12, <2>1 DEF Crash
<1>13. CASE UNCHANGED vars
  BY <1>13 DEF vars
<1> QED
  BY <1>1, <1>2, <1>3, <1>4, <1>5, <1>6, <1>7, <1>8, <1>9, <1>10, <1>11,
     <1>12, <1>13 DEF Next, Script

(* No server gets a second process, and no server but the ones named a     *)
(* SIGTERM: at launch none was running, and at kill the process found is   *)
(* that of the server whose turn it is.                                    *)
LEMMA OneAndNamed ==
    ASSUME ExactMatch, CtlIInv, [Next]_vars
    PROVE  OneProcess' /\ InHand' /\ OnlyNamedKilled'
<1> USE DEF CtlIInv, OneProcess, InHand, OnlyNamedKilled, procs
<1>0. /\ Len(index) \in Nat /\ i \in Nat
      /\ i <= Len(index) => index[i] \in Servers /\ index[i] \in Range(index)
      /\ running \in [Servers -> Nat] /\ leaving \in [Servers -> Nat]
      /\ \A s \in Servers : leaving[s] <= running[s]
  <2>1. TypeOK
    OBVIOUS
  <2>2. /\ Len(index) \in Nat /\ i \in Nat
        /\ \A j \in 1 .. Len(index) : index[j] \in Servers /\ index[j] \in Range(index)
        /\ i <= Len(index) => i \in 1 .. Len(index)
    BY <2>1, TheTurn
  <2> QED
    BY <2>1, <2>2 DEF TypeOK
<1>1. ASSUME NEW c \in {"start", "stop"}, NEW list \in Lists, Command(c, list)
      PROVE  OneProcess' /\ InHand' /\ OnlyNamedKilled'
  BY <1>1 DEF Command
<1>2. CASE StartLook
  <2>1. pc' = "launch" => cmd' = "start" /\ running'[index'[i']] = 0
    <3>1. SUFFICES ASSUME pc' = "launch" PROVE cmd' = "start" /\ running'[index'[i']] = 0
      OBVIOUS
    <3>2. index[i] \in Servers /\ ~IsRunning(index[i])
      BY <1>0, <1>2, <3>1 DEF StartLook, Turn, Step
    <3>3. running[index[i]] # 1
      BY <3>2, FoundExactly DEF IsRunning
    <3> QED
      BY <1>0, <1>2, <3>1, <3>2, <3>3 DEF StartLook, Turn, Step, StayAt
  <2> QED
    BY <1>2, <2>1 DEF StartLook, Turn, Step, StayAt
<1>3. CASE ShmTooSmall
  BY <1>3 DEF ShmTooSmall, Turn, Step
<1>4. CASE Launch
  <2>1. index[i] \in Servers /\ running[index[i]] = 0
    BY <1>0, <1>4 DEF Launch, Turn
  <2>2. OneProcess'
    BY <1>0, <1>4, <2>1 DEF Launch
  <2> QED
    BY <1>4, <2>2 DEF Launch, Turn, Step
<1>5. CASE StartVerdict
  BY <1>5 DEF StartVerdict, Turn, Step
<1>6. CASE StopLook
  <2>1. pc' = "kill" => cmd' = "stop" /\ target' = index'[i'] /\ i' <= Len(index')
    <3>1. SUFFICES ASSUME pc' = "kill" PROVE cmd' = "stop" /\ target' = index'[i'] /\ i' <= Len(index')
      OBVIOUS
    <3>2. index[i] \in Servers /\ OnlyProcess(index[i], target')
      BY <1>0, <1>6, <3>1 DEF StopLook, Turn, Step
    <3>3. target' = index[i]
      BY <3>2, FoundExactly
    <3> QED
      BY <1>6, <3>1, <3>3 DEF StopLook, Turn, Step, StayAt
  <2> QED
    BY <1>6, <2>1 DEF StopLook, Turn, Step, StayAt
<1>7. CASE Kill
  <2>1. target \in Range(index)
    BY <1>0, <1>7 DEF Kill, Turn
  <2> QED
    BY <1>7, <2>1 DEF Kill, Turn, Step
<1>8. CASE StopVerdict
  BY <1>8 DEF StopVerdict, Turn, Step
<1>9. CASE Sleep
  BY <1>9 DEF Sleep
<1>10. CASE Return
  BY <1>10 DEF Return
<1>11. ASSUME NEW s \in Servers, Exit(s)
       PROVE  OneProcess' /\ InHand' /\ OnlyNamedKilled'
  <2>1. OneProcess'
    BY <1>0, <1>11 DEF Exit
  <2>2. pc = "launch" => running'[index[i]] = 0
    BY <1>0, <1>11 DEF Exit
  <2> QED
    BY <1>11, <2>1, <2>2 DEF Exit
<1>12. ASSUME NEW s \in Servers, Crash(s)
       PROVE  OneProcess' /\ InHand' /\ OnlyNamedKilled'
  <2>1. OneProcess'
    BY <1>0, <1>12 DEF Crash
  <2>2. pc = "launch" => running'[index[i]] = 0
    BY <1>0, <1>12 DEF Crash
  <2> QED
    BY <1>12, <2>1, <2>2 DEF Crash
<1>13. CASE UNCHANGED vars
  BY <1>13 DEF vars
<1> QED
  BY <1>1, <1>2, <1>3, <1>4, <1>5, <1>6, <1>7, <1>8, <1>9, <1>10, <1>11,
     <1>12, <1>13 DEF Next, Script

(* What the steps below use of the state before them.                      *)
LEMMA Positions ==
    ASSUME CtlIInv
    PROVE  /\ Len(index) \in Nat /\ i \in Nat \ {0}
           /\ \A j \in 1 .. Len(index) : index[j] \in Servers
           /\ Range(index) = {index[j] : j \in 1 .. Len(index)}
           /\ running \in [Servers -> Nat] /\ leaving \in [Servers -> Nat]
           /\ \A s \in Servers : leaving[s] <= running[s]
           /\ \A s \in Servers : running[s] \in {0, 1}
<1>1. TypeOK /\ OneProcess
  BY DEF CtlIInv
<1>2. index \in Seq(Servers) /\ Len(index) \in Nat /\ i \in Nat
      /\ \A j \in 1 .. Len(index) : index[j] \in Servers
  BY <1>1, TheTurn
<1>3. Range(index) = {index[j] : j \in 1 .. Len(index)}
  BY <1>2 DEF Range
<1>4. i # 0
  BY <1>1, <1>2 DEF TypeOK
<1>5. \A s \in Servers : running[s] \in {0, 1}
  BY <1>1 DEF TypeOK, OneProcess
<1> QED
  BY <1>1, <1>2, <1>3, <1>4, <1>5 DEF TypeOK

(* A server that the start has passed was running before, or has been      *)
(* launched by it, so that no SIGTERM is pending.                          *)
LEMMA PassedStep ==
    ASSUME ExactMatch, CtlIInv, [Next]_vars
    PROVE  Passed'
<1> USE DEF Passed, procs
<1>0. Passed /\ InHand
  BY DEF CtlIInv
<1>1. ASSUME NEW c \in {"start", "stop"}, NEW list \in Lists, Command(c, list)
      PROVE  Passed'
  <2>1. index' = list /\ list \in Seq(Servers) /\ i' = 1 /\ pc' = "first"
    BY <1>1, ListsOfServers DEF Command
  <2>2. \A j \in 1 .. Len(index') : ~(j < i')
    BY <2>1
  <2> QED
    BY <2>1, <2>2
<1>2. CASE StartLook
  BY <1>0, <1>2, Positions DEF StartLook, Turn, Step, StayAt
<1>3. CASE ShmTooSmall \/ Launch
  <2>1. pc = "launch" /\ i <= Len(index) /\ i' = i + 1 /\ pc' = "first" /\ cmd = "start"
        /\ UNCHANGED <<leaving, array, index, cmd>>
    BY <1>0, <1>3 DEF ShmTooSmall, Launch, Turn, Step, InHand
  <2>2. leaving[index[i]] = 0
    BY <1>0, <2>1, Positions DEF InHand
  <2>3. \A j \in 1 .. Len(index) : j < i' => j < i \/ j = i
    BY <2>1, Positions
  <2> QED
    BY <1>0, <2>1, <2>2, <2>3
<1>4. CASE StartVerdict
  BY <1>0, <1>4 DEF StartVerdict, Turn, Step
<1>5. CASE StopLook \/ Kill \/ StopVerdict
  BY <1>0, <1>5 DEF StopLook, Kill, StopVerdict, Turn, InHand
<1>6. CASE Sleep
  BY <1>0, <1>6, Positions DEF Sleep
<1>7. CASE Return
  BY <1>7 DEF Return
<1>8. ASSUME NEW s \in Servers, Exit(s)
      PROVE  Passed'
  <2>1. \A t \in Servers : leaving[t] = 0 => leaving'[t] = 0
    BY <1>8, Positions DEF Exit
  <2> QED
    BY <1>0, <1>8, <2>1, Positions DEF Exit
<1>9. ASSUME NEW s \in Servers, Crash(s)
      PROVE  Passed'
  BY <1>0, <1>9 DEF Crash
<1>10. CASE UNCHANGED vars
  BY <1>0, <1>10 DEF vars
<1> QED
  BY <1>1, <1>2, <1>3, <1>4, <1>5, <1>6, <1>7, <1>8, <1>9, <1>10
  DEF Next, Script

(* No process comes up or goes but by Launch, Exit and Crash; of those     *)
(* judged running without a SIGTERM, only a crash takes one away.          *)
LEMMA JudgedStep ==
    ASSUME ExactMatch, CtlIInv, [Next]_vars
    PROVE  Judged'
<1> USE DEF Judged, procs
<1>0. Judged /\ Passed /\ InHand
  BY DEF CtlIInv
<1>1. CASE pc' # "second" \/ flag'
  BY <1>1
<1>2. CASE StartVerdict
  <2>1. pc = "second" /\ i <= Len(index) /\ i' = i + 1 /\ cmd = "start"
        /\ UNCHANGED <<running, leaving, index, cmd, crashed, array, pc>>
    BY <1>2 DEF StartVerdict, Turn, Step
  <2>2. ASSUME ~flag'
        PROVE  ~flag /\ running[index[i]] = 1 /\ leaving[index[i]] = 0
    <3>1. ~flag /\ CameUp(index[i])
      BY <1>2, <2>2 DEF StartVerdict
    <3>2. i \in 1 .. Len(index) /\ index[i] \in Servers
      BY <2>1, Positions
    <3>3. running[index[i]] = 1 /\ index[i] \notin array
      BY <3>1, <3>2, FoundExactly DEF CameUp, IsRunning
    <3> QED
      BY <1>0, <2>1, <3>1, <3>2, <3>3 DEF Passed
  <2>3. \A j \in 1 .. Len(index) : j < i' => j < i \/ j = i
    BY <2>1, Positions
  <2> QED
    BY <1>0, <2>1, <2>2, <2>3
<1>3. CASE StopVerdict
  <2>1. pc = "second" /\ i <= Len(index) /\ i' = i + 1 /\ cmd = "stop"
        /\ UNCHANGED <<running, leaving, index, cmd, crashed, array, pc>>
    BY <1>3 DEF StopVerdict, Turn, Step
  <2>2. ASSUME ~flag'
        PROVE  ~flag /\ (index[i] \in {Cs, Mem} => running[index[i]] = 0)
    <3>1. ~flag /\ (index[i] \in {Cs, Mem} => ~IsRunning(index[i]))
      BY <1>3, <2>2 DEF StopVerdict
    <3>2. i \in 1 .. Len(index) /\ index[i] \in Servers
      BY <2>1, Positions
    <3>3. running[index[i]] = 1 => IsRunning(index[i])
      BY <3>2, FoundExactly DEF IsRunning
    <3> QED
      BY <3>1, <3>2, <3>3, Positions
  <2>3. \A j \in 1 .. Len(index) : j < i' => j < i \/ j = i
    BY <2>1, Positions
  <2> QED
    BY <1>0, <2>1, <2>2, <2>3
<1>4. CASE Sleep
  <2>1. \A j \in 1 .. Len(index') : ~(j < i')
    BY <1>4, Positions DEF Sleep
  <2> QED
    BY <2>1
<1>5. ASSUME NEW s \in Servers, Exit(s)
      PROVE  Judged'
  <2>1. \A t \in Servers : /\ running[t] = 1 /\ leaving[t] = 0
                                => running'[t] = 1 /\ leaving'[t] = 0
                          /\ running[t] = 0 => running'[t] = 0
    BY <1>5, Positions DEF Exit
  <2> QED
    BY <1>0, <1>5, <2>1, Positions DEF Exit
<1>6. ASSUME NEW s \in Servers, Crash(s)
      PROVE  Judged'
  <2>1. crashed' /\ \A t \in Servers : running[t] = 0 => running'[t] = 0
    BY <1>6, Positions DEF Crash
  <2> QED
    BY <1>0, <1>6, <2>1, Positions DEF Crash
<1>7. CASE UNCHANGED vars
  BY <1>0, <1>7 DEF vars
<1>8. ASSUME NEW c \in {"start", "stop"}, NEW list \in Lists, Command(c, list)
      PROVE  Judged'
  BY <1>8 DEF Command
<1>9. CASE StartLook \/ ShmTooSmall \/ Launch \/ StopLook \/ Kill \/ Return
  BY <1>9 DEF StartLook, ShmTooSmall, Launch, StopLook, Kill, Return, Turn, Step, StayAt
<1> QED
  BY <1>2, <1>3, <1>4, <1>5, <1>6, <1>7, <1>8, <1>9 DEF Next, Script

(* The result of a run, and what becomes of it until the next.             *)
LEMMA ResultStep ==
    ASSUME ExactMatch, CtlIInv, [Next]_vars
    PROVE  StartedRuns' /\ StoppedIsGone'
<1> USE DEF StartedRuns, StoppedIsGone, procs
<1>0. StartedRuns /\ StoppedIsGone /\ Judged
  BY DEF CtlIInv
<1>1. CASE Return
  <2>1. pc = "second" /\ pc' = "idle"
        /\ UNCHANGED <<running, leaving, index, cmd, flag, crashed>>
    BY <1>1 DEF Return
  <2>2. \A j \in 1 .. Len(index) : j < i
    BY <1>1, Positions DEF Return
  <2>3. Range(index)' = Range(index)
    BY <2>1 DEF Range
  <2>4. ASSUME ~flag, NEW s \in Range(index)
        PROVE  /\ cmd = "start" /\ ~crashed => running[s] = 1 /\ leaving[s] = 0
               /\ cmd = "stop" /\ s \in {Cs, Mem} => running[s] = 0
    <3>1. PICK j \in 1 .. Len(index) : index[j] = s
      BY Positions
    <3>2. /\ cmd = "start" /\ ~crashed => running[index[j]] = 1 /\ leaving[index[j]] = 0
          /\ cmd = "stop" /\ index[j] \in {Cs, Mem} => running[index[j]] = 0
      BY <1>0, <2>1, <2>2, <2>4 DEF Judged
    <3> QED
      BY <3>1, <3>2
  <2>5. StartedRuns'
    BY <2>1, <2>3, <2>4
  <2>6. StoppedIsGone'
    BY <2>1, <2>3, <2>4
  <2> QED
    BY <2>5, <2>6
<1>2. ASSUME NEW s \in Servers, Exit(s)
      PROVE  StartedRuns' /\ StoppedIsGone'
  <2>1. \A t \in Servers : /\ running[t] = 1 /\ leaving[t] = 0
                                => running'[t] = 1 /\ leaving'[t] = 0
                          /\ running[t] = 0 => running'[t] = 0
    BY <1>2, Positions DEF Exit
  <2>2. Range(index) \subseteq Servers /\ Range(index)' = Range(index)
    BY <1>2, Positions DEF Exit
  <2> QED
    BY <1>0, <1>2, <2>1, <2>2 DEF Exit
<1>3. ASSUME NEW s \in Servers, Crash(s)
      PROVE  StartedRuns' /\ StoppedIsGone'
  <2>1. crashed' /\ \A t \in Servers : running[t] = 0 => running'[t] = 0
    BY <1>3, Positions DEF Crash
  <2>2. Range(index) \subseteq Servers /\ Range(index)' = Range(index)
    BY <1>3, Positions DEF Crash
  <2> QED
    BY <1>0, <1>3, <2>1, <2>2 DEF Crash
<1>4. CASE UNCHANGED vars
  BY <1>0, <1>4 DEF vars, Range
<1>5. ASSUME NEW c \in {"start", "stop"}, NEW list \in Lists, Command(c, list)
      PROVE  StartedRuns' /\ StoppedIsGone'
  BY <1>5 DEF Command
<1>6. CASE \/ StartLook \/ ShmTooSmall \/ Launch \/ StartVerdict
           \/ StopLook \/ Kill \/ StopVerdict \/ Sleep
  BY <1>6 DEF StartLook, ShmTooSmall, Launch, StartVerdict, StopLook, Kill,
              StopVerdict, Sleep, Turn, Step, StayAt
<1> QED
  BY <1>1, <1>2, <1>3, <1>4, <1>5, <1>6 DEF Next, Script

(* Where a grep for a server finds that server only, the invariants hold.  *)
THEOREM CtlSafe == ASSUME ExactMatch PROVE Spec => []CtlIInv
<1>1. Init => CtlIInv
  BY CtlInit
<1>2. CtlIInv /\ [Next]_vars => CtlIInv'
  BY CtlTypes, OneAndNamed, PassedStep, JudgedStep, ResultStep DEF CtlIInv
<1> QED
  BY <1>1, <1>2, PTL DEF Spec

(* A server never has two processes, whatever is named twice, slow to exit *)
(* or crashes between the look and the start (tair.sh:197).                *)
THEOREM OneProcessEach == ASSUME ExactMatch PROVE Spec => []OneProcess
<1>1. CtlIInv => OneProcess
  BY DEF CtlIInv
<1> QED
  BY <1>1, CtlSafe, PTL

(* A stop sends its SIGTERM to the servers it was given (tair.sh:287).     *)
THEOREM OthersSurvive == ASSUME ExactMatch PROVE Spec => []OnlyNamedKilled
<1>1. CtlIInv => OnlyNamedKilled
  BY DEF CtlIInv
<1> QED
  BY <1>1, CtlSafe, PTL

(* What the script reports is so.  A start that succeeds has left all its  *)
(* servers running, unless one crashed after the second look               *)
(* (tair.sh:223) ...                                                       *)
THEOREM StartsAreTrue == ASSUME ExactMatch PROVE Spec => []StartedRuns
<1>1. CtlIInv => StartedRuns
  BY DEF CtlIInv
<1> QED
  BY <1>1, CtlSafe, PTL

(* ... and a stop of cs or mem that succeeds has ended it (:242).          *)
THEOREM StopsAreTrue == ASSUME ExactMatch PROVE Spec => []StoppedIsGone
<1>1. CtlIInv => StoppedIsGone
  BY DEF CtlIInv
<1> QED
  BY <1>1, CtlSafe, PTL
=============================================================================
