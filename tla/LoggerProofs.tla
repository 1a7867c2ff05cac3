---------------------------- MODULE LoggerProofs ----------------------------
(***************************************************************************)
(* Messages of threads that log into one redirected file reach a log file; *)
(* a file is rotated only when it is full, and when it is full; what was   *)
(* rotated last is kept; no descriptor leaks: for any number of threads,   *)
(* messages, rotations and moves, as long as the file is named once.       *)
(***************************************************************************)
EXTENDS Logger, SequenceTheorems, WellFoundedInduction, TLAPS

(* Between open and the step that ends with the new descriptor in place.   *)
Opened == {"dup2err", "dup2out", "closenew", "close", "assign"}

(* Before the first message only Main runs, and only to name the file.     *)
NamedFirst ==
    /\ messages = 0 => /\ _fileSizeMutex = Nobody
                       /\ \A t \in Threads : seen[t] = None
                       /\ \A t \in Threads : pc[t] = "idle" \/ (t = Main /\ pc[t] \in Replacing)
    /\ namings = 0 => /\ messages = 0 /\ pc[Main] = "idle" /\ _fd = Stderr /\ ~_flag
                      /\ dir[Log] = None /\ missed = 0 /\ rotated = <<>>
                      /\ fds[1] = Tty /\ fds[Stderr] = Tty

(* Whoever compares, renames or unlocks holds the mutex; without checkFile *)
(* whoever replaces the file holds it too.                                 *)
MutexHeld ==
    \A t \in Threads :
        /\ _fileSizeMutex = t => pc[t] \in Rotating \cup Replacing
        /\ pc[t] \in Rotating => _fileSizeMutex = t
        /\ ~_check => /\ pc[t] \notin {"fstat", "stat"} /\ seen[t] = None
                      /\ pc[t] \in Replacing /\ messages > 0 => _fileSizeMutex = t

(* In the mode that redirects, _fd stays stderr, which is never closed, as *)
(* a descriptor that is closed in the end is one that open has returned.   *)
Redirects ==
    ~_flag =>
        /\ _fd = Stderr /\ missed = 0
        /\ fds[1] # Closed /\ fds[Stderr] # Closed
        /\ \A t \in Threads :
              /\ pc[t] \notin {"close", "assign"}
              /\ pc[t] \in Opened => fd[t] \notin {1, Stderr} /\ fds[fd[t]] \in Inodes
              /\ pc[t] = "written" => fd[t] = Stderr
        /\ \A t, s \in Threads :
              t # s /\ pc[t] \in Opened /\ pc[s] \in Opened => fd[t] # fd[s]
        /\ namings > 0 /\ (messages = 0 => pc[Main] = "idle") => fds[Stderr] \in Inodes
        /\ \A t \in Threads : pc[t] \in {"dup2out", "closenew"} => fds[Stderr] \in Inodes

(* Without checkFile, the log is what _fd refers to, or somebody has moved *)
(* it away; in a replacement, it is what the new descriptor refers to.     *)
LogIsFd ==
    ~_check =>
        /\ (\A t \in Threads : pc[t] \notin Opened) => dir[Log] \in {None, fds[_fd]}
        /\ (\A t \in Threads : pc[t] # "assign") => fds[_fd] # Closed
        /\ \A t \in Threads :
              /\ pc[t] \in Opened => /\ fd[t] # _fd /\ fds[fd[t]] \in Inodes
                                     /\ dir[Log] \in {None, fds[fd[t]]}
              /\ pc[t] \in {"dup2out", "closenew"} => fds[_fd] = fds[fd[t]]
              /\ pc[t] \in {"access", "rename"} =>
                    fds[_fd] \in Inodes /\ size[fds[_fd]] >= MaxFileSize

LoggerIInv ==
    TypeOK /\ (namings <= 1 => NamedFirst /\ MutexHeld /\ Redirects /\ LogIsFd /\ RotatedIsFull)

-----------------------------------------------------------------------------
(* open returns a descriptor that was closed.                              *)
LEMMA LowestFreeFacts ==
    ASSUME \E f \in Fds : fds[f] = Closed
    PROVE  LowestFree \in Fds /\ fds[LowestFree] = Closed
<1> DEFINE Free == {f \in Fds : fds[f] = Closed}
<1>1. Free \subseteq Nat /\ Free # {}
  BY LoggerAssumption DEF Fds
<1>2. PICK f \in Free : \A g \in Free : ~ (<<g, f>> \in OpToRel(<, Nat))
  BY <1>1, WFMin, NatLessThanWellFounded
<1>3. \A g \in Free : f <= g
  <2>1. \A g \in Free : ~ (g < f)
    BY <1>1, <1>2 DEF OpToRel
  <2>2. \A g \in Free : g \in Nat /\ f \in Nat
    BY <1>1
  <2> QED
    BY <2>1, <2>2
<1>4. \E h \in Fds : fds[h] = Closed /\ \A g \in Fds : fds[g] = Closed => h <= g
  BY <1>3
<1> QED
  BY <1>4 DEF LowestFree

LEMMA Constants ==
    /\ Log \in Names /\ None = 0 /\ Log = 0 /\ Stderr = 2 /\ Stderr \in Fds /\ 1 \in Fds
    /\ Names \subseteq Nat /\ Fds \subseteq Nat
    /\ Closed # Tty /\ Closed # None /\ Tty # None
    /\ size \in Seq(Nat) => Closed \notin Inodes /\ Tty \notin Inodes /\ None \notin Inodes
    /\ Main \in Threads /\ Nobody \notin Threads
BY LoggerAssumption DEF Log, Names, None, Stderr, Fds, Closed, Tty, Inodes

(* Files are never removed and never shrink.                               *)
LEMMA Grows ==
    ASSUME TypeOK, [Next]_vars
    PROVE  /\ size' \in Seq(Nat) /\ Inodes \subseteq Inodes'
           /\ \A i \in Inodes : size[i] \in Nat /\ size'[i] \in Nat /\ size[i] <= size'[i]
<1>1. size \in Seq(Nat) /\ Inodes = 1 .. Len(size) /\ Len(size) \in Nat
  BY DEF TypeOK, Inodes
<1>2. \A i \in Inodes : size[i] \in Nat
  BY <1>1
<1>3. CASE size' = size
  BY <1>1, <1>2, <1>3 DEF Inodes
<1>4. CASE size' = Append(size, 0)
  <2>1. /\ size' \in Seq(Nat) /\ Len(size') = Len(size) + 1
        /\ \A i \in 1 .. Len(size) : size'[i] = size[i]
    BY <1>1, <1>4, AppendProperties
  <2> QED
    BY <1>1, <1>2, <2>1 DEF Inodes
<1>5. ASSUME NEW n \in Inodes, size' = [size EXCEPT ![n] = @ + 1]
      PROVE  /\ size' \in Seq(Nat) /\ Inodes \subseteq Inodes'
             /\ \A i \in Inodes : size[i] \in Nat /\ size'[i] \in Nat /\ size[i] <= size'[i]
  <2>1. size[n] + 1 \in Nat /\ size' = [size EXCEPT ![n] = size[n] + 1]
    BY <1>2, <1>5
  <2>2. /\ size' \in Seq(Nat) /\ Len(size') = Len(size)
        /\ \A i \in 1 .. Len(size) : size'[i] = IF i = n THEN size[n] + 1 ELSE size[i]
    BY <1>1, <2>1, ExceptSeq
  <2>3. Inodes' = Inodes
    BY <1>1, <2>2 DEF Inodes
  <2>4. ASSUME NEW i \in Inodes PROVE size'[i] \in Nat /\ size[i] <= size'[i]
    <3>1. size[i] \in Nat /\ size[n] \in Nat
      BY <1>2
    <3>2. size'[i] = IF i = n THEN size[n] + 1 ELSE size[i]
      BY <1>1, <2>2
    <3> QED
      BY <3>1, <3>2
  <2> QED
    BY <1>2, <2>2, <2>3, <2>4
<1>6. \/ size' = size \/ size' = Append(size, 0)
      \/ \E n \in Inodes : size' = [size EXCEPT ![n] = @ + 1]
  <2>1. ASSUME NEW t \in Threads, OpenFile(t) PROVE size' = size \/ size' = Append(size, 0)
    BY <2>1 DEF OpenFile, disk
  <2>2. ASSUME NEW t \in Threads, WriteMessage(t)
        PROVE  size' = size \/ \E n \in Inodes : size' = [size EXCEPT ![n] = @ + 1]
    BY <2>2 DEF WriteMessage
  <2>3. ASSUME NEW t \in Threads,
               \/ FstatFd(t) \/ StatName(t) \/ LoadFd(t) \/ LockSize(t) \/ CompareSize(t)
               \/ UnlockSize(t) \/ NameOld(t) \/ RenameLog(t) \/ Dup2Err(t) \/ Dup2Out(t)
               \/ CloseNew(t) \/ CloseOld(t) \/ AssignFd(t) \/ LogMessage(t)
        PROVE  size' = size
    BY <2>3 DEF FstatFd, StatName, LoadFd, LockSize, CompareSize, UnlockSize, NameOld, RenameLog,
                Dup2Err, Dup2Out, CloseNew, CloseOld, AssignFd, LogMessage, disk
  <2>4. ASSUME (\E f \in Flags : SetFileName(f)) \/ Tick \/ MoveLog \/ UNCHANGED vars
        PROVE  size' = size
    BY <2>4 DEF SetFileName, Tick, MoveLog, vars, disk
  <2> QED
    BY <2>1, <2>2, <2>3, <2>4 DEF Next, Thread, Replace
<1> QED
  BY <1>3, <1>4, <1>5, <1>6

LEMMA RetireTyped ==
    ASSUME TypeOK, NEW name \in Names \ {Log}, Retire(name)
    PROVE  /\ _fileList' \in Seq(Names \ {Log}) /\ Len(_fileList') <= MaxFileIndex
           /\ dir' \in [Names -> Inodes \cup {None}] /\ dir'[Log] = dir[Log]
<1>1. _fileList \in Seq(Names \ {Log}) /\ Len(_fileList) <= MaxFileIndex /\ MaxFileIndex \in Nat
  BY LoggerAssumption DEF TypeOK
<1>2. /\ Append(_fileList, name) \in Seq(Names \ {Log})
      /\ Len(Append(_fileList, name)) = Len(_fileList) + 1
  BY <1>1, AppendProperties
<1>3. CASE Len(_fileList) < MaxFileIndex
  BY <1>1, <1>2, <1>3 DEF Retire, RetireAt, TypeOK
<1>4. CASE ~(Len(_fileList) < MaxFileIndex)
  <2>1. _fileList' = Tail(Append(_fileList, name))
    BY <1>4 DEF Retire, RetireAt
  <2>2. /\ _fileList' \in Seq(Names \ {Log})
        /\ Len(_fileList') = Len(_fileList)
    BY <1>1, <1>2, <2>1, HeadTailProperties
  <2>3. CASE _fileList = <<>>
    BY <1>1, <1>4, <2>2, <2>3 DEF Retire, RetireAt, TypeOK
  <2>4. CASE _fileList # <<>>
    <3>1. Head(_fileList) \in Names \ {Log}
      BY <1>1, <2>4, HeadTailProperties
    <3>2. dir' = [dir EXCEPT ![Head(_fileList)] = None]
      BY <1>4, <2>4 DEF Retire, RetireAt
    <3> QED
      BY <1>1, <2>2, <3>1, <3>2, Constants DEF TypeOK
  <2> QED
    BY <2>3, <2>4
<1> QED
  BY <1>3, <1>4

-----------------------------------------------------------------------------
LEMMA WiderSeq ==
    ASSUME NEW A, NEW B, A \subseteq B, NEW q \in Seq(A)
    PROVE  q \in Seq(B)
<1>1. q \in [1 .. Len(q) -> B] /\ Len(q) \in Nat
  OBVIOUS
<1> QED
  BY <1>1

LEMMA TypeStep ==
    ASSUME TypeOK, [Next]_vars
    PROVE  TypeOK'
<1> USE DEF TypeOK
<1>0. /\ size' \in Seq(Nat) /\ Inodes \subseteq Inodes' /\ size \in Seq(Nat)
  BY Grows
<1>1. ASSUME NEW t \in Threads, OpenFile(t) PROVE TypeOK'
  <2>1. LowestFree \in Fds
    BY <1>1, LowestFreeFacts DEF OpenFile
  <2>2. dir' \in [Names -> Inodes' \cup {None}] /\ dir'[Log] \in Inodes'
    <3>1. CASE dir[Log] = None
      <4>1. size' = Append(size, 0) /\ dir' = [dir EXCEPT ![Log] = Len(size')]
        BY <1>1, <3>1 DEF OpenFile
      <4>2. Len(size') = Len(size) + 1 /\ Len(size) \in Nat
        BY <1>0, <4>1, AppendProperties
      <4>3. Len(size') \in Inodes'
        BY <1>0, <4>2 DEF Inodes
      <4> QED
        BY <1>0, <4>1, <4>3, Constants
    <3>2. CASE dir[Log] # None
      BY <1>0, <1>1, <3>2, Constants DEF OpenFile, disk
    <3> QED
      BY <3>1, <3>2
  <2>3. fds' \in [Fds -> Inodes' \cup {Closed, Tty}]
    BY <1>0, <1>1, <2>1, <2>2 DEF OpenFile
  <2>4. rotated' \in Seq([name : Names, inode : Inodes' \cup {None}])
    <3> DEFINE Before == [name : Names, inode : Inodes \cup {None}]
               After == [name : Names, inode : Inodes' \cup {None}]
    <3>1. rotated' = rotated /\ rotated \in Seq(Before)
      BY <1>1 DEF OpenFile
    <3>2. Before \subseteq After
      BY <1>0
    <3> HIDE DEF Before, After
    <3>4. rotated \in Seq(After)
      BY <3>1, <3>2, WiderSeq
    <3> QED
      BY <3>1, <3>4 DEF After
  <2>5. seen' \in [Threads -> Inodes' \cup {None, Closed, Tty}]
    BY <1>0, <1>1 DEF OpenFile
  <2> QED
    BY <1>0, <1>1, <2>1, <2>2, <2>3, <2>4, <2>5 DEF OpenFile, Go, fields, counts, Replacing
<1>2. ASSUME NEW t \in Threads, WriteMessage(t) PROVE TypeOK'
  <2>1. Inodes' = Inodes
    <3>1. CASE size' = size
      BY <3>1 DEF Inodes
    <3>2. CASE fds[fd[t]] \in Inodes /\ size' = [size EXCEPT ![fds[fd[t]]] = @ + 1]
      BY <3>2 DEF Inodes
    <3> QED
      BY <1>2, <3>1, <3>2 DEF WriteMessage
  <2>2. missed' \in Nat
    BY <1>2 DEF WriteMessage
  <2> QED
    BY <1>0, <1>2, <2>1, <2>2 DEF WriteMessage, Go, fields, counts, Logging
<1>3. ASSUME NEW t \in Threads, Dup2Err(t) \/ Dup2Out(t) PROVE TypeOK'
  <2>1. fds[fd[t]] \in Inodes \cup {Closed, Tty} /\ fds' \in [Fds -> Inodes \cup {Closed, Tty}]
    BY <1>3 DEF Dup2Err, Dup2Out
  <2> QED
    BY <1>3, <2>1 DEF Dup2Err, Dup2Out, Go, fields, disk, counts, Replacing, Inodes
<1>4. ASSUME NEW t \in Threads, CloseNew(t) PROVE TypeOK'
  <2>1. Return(t) \in {"unlock", "write", "idle"}
    BY DEF Return
  <2> QED
    BY <1>4, <2>1 DEF CloseNew, Go, fields, disk, counts, Rotating, Logging, Inodes
<1>5. ASSUME NEW t \in Threads, AssignFd(t) PROVE TypeOK'
  <2>1. Return(t) \in {"unlock", "write", "idle"}
    BY DEF Return
  <2> QED
    BY <1>5, <2>1 DEF AssignFd, Go, disk, counts, Rotating, Logging, Inodes
<1>6. ASSUME NEW t \in Threads, CloseOld(t) PROVE TypeOK'
  BY <1>6 DEF CloseOld, Go, fields, disk, counts, Replacing, Inodes
<1>7. ASSUME NEW t \in Threads, FstatFd(t) \/ StatName(t) \/ LoadFd(t) PROVE TypeOK'
  <2>1. CASE FstatFd(t)
    BY <2>1 DEF FstatFd, Go, fields, disk, counts, Logging, Inodes
  <2>2. CASE StatName(t)
    BY <2>2 DEF StatName, Go, fields, disk, counts, Replacing, Logging, Inodes
  <2>3. CASE LoadFd(t)
    BY <2>3 DEF LoadFd, Go, fields, disk, counts, Logging, Inodes
  <2> QED
    BY <1>7, <2>1, <2>2, <2>3
<1>8. ASSUME NEW t \in Threads, LockSize(t) \/ CompareSize(t) \/ UnlockSize(t) PROVE TypeOK'
  <2>1. CASE LockSize(t)
    BY <2>1 DEF LockSize, Go, disk, counts, Rotating, Inodes
  <2>2. CASE CompareSize(t)
    BY <2>2 DEF CompareSize, Go, fields, disk, counts, Rotating, Inodes
  <2>3. CASE UnlockSize(t)
    BY <2>3 DEF UnlockSize, Go, disk, counts, Inodes
  <2> QED
    BY <1>8, <2>1, <2>2, <2>3
<1>9. ASSUME NEW t \in Threads, NameOld(t) PROVE TypeOK'
  <2>1. /\ _fileList' \in Seq(Names \ {Log}) /\ Len(_fileList') <= MaxFileIndex
        /\ dir' \in [Names -> Inodes \cup {None}] /\ oldLogFile' \in [Threads -> Names]
    <3>1. CASE Retire(now) /\ oldLogFile' = [oldLogFile EXCEPT ![t] = now]
      BY <3>1, RetireTyped
    <3>2. CASE UNCHANGED <<oldLogFile, _fileList, dir>>
      BY <3>2
    <3> QED
      BY <1>9, <3>1, <3>2 DEF NameOld
  <2> QED
    BY <1>9, <2>1 DEF NameOld, Go, counts, Rotating, Replacing, Inodes
<1>10. ASSUME NEW t \in Threads, RenameLog(t) PROVE TypeOK'
  <2>1. Inodes' = Inodes /\ dir[Log] \in Inodes \cup {None}
    BY <1>10, Constants DEF RenameLog, Inodes
  <2>2. dir' \in [Names -> Inodes \cup {None}]
    BY <1>10, <2>1, Constants DEF RenameLog
  <2>3. [name |-> oldLogFile[t], inode |-> dir[Log]] \in [name : Names, inode : Inodes \cup {None}]
    BY <2>1
  <2>4. rotated' \in Seq([name : Names, inode : Inodes \cup {None}])
    BY <1>10, <2>3, AppendProperties DEF RenameLog
  <2> QED
    BY <1>10, <2>1, <2>2, <2>4 DEF RenameLog, Go, fields, counts, Replacing
<1>11. ASSUME NEW t \in Threads, LogMessage(t) PROVE TypeOK'
  BY <1>11 DEF LogMessage, Go, fields, disk, Logging, Inodes
<1>12. ASSUME NEW f \in Flags, SetFileName(f) PROVE TypeOK'
  BY <1>12, LoggerAssumption DEF SetFileName, Go, disk, Replacing, Inodes
<1>13. CASE Tick
  BY <1>13, LoggerAssumption DEF Tick, fields, disk, locals, counts, Names, Log, Inodes
<1>14. CASE MoveLog
  BY <1>14, Constants DEF MoveLog, fields, locals, Inodes
<1>15. CASE UNCHANGED vars
  BY <1>15 DEF vars, fields, disk, locals, counts, Inodes
<1> QED
  BY <1>1, <1>2, <1>3, <1>4, <1>5, <1>6, <1>7, <1>8, <1>9, <1>10, <1>11, <1>12, <1>13, <1>14, <1>15
     DEF Next, Thread, Replace

-----------------------------------------------------------------------------
(* A thread is at work only when the file has its name.                    *)
LEMMA AtWork ==
    ASSUME TypeOK, NamedFirst, NEW t \in Threads, pc[t] # "idle"
    PROVE  namings > 0 /\ (messages = 0 => t = Main /\ pc[t] \in Replacing /\ seen[t] = None)
BY DEF NamedFirst, TypeOK

LEMMA MutexStep ==
    ASSUME TypeOK, NamedFirst, MutexHeld, [Next]_vars, namings' <= 1
    PROVE  NamedFirst' /\ MutexHeld'
<1> USE DEF NamedFirst, MutexHeld, Replacing, Rotating
<1> DEFINE Held == NamedFirst' /\ MutexHeld'
<1>0. /\ pc \in [Threads -> {"idle"} \cup Replacing \cup Rotating \cup Logging]
      /\ seen \in [Threads -> Inodes \cup {None, Closed, Tty}]
      /\ namings \in Nat /\ messages \in Nat /\ Main \in Threads /\ Nobody \notin Threads
  BY LoggerAssumption DEF TypeOK
<1>1. ASSUME NEW t \in Threads,
             OpenFile(t) \/ Dup2Err(t) \/ Dup2Out(t) \/ CloseOld(t)
      PROVE  Held
  <2>1. pc[t] \in Replacing /\ namings > 0
    BY <1>1, AtWork DEF OpenFile, Dup2Err, Dup2Out, CloseOld, Go
  <2>2. PICK to \in Replacing : pc' = [pc EXCEPT ![t] = to]
    BY <1>1 DEF OpenFile, Dup2Err, Dup2Out, CloseOld, Go
  <2>3. UNCHANGED <<_fileSizeMutex, _check, seen, namings, messages>>
    BY <1>1 DEF OpenFile, Dup2Err, Dup2Out, CloseOld, fields, counts
  <2> QED
    BY <1>0, <2>1, <2>2, <2>3, AtWork
<1>2. ASSUME NEW t \in Threads, CloseNew(t) \/ AssignFd(t) PROVE Held
  <2>1. pc[t] \in Replacing /\ namings > 0
    BY <1>2, AtWork DEF CloseNew, AssignFd, Go
  <2>2. pc' = [pc EXCEPT ![t] = Return(t)] /\ seen' = [seen EXCEPT ![t] = None]
    BY <1>2 DEF CloseNew, AssignFd, Go
  <2>3. UNCHANGED <<_fileSizeMutex, _check, namings, messages>>
    BY <1>2 DEF CloseNew, AssignFd, fields, counts
  <2>4. /\ _fileSizeMutex = t <=> Return(t) = "unlock"
        /\ Return(t) \in {"unlock", "write", "idle"} /\ (messages = 0 => Return(t) = "idle")
    BY <1>0, <2>1, AtWork DEF Return
  <2> QED
    BY <1>0, <2>1, <2>2, <2>3, <2>4, AtWork
<1>3. ASSUME NEW t \in Threads, FstatFd(t) \/ StatName(t) PROVE Held
  <2>1. pc[t] \in {"fstat", "stat"} /\ namings > 0 /\ messages > 0 /\ _check
    <3>1. pc[t] \in {"fstat", "stat"}
      BY <1>3 DEF FstatFd, StatName, Go
    <3>2. _check
      BY <3>1
    <3>3. namings > 0 /\ (messages = 0 => pc[t] \in Replacing)
      BY <3>1, AtWork
    <3> QED
      BY <1>0, <3>1, <3>2, <3>3
  <2>2. pc' = [pc EXCEPT ![t] = pc'[t]] /\ pc'[t] \in {"stat", "open", "write"}
    BY <1>0, <1>3 DEF FstatFd, StatName, Go
  <2>3. UNCHANGED <<_fileSizeMutex, _check, namings, messages>>
    BY <1>3 DEF FstatFd, StatName, fields, counts
  <2> QED
    BY <1>0, <2>1, <2>2, <2>3
<1>4. ASSUME NEW t \in Threads, LoadFd(t) \/ WriteMessage(t) PROVE Held
  <2>1. pc[t] \in {"write", "written"} /\ namings > 0 /\ messages > 0
    BY <1>0, <1>4, AtWork DEF LoadFd, WriteMessage, Go
  <2>2. pc' = [pc EXCEPT ![t] = pc'[t]] /\ pc'[t] \in {"written", "lock"}
    BY <1>0, <1>4 DEF LoadFd, WriteMessage, Go
  <2>3. UNCHANGED <<_fileSizeMutex, _check, seen, namings, messages>>
    BY <1>4 DEF LoadFd, WriteMessage, fields, counts
  <2> QED
    BY <1>0, <2>1, <2>2, <2>3
<1>5. ASSUME NEW t \in Threads, LockSize(t) PROVE Held
  <2>1. pc[t] = "lock" /\ namings > 0 /\ messages > 0 /\ _fileSizeMutex = Nobody
    BY <1>0, <1>5, AtWork DEF LockSize, Go
  <2>2. pc' = [pc EXCEPT ![t] = "lseek"] /\ _fileSizeMutex' = t
    BY <1>5 DEF LockSize, Go
  <2>3. UNCHANGED <<_check, seen, namings, messages>>
    BY <1>5 DEF LockSize, counts
  <2> QED
    BY <1>0, <2>1, <2>2, <2>3
<1>6. ASSUME NEW t \in Threads, CompareSize(t) \/ NameOld(t) \/ RenameLog(t) PROVE Held
  <2>1. pc[t] \in Rotating /\ namings > 0 /\ messages > 0
    BY <1>0, <1>6, AtWork DEF CompareSize, NameOld, RenameLog, Go
  <2>2. pc' = [pc EXCEPT ![t] = pc'[t]] /\ pc'[t] \in Rotating \cup Replacing
    BY <1>0, <1>6 DEF CompareSize, NameOld, RenameLog, Go
  <2>3. UNCHANGED <<_fileSizeMutex, _check, seen, namings, messages>>
    BY <1>6 DEF CompareSize, NameOld, RenameLog, fields, counts
  <2> QED
    BY <1>0, <2>1, <2>2, <2>3
<1>7. ASSUME NEW t \in Threads, UnlockSize(t) PROVE Held
  <2>1. pc[t] = "unlock" /\ namings > 0 /\ messages > 0
    BY <1>0, <1>7, AtWork DEF UnlockSize, Go
  <2>2. pc' = [pc EXCEPT ![t] = "idle"] /\ _fileSizeMutex' = Nobody
    BY <1>7 DEF UnlockSize, Go
  <2>3. UNCHANGED <<_check, seen, namings, messages>>
    BY <1>7 DEF UnlockSize, counts
  <2> QED
    BY <1>0, <2>1, <2>2, <2>3
<1>8. ASSUME NEW t \in Threads, LogMessage(t) PROVE Held
  <2>1. pc[t] = "idle" /\ namings > 0 /\ (messages = 0 => pc[Main] = "idle")
    BY <1>8 DEF LogMessage, Go
  <2>2. pc' = [pc EXCEPT ![t] = IF _check THEN "fstat" ELSE "write"] /\ messages' = messages + 1
    BY <1>8 DEF LogMessage, Go
  <2>3. UNCHANGED <<_fileSizeMutex, _check, seen, namings>>
    BY <1>8 DEF LogMessage, fields
  <2> QED
    BY <1>0, <2>1, <2>2, <2>3
<1>9. ASSUME NEW f \in Flags, SetFileName(f) PROVE Held
  <2>1. namings' = namings + 1 /\ namings = 0
    BY <1>0, <1>9 DEF SetFileName
  <2>2. pc' = [pc EXCEPT ![Main] = "open"] /\ UNCHANGED <<_fileSizeMutex, _check, seen, messages>>
    BY <1>9 DEF SetFileName, Go
  <2> QED
    BY <1>0, <2>1, <2>2
<1>10. CASE Tick \/ UNCHANGED vars
  BY <1>10 DEF Tick, vars, fields, disk, locals, counts
<1>11. CASE MoveLog
  <2>1. /\ UNCHANGED <<fields, fds, pc, seen, namings, messages, missed, rotated>>
        /\ dir[Log] # None /\ dir' = [dir EXCEPT ![Log] = None]
    BY <1>11 DEF MoveLog, locals
  <2> QED
    BY <2>1 DEF fields
<1> QED
  BY <1>1, <1>2, <1>3, <1>4, <1>5, <1>6, <1>7, <1>8, <1>9, <1>10, <1>11 DEF Next, Thread, Replace

-----------------------------------------------------------------------------
(* open returns the lowest descriptor, and it refers to the log.           *)
LEMMA LogOpened ==
    ASSUME TypeOK, NEW t \in Threads, OpenFile(t)
    PROVE  /\ LowestFree \in Fds /\ fds[LowestFree] = Closed /\ fd' = [fd EXCEPT ![t] = LowestFree]
           /\ dir'[Log] \in Inodes' /\ fds' = [fds EXCEPT ![LowestFree] = dir'[Log]]
<1>1. dir'[Log] \in Inodes'
  <2>1. CASE dir[Log] = None
    <3>1. size' = Append(size, 0) /\ dir' = [dir EXCEPT ![Log] = Len(size')] /\ size \in Seq(Nat)
      BY <2>1 DEF OpenFile, TypeOK
    <3>2. Len(size') \in 1 .. Len(size') /\ size' \in Seq(Nat)
      BY <3>1, AppendProperties
    <3> QED
      BY <3>1, <3>2, Constants DEF TypeOK, Inodes
  <2>2. CASE dir[Log] # None
    BY <2>2, Constants DEF OpenFile, disk, TypeOK, Inodes
  <2> QED
    BY <2>1, <2>2
<1> QED
  BY <1>1, LowestFreeFacts DEF OpenFile

LEMMA RedirectsStep ==
    ASSUME TypeOK, NamedFirst, MutexHeld, Redirects, [Next]_vars, namings' <= 1
    PROVE  Redirects'
<1> USE DEF Redirects, Replacing, Opened
<1>0. /\ pc \in [Threads -> {"idle"} \cup Replacing \cup Rotating \cup Logging]
      /\ fd \in [Threads -> Fds] /\ fds \in [Fds -> Inodes \cup {Closed, Tty}] /\ _flag \in BOOLEAN
      /\ namings \in Nat /\ messages \in Nat
  BY DEF TypeOK
<1>01. /\ Stderr = 2 /\ Stderr \in Fds /\ 1 \in Fds /\ Closed \notin Inodes /\ Tty \notin Inodes
       /\ Closed # Tty /\ Main \in Threads
  BY Constants DEF TypeOK
<1>02. Closed \notin Inodes'
  BY Grows, Constants DEF Inodes, Closed
<1>03. Inodes \subseteq Inodes'
  BY Grows
<1>1. ASSUME NEW t \in Threads, OpenFile(t), ~_flag PROVE Redirects'
  <2>1. /\ LowestFree \in Fds /\ fds[LowestFree] = Closed /\ fd' = [fd EXCEPT ![t] = LowestFree]
        /\ dir'[Log] \in Inodes' /\ fds' = [fds EXCEPT ![LowestFree] = dir'[Log]]
    BY <1>1, LogOpened
  <2>2. /\ pc[t] = "open" /\ pc' = [pc EXCEPT ![t] = "dup2err"]
        /\ UNCHANGED <<_fd, _flag, namings, messages, missed>>
    BY <1>1 DEF OpenFile, Go, fields, counts
  <2>3. LowestFree \notin {1, Stderr} /\ \A s \in Threads : pc[s] \in Opened => fd[s] # LowestFree
    BY <1>01, <1>1, <2>1
  <2>4. namings > 0 /\ (messages = 0 => pc'[Main] = "idle") => fds[Stderr] \in Inodes
    BY <1>0, <1>01, <1>1, <2>2, AtWork
  <2> QED
    BY <1>0, <1>01, <1>02, <1>03, <1>1, <2>1, <2>2, <2>3, <2>4
<1>2. ASSUME NEW t \in Threads, Dup2Err(t), ~_flag PROVE Redirects'
  <2>1. /\ pc[t] = "dup2err" /\ pc' = [pc EXCEPT ![t] = "dup2out"]
        /\ fds' = [fds EXCEPT ![Stderr] = fds[fd[t]]]
        /\ UNCHANGED <<_fd, _flag, namings, messages, missed, fd>>
    BY <1>2 DEF Dup2Err, Go, fields, counts
  <2>2. fds[fd[t]] \in Inodes
    BY <1>2, <2>1
  <2> QED
    BY <1>0, <1>01, <1>03, <1>2, <2>1, <2>2
<1>3. ASSUME NEW t \in Threads, Dup2Out(t), ~_flag PROVE Redirects'
  <2>1. /\ pc[t] = "dup2out" /\ pc' = [pc EXCEPT ![t] = "closenew"]
        /\ fds' = [fds EXCEPT ![1] = fds[fd[t]]]
        /\ UNCHANGED <<_fd, _flag, namings, messages, missed, fd>>
    BY <1>0, <1>01, <1>3 DEF Dup2Out, Go, fields, counts
  <2>2. fds[fd[t]] \in Inodes
    BY <1>3, <2>1
  <2> QED
    BY <1>0, <1>01, <1>03, <1>3, <2>1, <2>2
<1>4. ASSUME NEW t \in Threads, CloseNew(t), ~_flag PROVE Redirects'
  <2>1. /\ pc[t] = "closenew" /\ pc' = [pc EXCEPT ![t] = Return(t)]
        /\ fds' = [fds EXCEPT ![fd[t]] = Closed]
        /\ UNCHANGED <<_fd, _flag, namings, messages, missed, fd>>
    BY <1>4 DEF CloseNew, Go, fields, counts
  <2>2. Return(t) \in {"unlock", "write", "idle"}
    BY DEF Return
  <2>3. fd[t] \notin {1, Stderr} /\ fds[Stderr] \in Inodes
    BY <1>4, <2>1
  <2> QED
    BY <1>0, <1>01, <1>03, <1>4, <2>1, <2>2, <2>3
<1>5. ASSUME NEW t \in Threads, CloseOld(t) \/ AssignFd(t), ~_flag PROVE FALSE
  BY <1>5 DEF CloseOld, AssignFd, Go
<1>6. ASSUME NEW t \in Threads, ~_flag,
             \/ FstatFd(t) \/ StatName(t) \/ LockSize(t) \/ CompareSize(t) \/ UnlockSize(t)
             \/ NameOld(t) \/ RenameLog(t)
      PROVE  Redirects'
  <2>1. /\ pc[t] \in Rotating \cup Logging /\ pc[t] \notin Opened
        /\ pc' = [pc EXCEPT ![t] = pc'[t]] /\ pc'[t] \notin Opened \cup {"written"}
        /\ pc[t] \notin Replacing /\ pc[t] # "idle"
    BY <1>0, <1>6 DEF FstatFd, StatName, LockSize, CompareSize, UnlockSize, NameOld, RenameLog, Go,
                      Rotating, Logging
  <2>2. UNCHANGED <<_fd, _flag, namings, messages, missed, fd, fds>>
    BY <1>6 DEF FstatFd, StatName, LockSize, CompareSize, UnlockSize, NameOld, RenameLog, fields, counts
  <2>3. messages > 0
    BY <1>0, <2>1, AtWork
  <2> QED
    BY <1>0, <1>03, <1>6, <2>1, <2>2, <2>3
<1>7. ASSUME NEW t \in Threads, LoadFd(t), ~_flag PROVE Redirects'
  <2>1. /\ pc[t] = "write" /\ pc' = [pc EXCEPT ![t] = "written"] /\ fd' = [fd EXCEPT ![t] = Stderr]
        /\ UNCHANGED <<_fd, _flag, namings, messages, missed, fds>>
    BY <1>7 DEF LoadFd, Go, fields, counts
  <2>2. messages > 0
    BY <1>0, <2>1, AtWork
  <2> QED
    BY <1>0, <1>03, <1>7, <2>1, <2>2
<1>8. ASSUME NEW t \in Threads, WriteMessage(t), ~_flag PROVE Redirects'
  <2>1. /\ pc[t] = "written" /\ pc' = [pc EXCEPT ![t] = "lock"]
        /\ UNCHANGED <<_fd, _flag, namings, messages, fd, fds>>
    BY <1>8 DEF WriteMessage, Go, fields, counts
  <2>2. messages > 0 /\ namings > 0
    BY <1>0, <2>1, AtWork
  <2>3. fds[fd[t]] \in Inodes
    BY <1>0, <1>8, <2>1, <2>2
  <2>4. missed' = missed
    BY <1>8, <2>3 DEF WriteMessage
  <2> QED
    BY <1>0, <1>03, <1>8, <2>1, <2>2, <2>4
<1>9. ASSUME NEW t \in Threads, LogMessage(t), ~_flag PROVE Redirects'
  <2>1. /\ pc[t] = "idle" /\ pc' = [pc EXCEPT ![t] = pc'[t]] /\ pc'[t] \in {"fstat", "write"}
        /\ namings > 0 /\ (messages = 0 => pc[Main] = "idle")
        /\ UNCHANGED <<_fd, _flag, namings, missed, fd, fds>>
    BY <1>0, <1>9 DEF LogMessage, Go, fields
  <2> QED
    BY <1>0, <1>03, <1>9, <2>1
<1>10. ASSUME NEW f \in Flags, SetFileName(f) PROVE Redirects'
  <2>1. namings = 0 /\ UNCHANGED <<_fd, messages, missed, fd, fds>> /\ pc' = [pc EXCEPT ![Main] = "open"]
    BY <1>0, <1>10 DEF SetFileName, Go
  <2>2. /\ messages = 0 /\ _fd = Stderr /\ missed = 0 /\ fds[1] = Tty /\ fds[Stderr] = Tty
        /\ \A s \in Threads : pc[s] = "idle"
    BY <2>1 DEF NamedFirst
  <2> QED
    BY <1>0, <1>01, <2>1, <2>2
<1>11. CASE Tick \/ MoveLog \/ UNCHANGED vars
  <2>1. UNCHANGED <<_fd, _flag, namings, messages, missed, fd, fds, pc>>
    BY <1>11 DEF Tick, MoveLog, vars, fields, locals, counts
  <2> QED
    BY <1>03, <2>1
<1>12. ASSUME NEW t \in Threads, Thread(t) \/ LogMessage(t), _flag PROVE Redirects'
  <2>1. _flag' = _flag
    BY <1>12 DEF Thread, Replace, LogMessage, FstatFd, StatName, LoadFd, WriteMessage, LockSize, CompareSize,
                 UnlockSize, NameOld, RenameLog, OpenFile, Dup2Err, Dup2Out, CloseNew, CloseOld,
                 AssignFd, fields
  <2> QED
    BY <1>12, <2>1
<1> QED
  BY <1>1, <1>2, <1>3, <1>4, <1>5, <1>6, <1>7, <1>8, <1>9, <1>10, <1>11, <1>12
     DEF Next, Thread, Replace

-----------------------------------------------------------------------------
(* Without checkFile, one thread at a time compares, renames or replaces.  *)
LEMMA Alone ==
    ASSUME TypeOK, NamedFirst, MutexHeld, ~_check, NEW t \in Threads, NEW s \in Threads,
           pc[t] \in Rotating \cup Replacing, pc[s] \in Rotating \cup Replacing
    PROVE  t = s
<1>1. messages \in Nat /\ Nobody \notin Threads
  BY Constants DEF TypeOK
<1>2. CASE messages = 0
  BY <1>2 DEF NamedFirst, Rotating, Replacing
<1>3. CASE messages > 0
  BY <1>3 DEF MutexHeld
<1> QED
  BY <1>1, <1>2, <1>3

LEMMA LogIsFdStep ==
    ASSUME TypeOK, NamedFirst, MutexHeld, LogIsFd, [Next]_vars, namings' <= 1
    PROVE  LogIsFd'
<1> USE DEF LogIsFd, Opened
<1>0. /\ pc \in [Threads -> {"idle"} \cup Replacing \cup Rotating \cup Logging]
      /\ fd \in [Threads -> Fds] /\ fds \in [Fds -> Inodes \cup {Closed, Tty}] /\ _fd \in Fds
      /\ dir \in [Names -> Inodes \cup {None}] /\ namings \in Nat
  BY DEF TypeOK
<1>01. /\ Stderr = 2 /\ Stderr \in Fds /\ 1 \in Fds /\ Closed \notin Inodes /\ Tty \notin Inodes
       /\ Closed # Tty /\ Main \in Threads /\ Log \in Names
  BY Constants DEF TypeOK
<1>02. Closed \notin Inodes'
  BY Grows, Constants DEF Inodes, Closed
<1>03. /\ Inodes \subseteq Inodes' /\ MaxFileSize \in Nat
       /\ \A i \in Inodes : size[i] \in Nat /\ size'[i] \in Nat /\ size[i] <= size'[i]
  BY Grows, LoggerAssumption
<1>04. \A i \in Inodes : size[i] >= MaxFileSize => size'[i] >= MaxFileSize
  BY <1>03
<1>1. ASSUME NEW t \in Threads, OpenFile(t), ~_check PROVE LogIsFd'
  <2>1. /\ LowestFree \in Fds /\ fds[LowestFree] = Closed /\ fd' = [fd EXCEPT ![t] = LowestFree]
        /\ dir'[Log] \in Inodes' /\ fds' = [fds EXCEPT ![LowestFree] = dir'[Log]]
    BY <1>1, LogOpened
  <2>2. /\ pc[t] = "open" /\ pc' = [pc EXCEPT ![t] = pc'[t]] /\ pc'[t] \in {"close", "dup2err"}
        /\ UNCHANGED <<_fd, _check>>
    BY <1>0, <1>1 DEF OpenFile, Go, fields
  <2>3. \A s \in Threads : pc[s] \in Rotating \cup Replacing => s = t
    BY <1>1, <2>2, Alone DEF Replacing
  <2>4. fds[_fd] # Closed /\ LowestFree # _fd
    BY <1>1, <2>1, <2>2, <2>3 DEF Replacing
  <2>5. \A s \in Threads : s # t => pc'[s] = pc[s] /\ pc[s] \notin Rotating \cup Replacing
    BY <1>0, <2>2, <2>3
  <2>6. fd'[t] = LowestFree /\ fds'[LowestFree] = dir'[Log] /\ fds'[_fd] = fds[_fd]
    BY <1>0, <2>1, <2>4
  <2> QED
    BY <1>0, <1>1, <2>1, <2>2, <2>4, <2>5, <2>6 DEF Rotating, Replacing
<1>2. ASSUME NEW t \in Threads, Dup2Err(t) \/ Dup2Out(t), ~_check PROVE LogIsFd'
  <2>1. /\ pc[t] \in {"dup2err", "dup2out"} /\ pc' = [pc EXCEPT ![t] = pc'[t]]
        /\ pc'[t] \in {"dup2out", "closenew"}
        /\ UNCHANGED <<_fd, _check, fd, dir, size>>
    BY <1>0, <1>2 DEF Dup2Err, Dup2Out, Go, fields, disk
  <2>2. \A s \in Threads : pc[s] \in Rotating \cup Replacing => s = t
    BY <1>2, <2>1, Alone DEF Replacing
  <2>3. fd[t] # _fd /\ fds[fd[t]] \in Inodes /\ dir[Log] \in {None, fds[fd[t]]}
    BY <1>2, <2>1
  <2>4. fds'[_fd] = fds[fd[t]] /\ fds'[fd[t]] = fds[fd[t]]
    <3>1. CASE Dup2Err(t)
      BY <1>0, <2>3, <3>1 DEF Dup2Err
    <3>2. CASE Dup2Out(t)
      <4>1. fds[_fd] = fds[fd[t]]
        BY <1>2, <3>2 DEF Dup2Out, Go
      <4>2. fds' = [f \in Fds |-> IF f = 1 \/ (f = Stderr /\ _fd # Stderr) THEN fds[fd[t]] ELSE fds[f]]
        BY <3>2 DEF Dup2Out
      <4> QED
        BY <1>0, <4>1, <4>2
    <3> QED
      BY <1>2, <3>1, <3>2
  <2>5. \A s \in Threads : s # t => pc'[s] = pc[s] /\ pc[s] \notin Rotating \cup Replacing
    BY <1>0, <2>1, <2>2
  <2> QED
    BY <1>0, <1>01, <1>03, <1>2, <2>1, <2>3, <2>4, <2>5 DEF Rotating, Replacing
<1>3. ASSUME NEW t \in Threads, CloseNew(t) \/ AssignFd(t), ~_check PROVE LogIsFd'
  <2>1. /\ pc[t] \in {"closenew", "assign"} /\ pc' = [pc EXCEPT ![t] = Return(t)]
        /\ UNCHANGED <<_check, fd, dir, size>>
    BY <1>3 DEF CloseNew, AssignFd, Go, fields, disk
  <2>2. \A s \in Threads : pc[s] \in Rotating \cup Replacing => s = t
    BY <1>3, <2>1, Alone DEF Replacing
  <2>3. fd[t] # _fd /\ fds[fd[t]] \in Inodes /\ dir[Log] \in {None, fds[fd[t]]}
    BY <1>3, <2>1
  <2>4. fds'[_fd'] = fds[fd[t]]
    <3>1. CASE CloseNew(t)
      BY <1>0, <1>3, <2>3, <3>1 DEF CloseNew, Go, fields
    <3>2. CASE AssignFd(t)
      BY <3>2 DEF AssignFd
    <3> QED
      BY <1>3, <3>1, <3>2
  <2>5. Return(t) \in {"unlock", "write", "idle"}
    BY DEF Return
  <2>6. \A s \in Threads : s # t => pc'[s] = pc[s] /\ pc[s] \notin Rotating \cup Replacing
    BY <1>0, <2>1, <2>2
  <2> QED
    BY <1>0, <1>01, <1>3, <2>1, <2>3, <2>4, <2>5, <2>6 DEF Rotating, Replacing
<1>4. ASSUME NEW t \in Threads, CloseOld(t), ~_check PROVE LogIsFd'
  <2>1. /\ pc[t] = "close" /\ pc' = [pc EXCEPT ![t] = "assign"]
        /\ fds' \in {fds, [fds EXCEPT ![_fd] = Closed]}
        /\ UNCHANGED <<_fd, _check, fd, dir, size>>
    BY <1>4 DEF CloseOld, Go, fields, disk
  <2>2. \A s \in Threads : pc[s] \in Rotating \cup Replacing => s = t
    BY <1>4, <2>1, Alone DEF Replacing
  <2>3. fd[t] # _fd /\ fds[fd[t]] \in Inodes /\ dir[Log] \in {None, fds[fd[t]]}
    BY <1>4, <2>1
  <2>4. fds'[fd[t]] = fds[fd[t]]
    BY <1>0, <2>1, <2>3
  <2>5. \A s \in Threads : s # t => pc'[s] = pc[s] /\ pc[s] \notin Rotating \cup Replacing
    BY <1>0, <2>1, <2>2
  <2> QED
    BY <1>0, <1>03, <1>4, <2>1, <2>3, <2>4, <2>5 DEF Rotating, Replacing
<1>5. ASSUME NEW t \in Threads, CompareSize(t), ~_check PROVE LogIsFd'
  <2>1. /\ pc[t] = "lseek" /\ pc' = [pc EXCEPT ![t] = IF ReachesMax(_fd) THEN "access" ELSE "unlock"]
        /\ UNCHANGED <<_fd, _check, fd, fds, dir, size>>
    BY <1>5 DEF CompareSize, Go, fields, disk
  <2> QED
    BY <1>0, <1>03, <1>5, <2>1 DEF ReachesMax
<1>6. ASSUME NEW t \in Threads, LockSize(t) \/ UnlockSize(t) \/ LoadFd(t) \/ WriteMessage(t) \/ LogMessage(t),
             ~_check
      PROVE  LogIsFd'
  <2>1. /\ pc[t] \notin Opened \cup {"access", "rename"} /\ pc' = [pc EXCEPT ![t] = pc'[t]]
        /\ pc'[t] \notin Opened \cup {"access", "rename"}
    BY <1>0, <1>6 DEF LockSize, UnlockSize, LoadFd, WriteMessage, LogMessage, Go
  <2>2. UNCHANGED <<_fd, _check, fds, dir>> /\ \A s \in Threads : s # t => fd'[s] = fd[s]
    BY <1>0, <1>6 DEF LockSize, UnlockSize, LoadFd, WriteMessage, LogMessage, fields, disk
  <2> QED
    BY <1>0, <1>03, <1>04, <1>6, <2>1, <2>2
<1>7. ASSUME NEW t \in Threads, NameOld(t), ~_check PROVE LogIsFd'
  <2>1. /\ pc[t] = "access" /\ pc' = [pc EXCEPT ![t] = pc'[t]] /\ pc'[t] \in {"open", "rename"}
        /\ UNCHANGED <<_fd, _check, fd, fds, size>>
    BY <1>0, <1>7 DEF NameOld, Go
  <2>2. dir'[Log] = dir[Log]
    <3>1. CASE Retire(now)
      BY <3>1, RetireTyped DEF TypeOK
    <3>2. CASE UNCHANGED <<oldLogFile, _fileList, dir>>
      BY <3>2
    <3> QED
      BY <1>7, <3>1, <3>2 DEF NameOld
  <2> QED
    BY <1>0, <1>03, <1>7, <2>1, <2>2
<1>8. ASSUME NEW t \in Threads, RenameLog(t), ~_check PROVE LogIsFd'
  <2>1. /\ pc[t] = "rename" /\ pc' = [pc EXCEPT ![t] = "open"]
        /\ UNCHANGED <<_fd, _check, fd, fds, size>>
    BY <1>8 DEF RenameLog, Go, fields
  <2>2. dir'[Log] = None
    BY <1>0, <1>01, <1>8 DEF RenameLog
  <2> QED
    BY <1>0, <1>03, <1>8, <2>1, <2>2
<1>9. ASSUME NEW f \in Flags, SetFileName(f) PROVE LogIsFd'
  <2>1. namings = 0 /\ UNCHANGED <<_fd, fd, fds, dir, size>> /\ pc' = [pc EXCEPT ![Main] = "open"]
    BY <1>0, <1>9 DEF SetFileName, Go, disk
  <2>2. /\ _fd = Stderr /\ fds[Stderr] = Tty /\ dir[Log] = None
        /\ \A s \in Threads : pc[s] = "idle"
    BY <2>1 DEF NamedFirst
  <2> QED
    BY <1>0, <1>01, <2>1, <2>2
<1>10. CASE Tick \/ UNCHANGED vars
  <2>1. UNCHANGED <<_fd, _check, fd, fds, dir, size, pc>>
    BY <1>10 DEF Tick, vars, fields, disk, locals
  <2> QED
    BY <1>03, <2>1
<1>11. CASE MoveLog
  <2>1. UNCHANGED <<_fd, _check, fd, fds, size, pc>> /\ dir'[Log] = None
    BY <1>0, <1>01, <1>11 DEF MoveLog, fields, locals
  <2> QED
    BY <1>0, <1>03, <2>1
<1>12. ASSUME NEW t \in Threads, Thread(t) \/ LogMessage(t), _check PROVE LogIsFd'
  <2>1. _check' = _check
    BY <1>12 DEF Thread, Replace, LogMessage, FstatFd, StatName, LoadFd, WriteMessage, LockSize, CompareSize,
                 UnlockSize, NameOld, RenameLog, OpenFile, Dup2Err, Dup2Out, CloseNew, CloseOld,
                 AssignFd, fields
  <2> QED
    BY <1>12, <2>1
<1>13. ASSUME NEW t \in Threads, FstatFd(t) \/ StatName(t), ~_check PROVE FALSE
  BY <1>13 DEF FstatFd, StatName, Go, MutexHeld
<1> QED
  BY <1>1, <1>2, <1>3, <1>4, <1>5, <1>6, <1>7, <1>8, <1>9, <1>10, <1>11, <1>12, <1>13
     DEF Next, Thread, Replace

LEMMA FullStep ==
    ASSUME TypeOK, NamedFirst, MutexHeld, LogIsFd, RotatedIsFull, [Next]_vars
    PROVE  RotatedIsFull'
<1>1. /\ rotated \in Seq([name : Names, inode : Inodes \cup {None}])
      /\ \A i \in DOMAIN rotated : rotated[i].inode \in Inodes \cup {None}
  <2> DEFINE Rotation == [name : Names, inode : Inodes \cup {None}]
  <2>1. rotated \in Seq(Rotation)
    BY DEF TypeOK
  <2>2. \A r \in Rotation : r.inode \in Inodes \cup {None}
    OBVIOUS
  <2> HIDE DEF Rotation
  <2>3. \A i \in DOMAIN rotated : rotated[i] \in Rotation
    BY <2>1
  <2> QED
    BY <2>1, <2>2, <2>3 DEF Rotation
<1>2. /\ \A i \in Inodes : size[i] \in Nat /\ size'[i] \in Nat /\ size[i] <= size'[i]
      /\ MaxFileSize \in Nat
  BY Grows, LoggerAssumption
<1>3. \A i \in Inodes : size[i] >= MaxFileSize => size'[i] >= MaxFileSize
  BY <1>2
<1>4. _check' = _check
  BY DEF Next, Thread, Replace, LogMessage, FstatFd, StatName, LoadFd, WriteMessage, LockSize, CompareSize,
         UnlockSize, NameOld, RenameLog, OpenFile, Dup2Err, Dup2Out, CloseNew, CloseOld,
         AssignFd, SetFileName, Tick, MoveLog, fields, vars
<1>5. CASE rotated' = rotated
  BY <1>1, <1>3, <1>4, <1>5 DEF RotatedIsFull
<1>6. ASSUME NEW t \in Threads, RenameLog(t), ~_check PROVE RotatedIsFull'
  <2>1. pc[t] = "rename" /\ size' = size /\ rotated' = Append(rotated, [name |-> oldLogFile[t], inode |-> dir[Log]])
    BY <1>6 DEF RenameLog, Go
  <2>2. \A s \in Threads : pc[s] \notin Opened
    BY <1>6, <2>1, Alone DEF Rotating, Replacing, Opened
  <2>3. dir[Log] # None => size[dir[Log]] >= MaxFileSize
    BY <1>6, <2>1, <2>2 DEF LogIsFd
  <2>4. /\ DOMAIN rotated' = 1 .. Len(rotated) + 1 /\ Len(rotated) \in Nat
        /\ \A i \in 1 .. Len(rotated) : rotated'[i] = rotated[i]
        /\ rotated'[Len(rotated) + 1].inode = dir[Log]
    BY <1>1, <2>1
  <2> QED
    BY <1>1, <1>6, <2>1, <2>3, <2>4 DEF RotatedIsFull
<1>7. rotated' = rotated \/ \E t \in Threads : RenameLog(t)
  BY DEF Next, Thread, Replace, LogMessage, FstatFd, StatName, LoadFd, WriteMessage, LockSize, CompareSize,
         UnlockSize, NameOld, OpenFile, Dup2Err, Dup2Out, CloseNew, CloseOld,
         AssignFd, SetFileName, Tick, MoveLog, vars
<1>8. CASE _check
  BY <1>4, <1>8 DEF RotatedIsFull
<1> QED
  BY <1>5, <1>6, <1>7, <1>8

-----------------------------------------------------------------------------
LEMMA InitIInv == Init => LoggerIInv
<1> SUFFICES ASSUME Init PROVE LoggerIInv
  OBVIOUS
<1>1. /\ Stderr = 2 /\ Stderr \in Fds /\ 1 \in Fds /\ Closed # Tty /\ Log \in Names /\ Main \in Threads
      /\ Nobody \notin Threads
  BY Constants
<1>2. TypeOK
  <2>1. 1 \in Names \ {Log} /\ MaxFileIndex \in Nat /\ Checks \subseteq BOOLEAN
    BY LoggerAssumption DEF Names, Log
  <2>2. /\ _fd \in Fds /\ _flag \in BOOLEAN /\ _check \in BOOLEAN
        /\ fds \in [Fds -> Inodes \cup {Closed, Tty}] /\ dir \in [Names -> Inodes \cup {None}]
        /\ fd \in [Threads -> Fds] /\ oldLogFile \in [Threads -> Names]
        /\ seen \in [Threads -> Inodes \cup {None, Closed, Tty}]
    BY <1>1, <2>1 DEF Init
  <2>3. /\ _fileList \in Seq(Names \ {Log}) /\ Len(_fileList) <= MaxFileIndex /\ size \in Seq(Nat)
        /\ rotated \in Seq([name : Names, inode : Inodes \cup {None}])
    BY <2>1 DEF Init
  <2> QED
    BY <1>1, <2>1, <2>2, <2>3 DEF Init, TypeOK
<1>3. fds[1] = Tty /\ fds[Stderr] = Tty /\ dir[Log] = None
  BY <1>1 DEF Init
<1>4. NamedFirst /\ MutexHeld
  BY <1>1, <1>3 DEF Init, NamedFirst, MutexHeld, Rotating, Replacing
<1>5. Redirects /\ LogIsFd
  BY <1>1, <1>3 DEF Init, Redirects, LogIsFd, Opened
<1>6. RotatedIsFull
  BY DEF Init, RotatedIsFull
<1> QED
  BY <1>2, <1>4, <1>5, <1>6 DEF LoggerIInv

(* namings only counts up.                                                 *)
LEMMA NamedOnce ==
    ASSUME TypeOK, [Next]_vars, namings' <= 1
    PROVE  namings <= 1
<1>1. namings \in Nat /\ (namings' = namings \/ namings' = namings + 1)
  BY DEF TypeOK, Next, Thread, Replace, LogMessage, FstatFd, StatName, LoadFd, WriteMessage,
         LockSize, CompareSize, UnlockSize, NameOld, RenameLog, OpenFile, Dup2Err, Dup2Out,
         CloseNew, CloseOld, AssignFd, SetFileName, Tick, MoveLog, counts, vars
<1> QED
  BY <1>1

LEMMA InvariantStep == LoggerIInv /\ [Next]_vars => LoggerIInv'
<1> SUFFICES ASSUME LoggerIInv, [Next]_vars PROVE LoggerIInv'
  OBVIOUS
<1>1. TypeOK /\ TypeOK'
  BY TypeStep DEF LoggerIInv
<1>2. ASSUME namings' <= 1
      PROVE  NamedFirst' /\ MutexHeld' /\ Redirects' /\ LogIsFd' /\ RotatedIsFull'
  <2>1. NamedFirst /\ MutexHeld /\ Redirects /\ LogIsFd /\ RotatedIsFull
    BY <1>1, <1>2, NamedOnce DEF LoggerIInv
  <2> QED
    BY <1>1, <1>2, <2>1, MutexStep, RedirectsStep, LogIsFdStep, FullStep
<1> QED
  BY <1>1, <1>2 DEF LoggerIInv

(* The logger keeps its invariant.                                         *)
THEOREM LoggerKept == Spec => []LoggerIInv
BY InitIInv, InvariantStep, PTL DEF Spec

(* Every message written after the file was named, and named once, is in a *)
(* file that was the log: logMessage's write through _fd never meets a     *)
(* closed descriptor, whatever rotations and checks come in between.       *)
THEOREM MessagesAreLogged == Spec => [](namings <= 1 => MessagesReachLog)
<1>1. LoggerIInv => (namings <= 1 => MessagesReachLog)
  BY DEF LoggerIInv, Redirects, MessagesReachLog
<1> QED
  BY <1>1, LoggerKept, PTL

(* The mutex makes the comparison of the size and the rotation one step: a *)
(* file is not rotated twice by two threads that found it full.            *)
THEOREM FullFilesRotate == Spec => [](namings <= 1 => RotatedIsFull)
<1>1. LoggerIInv => (namings <= 1 => RotatedIsFull)
  BY DEF LoggerIInv
<1> QED
  BY <1>1, LoggerKept, PTL

-----------------------------------------------------------------------------
(* Without checkFile, when the log is full, somebody has yet to compare    *)
(* its size, or to rename it.                                              *)
FullIsCompared ==
    ~_check /\ dir[Log] # None /\ size[dir[Log]] >= MaxFileSize =>
        \E t \in Threads : pc[t] \in {"lock", "lseek", "access", "rename"}

(* A step that leaves the log as it is, of a thread that is not about to   *)
(* compare it or stays so.                                                 *)
LEMMA StillCompared ==
    ASSUME TypeOK, FullIsCompared, NEW t \in Threads,
           UNCHANGED <<_check, size>>, dir'[Log] = dir[Log],
           \/ pc' = pc
           \/ /\ pc' = [pc EXCEPT ![t] = pc'[t]]
              /\ \/ pc[t] \notin {"lock", "lseek", "access", "rename"}
                 \/ pc'[t] \in {"lock", "lseek", "access", "rename"}
    PROVE  FullIsCompared'
<1>1. pc \in [Threads -> {"idle"} \cup Replacing \cup Rotating \cup Logging]
  BY DEF TypeOK
<1>2. SUFFICES ASSUME ~_check, dir[Log] # None, size[dir[Log]] >= MaxFileSize
               PROVE  \E s \in Threads : pc'[s] \in {"lock", "lseek", "access", "rename"}
  BY DEF FullIsCompared
<1>3. PICK s \in Threads : pc[s] \in {"lock", "lseek", "access", "rename"}
  BY <1>2 DEF FullIsCompared
<1> QED
  BY <1>1, <1>3

LEMMA ComparedStep ==
    ASSUME TypeOK, NamedFirst, MutexHeld, LogIsFd, FullIsCompared, [Next]_vars, namings' <= 1
    PROVE  FullIsCompared'
<1>0. /\ pc \in [Threads -> {"idle"} \cup Replacing \cup Rotating \cup Logging]
      /\ dir \in [Names -> Inodes \cup {None}] /\ namings \in Nat /\ size \in Seq(Nat)
      /\ Main \in Threads /\ Log \in Names
  BY Constants DEF TypeOK
<1>1. ASSUME NEW t \in Threads, OpenFile(t) PROVE FullIsCompared'
  <2>1. /\ pc[t] = "open" /\ pc' = [pc EXCEPT ![t] = pc'[t]] /\ _check' = _check
    BY <1>0, <1>1 DEF OpenFile, Go, fields
  <2>2. CASE dir[Log] = None
    <3>1. /\ size' = Append(size, 0) /\ dir'[Log] = Len(size')
      BY <1>0, <1>1, <2>2 DEF OpenFile
    <3>2. size'[Len(size')] = 0
      BY <1>0, <3>1, AppendProperties
    <3>3. size'[dir'[Log]] = 0 /\ ~(0 >= MaxFileSize)
      BY <3>1, <3>2, LoggerAssumption
    <3> QED
      BY <3>3 DEF FullIsCompared
  <2>3. CASE dir[Log] # None
    <3>1. UNCHANGED <<size, dir>>
      BY <1>1, <2>3 DEF OpenFile, disk
    <3> QED
      BY <2>1, <3>1, StillCompared
  <2> QED
    BY <2>2, <2>3
<1>2. ASSUME NEW t \in Threads,
             \/ Dup2Err(t) \/ Dup2Out(t) \/ CloseNew(t) \/ CloseOld(t) \/ AssignFd(t)
             \/ FstatFd(t) \/ StatName(t) \/ LoadFd(t) \/ LockSize(t) \/ UnlockSize(t) \/ LogMessage(t)
      PROVE  FullIsCompared'
  <2>1. UNCHANGED <<_check, size, dir>>
    BY <1>2 DEF Dup2Err, Dup2Out, CloseNew, CloseOld, AssignFd, FstatFd, StatName, LoadFd, LockSize,
                UnlockSize, LogMessage, fields, disk
  <2>2. /\ pc' = [pc EXCEPT ![t] = pc'[t]]
        /\ \/ pc[t] \notin {"lock", "lseek", "access", "rename"}
           \/ pc'[t] \in {"lock", "lseek", "access", "rename"}
    BY <1>0, <1>2 DEF Dup2Err, Dup2Out, CloseNew, CloseOld, AssignFd, FstatFd, StatName, LoadFd, LockSize,
                UnlockSize, LogMessage, Go
  <2> QED
    BY <2>1, <2>2, StillCompared
<1>3. ASSUME NEW t \in Threads, WriteMessage(t) PROVE FullIsCompared'
  <2>1. pc'[t] = "lock"
    BY <1>0, <1>3 DEF WriteMessage, Go
  <2> QED
    BY <2>1 DEF FullIsCompared
<1>4. ASSUME NEW t \in Threads, CompareSize(t) PROVE FullIsCompared'
  <2>1. /\ pc[t] = "lseek" /\ UNCHANGED <<_check, size, dir>>
        /\ pc' = [pc EXCEPT ![t] = IF ReachesMax(_fd) THEN "access" ELSE "unlock"]
    BY <1>4 DEF CompareSize, Go, fields, disk
  <2>2. CASE ReachesMax(_fd)
    <3>1. pc'[t] = "access"
      BY <1>0, <2>1, <2>2
    <3> QED
      BY <3>1 DEF FullIsCompared
  <2>3. ASSUME ~_check, dir[Log] # None, size[dir[Log]] >= MaxFileSize
        PROVE  ReachesMax(_fd)
    <3>1. \A s \in Threads : pc[s] \notin Opened
      BY <2>1, <2>3, Alone DEF Rotating, Replacing, Opened
    <3>2. dir[Log] = fds[_fd] /\ dir[Log] \in Inodes
      BY <1>0, <2>3, <3>1 DEF LogIsFd
    <3> QED
      BY <2>3, <3>2 DEF ReachesMax
  <2> QED
    BY <2>1, <2>2, <2>3 DEF FullIsCompared
<1>5. ASSUME NEW t \in Threads, NameOld(t) PROVE FullIsCompared'
  <2>1. /\ UNCHANGED <<_check, size>>
        /\ pc' = [pc EXCEPT ![t] = IF dir[Log] = None THEN "open" ELSE "rename"]
    BY <1>5 DEF NameOld, Go
  <2>2. dir'[Log] = dir[Log]
    <3>1. CASE Retire(now)
      BY <3>1, RetireTyped DEF TypeOK
    <3>2. CASE UNCHANGED <<oldLogFile, _fileList, dir>>
      BY <3>2
    <3> QED
      BY <1>5, <3>1, <3>2 DEF NameOld
  <2>3. dir[Log] # None => pc'[t] = "rename"
    BY <1>0, <2>1
  <2> QED
    BY <2>2, <2>3 DEF FullIsCompared
<1>6. ASSUME MoveLog \/ \E t \in Threads : RenameLog(t) PROVE FullIsCompared'
  <2>1. dir'[Log] = None
    BY <1>0, <1>6 DEF RenameLog, MoveLog
  <2> QED
    BY <2>1 DEF FullIsCompared
<1>7. ASSUME NEW f \in Flags, SetFileName(f) PROVE FullIsCompared'
  <2>1. namings = 0 /\ dir' = dir
    BY <1>0, <1>7 DEF SetFileName, disk
  <2>2. dir'[Log] = None
    BY <2>1 DEF NamedFirst
  <2> QED
    BY <2>2 DEF FullIsCompared
<1>8. CASE Tick \/ UNCHANGED vars
  <2>1. UNCHANGED <<_check, size, dir, pc>>
    BY <1>8 DEF Tick, vars, fields, disk, locals
  <2> QED
    BY <1>0, <2>1, StillCompared
<1> QED
  BY <1>1, <1>2, <1>3, <1>4, <1>5, <1>6, <1>7, <1>8 DEF Next, Thread, Replace

(* Without checkFile, when every call has returned, the log is below its   *)
(* maximum (tblog.h:82), whoever has moved it away meanwhile.              *)
THEOREM FullLogsAreReplaced == Spec => [](namings <= 1 => LogBelowMax)
<1>1. Init => (namings <= 1 => FullIsCompared)
  BY Constants DEF Init, FullIsCompared
<1>2. LoggerIInv /\ (namings <= 1 => FullIsCompared) /\ [Next]_vars => (namings <= 1 => FullIsCompared)'
  <2> SUFFICES ASSUME LoggerIInv, namings <= 1 => FullIsCompared, [Next]_vars, namings' <= 1
               PROVE  FullIsCompared'
    OBVIOUS
  <2>1. namings <= 1
    BY NamedOnce DEF LoggerIInv
  <2> QED
    BY <2>1, ComparedStep DEF LoggerIInv
<1>3. LoggerIInv /\ (namings <= 1 => FullIsCompared) => (namings <= 1 => LogBelowMax)
  <2> SUFFICES ASSUME TypeOK, FullIsCompared, Quiet, ~_check, dir[Log] # None
               PROVE  size[dir[Log]] < MaxFileSize
    BY DEF LoggerIInv, LogBelowMax
  <2>1. ~(size[dir[Log]] >= MaxFileSize)
    BY DEF FullIsCompared, Quiet
  <2>2. dir[Log] \in Inodes /\ size \in Seq(Nat) /\ MaxFileSize \in Nat
    BY Constants, LoggerAssumption DEF TypeOK
  <2>3. size[dir[Log]] \in Nat
    BY <2>2 DEF Inodes
  <2> QED
    BY <2>1, <2>2, <2>3
<1> QED
  BY <1>1, <1>2, <1>3, LoggerKept, PTL DEF Spec

-----------------------------------------------------------------------------
(* The list holds the names of the last files that were renamed, in order; *)
(* if no name was used twice, those files still have their names.          *)
RotatedNames == [i \in DOMAIN rotated |-> rotated[i].name]

Distinct(names) == \A i, j \in DOMAIN names : names[i] = names[j] => i = j

Kept(names) ==
    /\ \/ Len(_fileList) = Len(names)
       \/ Len(_fileList) = MaxFileIndex /\ MaxFileIndex < Len(names)
    /\ \A i \in 1 .. Len(_fileList) : _fileList[i] = names[Len(names) - Len(_fileList) + i]
    /\ Distinct(names) =>
          \A i \in DOMAIN rotated :
             rotated[i].inode # None /\ i > Len(names) - MaxFileIndex => dir[names[i]] = rotated[i].inode

(* A name is in the list before the file has it, but only the thread with  *)
(* the mutex is between the two.                                           *)
FilesListed ==
    /\ \A t \in Threads : pc[t] \in Rotating => _fileSizeMutex = t
    /\ \A i \in DOMAIN rotated : rotated[i].name # Log
    /\ (\A t \in Threads : pc[t] # "rename") => Kept(RotatedNames)
    /\ \A t \in Threads : pc[t] = "rename" => oldLogFile[t] # Log /\ Kept(Append(RotatedNames, oldLogFile[t]))

LEMMA NamesFacts ==
    ASSUME TypeOK
    PROVE  /\ rotated \in Seq([name : Names, inode : Inodes \cup {None}])
           /\ DOMAIN rotated = 1 .. Len(rotated) /\ Len(rotated) \in Nat
           /\ RotatedNames \in Seq(Names) /\ Len(RotatedNames) = Len(rotated)
           /\ \A i \in DOMAIN rotated : RotatedNames[i] = rotated[i].name /\ rotated[i].name \in Names
<1> DEFINE Rotation == [name : Names, inode : Inodes \cup {None}]
<1>1. rotated \in Seq(Rotation)
  BY DEF TypeOK
<1>2. \A r \in Rotation : r.name \in Names
  OBVIOUS
<1> HIDE DEF Rotation
<1>3. DOMAIN rotated = 1 .. Len(rotated) /\ Len(rotated) \in Nat
  BY <1>1
<1>4. \A i \in DOMAIN rotated : rotated[i].name \in Names
  BY <1>1, <1>2
<1>5. RotatedNames = [i \in 1 .. Len(rotated) |-> rotated[i].name]
  BY <1>3 DEF RotatedNames
<1>6. RotatedNames \in Seq(Names) /\ Len(RotatedNames) = Len(rotated)
  BY <1>3, <1>4, <1>5
<1> QED
  BY <1>1, <1>3, <1>4, <1>5, <1>6 DEF Rotation

(* One more name behind others.                                            *)
LEMMA OneMore ==
    ASSUME NEW names \in Seq(Names), NEW name \in Names
    PROVE  /\ Append(names, name) \in Seq(Names) /\ Len(Append(names, name)) = Len(names) + 1
           /\ Len(names) \in Nat /\ DOMAIN names = 1 .. Len(names)
           /\ DOMAIN Append(names, name) = 1 .. Len(names) + 1
           /\ \A i \in 1 .. Len(names) : Append(names, name)[i] = names[i]
           /\ Append(names, name)[Len(names) + 1] = name
           /\ Distinct(Append(names, name)) => Distinct(names) /\ \A i \in 1 .. Len(names) : names[i] # name
<1>1. Len(names) \in Nat /\ DOMAIN names = 1 .. Len(names)
  OBVIOUS
<1>2. PICK more : more = Append(names, name)
  OBVIOUS
<1>3. /\ more \in Seq(Names) /\ Len(more) = Len(names) + 1
      /\ \A i \in 1 .. Len(names) : more[i] = names[i]
      /\ more[Len(names) + 1] = name
  BY <1>2, AppendProperties
<1>4. DOMAIN more = 1 .. Len(names) + 1
  BY <1>3
<1>5. ASSUME Distinct(more)
      PROVE  Distinct(names) /\ \A i \in 1 .. Len(names) : names[i] # name
  <2>1. \A i, j \in 1 .. Len(names) + 1 : more[i] = more[j] => i = j
    BY <1>4, <1>5 DEF Distinct
  <2>2. \A i \in 1 .. Len(names) : i \in 1 .. Len(names) + 1 /\ i # Len(names) + 1
    BY <1>1
  <2>3. Len(names) + 1 \in 1 .. Len(names) + 1
    BY <1>1
  <2> QED
    BY <1>1, <1>3, <2>1, <2>2, <2>3 DEF Distinct
<1> QED
  BY <1>1, <1>2, <1>3, <1>4, <1>5

(* Steps that leave the list, what was renamed and the files that have     *)
(* been renamed.                                                           *)
LEMMA ListStays ==
    ASSUME TypeOK, FilesListed,
           UNCHANGED <<_fileList, rotated, oldLogFile>>, \A n \in Names \ {Log} : dir'[n] = dir[n],
           \A t \in Threads : pc'[t] = "rename" <=> pc[t] = "rename",
           \A t \in Threads : pc'[t] \in Rotating => _fileSizeMutex' = t
    PROVE  FilesListed'
<1>1. /\ RotatedNames' = RotatedNames /\ RotatedNames \in Seq(Names)
      /\ DOMAIN rotated = 1 .. Len(rotated) /\ Len(RotatedNames) = Len(rotated) /\ Len(rotated) \in Nat
      /\ \A i \in DOMAIN rotated : RotatedNames[i] = rotated[i].name /\ rotated[i].name \in Names
  BY NamesFacts DEF RotatedNames
<1>2. \A i \in DOMAIN rotated : RotatedNames[i] \in Names \ {Log}
  BY <1>1 DEF FilesListed
<1>3. ASSUME Kept(RotatedNames) PROVE Kept(RotatedNames)'
  BY <1>1, <1>2, <1>3 DEF Kept
<1>4. ASSUME NEW t \in Threads, Kept(Append(RotatedNames, oldLogFile[t]))
      PROVE  Kept(Append(RotatedNames, oldLogFile[t]))'
  <2>1. PICK more : more = Append(RotatedNames, oldLogFile[t])
    OBVIOUS
  <2>2. oldLogFile[t] \in Names
    BY DEF TypeOK
  <2>3. \A i \in DOMAIN rotated : more[i] = RotatedNames[i]
    BY <1>1, <2>1, <2>2, OneMore
  <2>4. Append(RotatedNames, oldLogFile[t])' = more
    BY <1>1, <2>1
  <2>5. Kept(more)
    BY <1>4, <2>1
  <2>6. \A i \in DOMAIN rotated : dir'[more[i]] = dir[more[i]]
    BY <1>2, <2>3
  <2> QED
    BY <2>4, <2>5, <2>6 DEF Kept
<1> QED
  BY <1>1, <1>3, <1>4 DEF FilesListed

-----------------------------------------------------------------------------
(* rotateLog, before the rename: the list takes the new name, and unlinks  *)
(* the file with the oldest when it is full.                               *)
LEMMA RetireKeeps ==
    ASSUME TypeOK, Kept(RotatedNames), Retire(now), rotated' = rotated, now' = now
    PROVE  Kept(Append(RotatedNames, now))'
<1>1. /\ RotatedNames' = RotatedNames /\ RotatedNames \in Seq(Names)
      /\ DOMAIN rotated = 1 .. Len(rotated) /\ Len(RotatedNames) = Len(rotated) /\ Len(rotated) \in Nat
  BY NamesFacts DEF RotatedNames
<1>2. /\ now \in Names /\ _fileList \in Seq(Names) /\ Len(_fileList) \in Nat
      /\ Len(_fileList) <= MaxFileIndex /\ dir \in [Names -> Inodes \cup {None}]
  BY DEF TypeOK
<1>3. PICK length \in Nat, listed \in Nat, max \in Nat :
         length = Len(rotated) /\ listed = Len(_fileList) /\ max = MaxFileIndex
  BY <1>1, <1>2, LoggerAssumption
<1>4. listed <= max
  BY <1>2, <1>3
<1>5. /\ listed = length \/ (listed = max /\ max < length)
      /\ \A i \in 1 .. listed : _fileList[i] = RotatedNames[length - listed + i]
      /\ Distinct(RotatedNames) =>
            \A i \in 1 .. length :
               rotated[i].inode # None /\ i > length - max => dir[RotatedNames[i]] = rotated[i].inode
  BY <1>1, <1>3 DEF Kept
<1>6. PICK more : more = Append(RotatedNames, now)
  OBVIOUS
<1>7. /\ Len(more) = length + 1 /\ more[length + 1] = now
      /\ \A i \in 1 .. length : more[i] = RotatedNames[i]
      /\ Distinct(more) => Distinct(RotatedNames)
      /\ DOMAIN RotatedNames = 1 .. length
  BY <1>1, <1>2, <1>3, <1>6, OneMore
<1>8. SUFFICES
         /\ \/ Len(_fileList') = length + 1
            \/ Len(_fileList') = max /\ max < length + 1
         /\ \A i \in 1 .. Len(_fileList') : _fileList'[i] = more[length + 1 - Len(_fileList') + i]
         /\ Distinct(more) =>
               \A i \in 1 .. length :
                  rotated[i].inode # None /\ i > length + 1 - max => dir'[more[i]] = rotated[i].inode
  <2>1. Append(RotatedNames, now)' = more
    BY <1>1, <1>6
  <2>2. DOMAIN rotated' = 1 .. length
    BY <1>1, <1>3
  <2>3. SUFFICES
           /\ \/ Len(_fileList') = Len(more)
              \/ Len(_fileList') = MaxFileIndex /\ MaxFileIndex < Len(more)
           /\ \A i \in 1 .. Len(_fileList') : _fileList'[i] = more[Len(more) - Len(_fileList') + i]
           /\ Distinct(more) =>
                 \A i \in DOMAIN rotated' :
                    rotated'[i].inode # None /\ i > Len(more) - MaxFileIndex
                       => dir'[more[i]] = rotated'[i].inode
    BY <2>1 DEF Kept, Distinct
  <2> QED
    BY <1>3, <1>7, <2>2
<1>9. PICK new : new = Append(_fileList, now)
  OBVIOUS
<1>10. /\ new \in Seq(Names) /\ Len(new) = listed + 1 /\ new[listed + 1] = now
       /\ \A i \in 1 .. listed : new[i] = _fileList[i]
  BY <1>2, <1>3, <1>9, AppendProperties
<1>11. \A i \in 1 .. length : i > length + 1 - max => i > length - max
  BY <1>3
<1>12. CASE listed < max
  <2>1. _fileList' = new /\ dir' = dir /\ listed = length
    BY <1>3, <1>5, <1>9, <1>12 DEF Retire, RetireAt
  <2>2. \A i \in 1 .. length + 1 : new[i] = more[i]
    <3>1. ASSUME NEW i \in 1 .. length PROVE new[i] = more[i]
      <4>1. length - listed + i = i
        BY <2>1
      <4> QED
        BY <1>5, <1>7, <1>10, <2>1, <4>1
    <3>2. new[length + 1] = more[length + 1]
      BY <1>7, <1>10, <2>1
    <3>3. \A i \in 1 .. length + 1 : i \in 1 .. length \/ i = length + 1
      OBVIOUS
    <3> QED
      BY <3>1, <3>2, <3>3
  <2>3. Len(_fileList') = length + 1
    BY <1>10, <2>1
  <2>4. \A i \in 1 .. length + 1 : length + 1 - (length + 1) + i = i
    OBVIOUS
  <2>5. \A i \in 1 .. Len(_fileList') : _fileList'[i] = more[length + 1 - Len(_fileList') + i]
    BY <2>1, <2>2, <2>3, <2>4
  <2>6. ASSUME Distinct(more), NEW i \in 1 .. length, rotated[i].inode # None, i > length + 1 - max
        PROVE  dir'[more[i]] = rotated[i].inode
    BY <1>5, <1>7, <1>11, <2>1, <2>6
  <2> QED
    BY <2>3, <2>5, <2>6
<1>13. CASE listed = max
  <2>1. _fileList' = Tail(new) /\ max <= length
    <3>1. ~(Len(_fileList) < MaxFileIndex)
      BY <1>3, <1>13
    <3> QED
      BY <1>4, <1>5, <1>9, <1>13, <3>1 DEF Retire, RetireAt
  <2>2. new # <<>>
    BY <1>10
  <2>3. Len(_fileList') = max /\ \A i \in 1 .. max : _fileList'[i] = new[i + 1]
    <3>1. /\ Len(Tail(new)) = Len(new) - 1
          /\ \A i \in 1 .. Len(Tail(new)) : Tail(new)[i] = new[i + 1]
      BY <1>10, <2>2, HeadTailProperties
    <3>2. Len(new) - 1 = max
      BY <1>10, <1>13
    <3> QED
      BY <2>1, <3>1, <3>2
  <2>4. ASSUME NEW i \in 1 .. max PROVE new[i + 1] = more[length + 1 - max + i]
    <3>1. CASE i = max
      <4>1. i + 1 = listed + 1 /\ length + 1 - max + i = length + 1
        BY <1>13, <3>1
      <4> QED
        BY <1>7, <1>10, <4>1
    <3>2. CASE i # max
      <4>1. PICK k : k = length + 1 - max + i
        OBVIOUS
      <4>2. i + 1 \in 1 .. listed /\ k \in 1 .. length /\ k = length - listed + (i + 1)
        BY <1>13, <2>1, <3>2, <4>1
      <4>3. new[i + 1] = RotatedNames[k]
        BY <1>5, <1>10, <4>2
      <4> QED
        BY <1>7, <4>1, <4>2, <4>3
    <3> QED
      BY <3>1, <3>2
  <2>5. \A i \in 1 .. Len(_fileList') : _fileList'[i] = more[length + 1 - Len(_fileList') + i]
    BY <2>3, <2>4
  <2>6. ASSUME Distinct(more), NEW i \in 1 .. length, rotated[i].inode # None, i > length + 1 - max
        PROVE  dir'[more[i]] = rotated[i].inode
    <3>1. dir[more[i]] = rotated[i].inode /\ more[i] = RotatedNames[i] /\ more[i] \in Names
      BY <1>1, <1>3, <1>5, <1>7, <1>11, <2>6, NamesFacts
    <3>2. CASE _fileList = <<>>
      <4>1. dir' = dir
        BY <3>2 DEF Retire, RetireAt
      <4> QED
        BY <3>1, <4>1
    <3>3. CASE _fileList # <<>>
      <4>1. dir' = [dir EXCEPT ![Head(_fileList)] = None]
        <5>1. ~(Len(_fileList) < MaxFileIndex)
          BY <1>3, <1>13
        <5> QED
          BY <3>3, <5>1 DEF Retire, RetireAt
      <4>2. Head(_fileList) = _fileList[1] /\ 1 \in 1 .. listed
        BY <1>2, <1>3, <3>3
      <4>3. PICK k : k = length - listed + 1
        OBVIOUS
      <4>4. k \in 1 .. length /\ k # i
        BY <1>13, <2>1, <2>6, <4>2, <4>3
      <4>5. Head(_fileList) = RotatedNames[k]
        BY <1>5, <4>2, <4>3
      <4>6. RotatedNames[k] # RotatedNames[i]
        BY <1>7, <2>6, <4>4 DEF Distinct
      <4>7. more[i] # Head(_fileList)
        BY <3>1, <4>5, <4>6
      <4> QED
        BY <1>2, <3>1, <4>1, <4>7
    <3> QED
      BY <3>2, <3>3
  <2>7. max < length + 1
    BY <2>1
  <2> QED
    BY <2>3, <2>5, <2>6, <2>7
<1> QED
  BY <1>4, <1>12, <1>13

(* The rename: the log file gets the name that the list has already.       *)
LEMMA RenameKeeps ==
    ASSUME TypeOK, FilesListed, NEW t \in Threads, RenameLog(t)
    PROVE  Kept(RotatedNames)' /\ \A i \in DOMAIN rotated' : rotated'[i].name # Log
<1>1. /\ RotatedNames \in Seq(Names) /\ rotated \in Seq([name : Names, inode : Inodes \cup {None}])
      /\ DOMAIN rotated = 1 .. Len(rotated) /\ Len(RotatedNames) = Len(rotated) /\ Len(rotated) \in Nat
      /\ \A i \in DOMAIN rotated : RotatedNames[i] = rotated[i].name
  BY NamesFacts
<1>2. PICK old \in Names : old = oldLogFile[t]
  BY DEF TypeOK
<1>3. /\ dir \in [Names -> Inodes \cup {None}] /\ Log \in Names
      /\ old # Log /\ Kept(Append(RotatedNames, old))
  BY <1>2, Constants DEF TypeOK, FilesListed, RenameLog, Go
<1>4. /\ _fileList' = _fileList
      /\ rotated' = Append(rotated, [name |-> old, inode |-> dir[Log]])
      /\ dir' = IF dir[Log] = None THEN dir ELSE [dir EXCEPT ![old] = dir[Log], ![Log] = None]
  BY <1>2 DEF RenameLog, fields
<1>5. PICK length \in Nat : length = Len(rotated)
  BY <1>1
<1>6. /\ DOMAIN rotated' = 1 .. length + 1
      /\ \A i \in 1 .. length : rotated'[i] = rotated[i]
      /\ rotated'[length + 1] = [name |-> old, inode |-> dir[Log]]
  <2>1. [name |-> old, inode |-> dir[Log]] \in [name : Names, inode : Inodes \cup {None}]
    BY <1>3
  <2> QED
    BY <1>1, <1>4, <1>5, <2>1, AppendProperties
<1>7. PICK more : more = Append(RotatedNames, old)
  OBVIOUS
<1>8. /\ more \in Seq(Names) /\ Len(more) = length + 1 /\ DOMAIN more = 1 .. length + 1
      /\ more[length + 1] = old /\ \A i \in 1 .. length : more[i] = RotatedNames[i]
      /\ Distinct(more) => \A i \in 1 .. length : RotatedNames[i] # old
  BY <1>1, <1>5, <1>7, OneMore
<1>9. RotatedNames' = more
  <2>1. ASSUME NEW i \in 1 .. length + 1 PROVE rotated'[i].name = more[i]
    <3>1. i \in 1 .. length \/ i = length + 1
      OBVIOUS
    <3>2. CASE i \in 1 .. length
      BY <1>1, <1>5, <1>6, <1>8, <3>2
    <3>3. CASE i = length + 1
      BY <1>6, <1>8, <3>3
    <3> QED
      BY <3>1, <3>2, <3>3
  <2>2. RotatedNames' = [i \in 1 .. length + 1 |-> rotated'[i].name]
    BY <1>6 DEF RotatedNames
  <2>3. more = [i \in 1 .. length + 1 |-> more[i]]
    BY <1>8
  <2> QED
    BY <2>1, <2>2, <2>3
<1>10. ASSUME Distinct(more), NEW i \in 1 .. length + 1,
              rotated'[i].inode # None, i > Len(more) - MaxFileIndex
       PROVE  dir'[more[i]] = rotated'[i].inode
  <2>1. i \in 1 .. length \/ i = length + 1
    OBVIOUS
  <2>2. CASE i = length + 1
    <3>1. rotated'[i].inode = dir[Log] /\ more[i] = old
      BY <1>6, <1>8, <2>2
    <3>2. dir' = [dir EXCEPT ![old] = dir[Log], ![Log] = None]
      BY <1>4, <1>10, <3>1
    <3> QED
      BY <1>3, <3>1, <3>2
  <2>3. CASE i \in 1 .. length
    <3>1. i \in DOMAIN rotated /\ rotated[i].inode # None /\ rotated'[i] = rotated[i]
      BY <1>1, <1>5, <1>6, <1>10, <2>3
    <3>2. dir[more[i]] = rotated[i].inode
      BY <1>3, <1>7, <1>10, <3>1 DEF Kept
    <3>3. more[i] = rotated[i].name /\ more[i] # old /\ more[i] # Log /\ more[i] \in Names
      BY <1>1, <1>5, <1>8, <1>10, <2>3, <3>1 DEF FilesListed
    <3> QED
      BY <1>3, <1>4, <3>1, <3>2, <3>3
  <2> QED
    BY <2>1, <2>2, <2>3
<1>11. Kept(RotatedNames)'
  BY <1>3, <1>4, <1>6, <1>7, <1>9, <1>10 DEF Kept
<1>12. ASSUME NEW i \in 1 .. length + 1 PROVE rotated'[i].name # Log
  <2>1. i \in 1 .. length \/ i = length + 1
    OBVIOUS
  <2>2. i \in 1 .. length => rotated[i].name # Log
    BY <1>1, <1>5 DEF FilesListed
  <2>3. i = length + 1 => rotated'[i].name = old
    BY <1>6
  <2> QED
    BY <1>3, <1>6, <2>1, <2>2, <2>3
<1> QED
  BY <1>6, <1>11, <1>12

-----------------------------------------------------------------------------
LEMMA ListedStep ==
    ASSUME TypeOK, FilesListed, [Next]_vars
    PROVE  FilesListed'
<1>0. /\ pc \in [Threads -> {"idle"} \cup Replacing \cup Rotating \cup Logging]
      /\ dir \in [Names -> Inodes \cup {None}] /\ Main \in Threads /\ Nobody \notin Threads
      /\ Log \in Names /\ now \in Names \ {Log} /\ oldLogFile \in [Threads -> Names]
      /\ \A t \in Threads : pc[t] \in Rotating => _fileSizeMutex = t
  BY Constants DEF TypeOK, FilesListed
<1>1. ASSUME NEW t \in Threads, FstatFd(t) \/ StatName(t) \/ LoadFd(t) \/ WriteMessage(t) \/ LogMessage(t)
                                  \/ OpenFile(t) \/ Dup2Err(t) \/ Dup2Out(t) \/ CloseOld(t)
      PROVE  FilesListed'
  <2>1. /\ UNCHANGED <<_fileList, _fileSizeMutex, rotated, oldLogFile>>
        /\ \A n \in Names \ {Log} : dir'[n] = dir[n]
    BY <1>0, <1>1 DEF FstatFd, StatName, LoadFd, WriteMessage, LogMessage, OpenFile, Dup2Err, Dup2Out, CloseOld,
                fields, disk
  <2>2. pc' = [pc EXCEPT ![t] = pc'[t]] /\ pc[t] # "rename" /\ pc'[t] \notin Rotating
    BY <1>0, <1>1 DEF FstatFd, StatName, LoadFd, WriteMessage, LogMessage, OpenFile, Dup2Err, Dup2Out, CloseOld,
                Go, Rotating
  <2>3. \A s \in Threads : /\ pc'[s] = "rename" <=> pc[s] = "rename"
                           /\ pc'[s] \in Rotating => _fileSizeMutex' = s
    BY <1>0, <2>1, <2>2 DEF Rotating
  <2> QED
    BY <2>1, <2>3, ListStays
<1>2. ASSUME NEW t \in Threads, CloseNew(t) \/ AssignFd(t) PROVE FilesListed'
  <2>1. UNCHANGED <<_fileList, _fileSizeMutex, rotated, oldLogFile, dir>>
    BY <1>2 DEF CloseNew, AssignFd, fields, disk
  <2>2. pc' = [pc EXCEPT ![t] = Return(t)] /\ pc[t] # "rename"
    BY <1>2 DEF CloseNew, AssignFd, Go
  <2>3. /\ Return(t) \in {"unlock", "write", "idle"}
        /\ Return(t) = "unlock" => _fileSizeMutex = t
    BY DEF Return
  <2>4. \A s \in Threads : /\ pc'[s] = "rename" <=> pc[s] = "rename"
                           /\ pc'[s] \in Rotating => _fileSizeMutex' = s
    BY <1>0, <2>1, <2>2, <2>3 DEF Rotating
  <2> QED
    BY <2>1, <2>4, ListStays
<1>3. ASSUME NEW t \in Threads, LockSize(t) \/ CompareSize(t) \/ UnlockSize(t) PROVE FilesListed'
  <2>1. UNCHANGED <<_fileList, rotated, oldLogFile, dir>>
    BY <1>3 DEF LockSize, CompareSize, UnlockSize, fields, disk
  <2>2. pc' = [pc EXCEPT ![t] = pc'[t]] /\ pc[t] # "rename" /\ pc'[t] # "rename"
    BY <1>0, <1>3 DEF LockSize, CompareSize, UnlockSize, Go
  <2>3. \A s \in Threads : pc'[s] \in Rotating => _fileSizeMutex' = s
    <3>1. CASE LockSize(t)
      <4>1. _fileSizeMutex = Nobody /\ _fileSizeMutex' = t
        BY <3>1 DEF LockSize
      <4> QED
        BY <1>0, <2>2, <4>1
    <3>2. CASE CompareSize(t)
      <4>1. _fileSizeMutex' = _fileSizeMutex /\ pc[t] \in Rotating
        BY <3>2 DEF CompareSize, Go, fields, Rotating
      <4> QED
        BY <1>0, <2>2, <4>1
    <3>3. CASE UnlockSize(t)
      <4>1. pc[t] \in Rotating /\ pc' = [pc EXCEPT ![t] = "idle"]
        BY <3>3 DEF UnlockSize, Go, Rotating
      <4> QED
        BY <1>0, <4>1 DEF Rotating
    <3> QED
      BY <1>3, <3>1, <3>2, <3>3
  <2>4. \A s \in Threads : pc'[s] = "rename" <=> pc[s] = "rename"
    BY <1>0, <2>2
  <2> QED
    BY <2>1, <2>3, <2>4, ListStays
<1>4. ASSUME NEW t \in Threads, NameOld(t) PROVE FilesListed'
  <2>1. /\ pc[t] = "access" /\ pc' = [pc EXCEPT ![t] = IF dir[Log] = None THEN "open" ELSE "rename"]
        /\ UNCHANGED <<_fileSizeMutex, rotated, now>>
    BY <1>4 DEF NameOld, Go
  <2>2. _fileSizeMutex = t /\ \A s \in Threads : s # t => pc[s] \notin Rotating
    BY <1>0, <2>1 DEF Rotating
  <2>3. \A s \in Threads : pc'[s] \in Rotating => _fileSizeMutex' = s
    BY <1>0, <2>1, <2>2
  <2>4. CASE dir[Log] = None
    <3>1. UNCHANGED <<oldLogFile, _fileList, dir>>
      BY <1>4, <2>4 DEF NameOld
    <3>2. \A s \in Threads : pc'[s] = "rename" <=> pc[s] = "rename"
      BY <1>0, <2>1, <2>4
    <3> QED
      BY <2>1, <2>3, <3>1, <3>2, ListStays
  <2>5. CASE dir[Log] # None
    <3>1. oldLogFile' = [oldLogFile EXCEPT ![t] = now] /\ Retire(now)
      BY <1>4, <2>5 DEF NameOld
    <3>2. \A s \in Threads : pc[s] # "rename"
      BY <1>0, <2>1, <2>2 DEF Rotating
    <3>3. Kept(Append(RotatedNames, now))'
      BY <2>1, <3>1, <3>2, RetireKeeps DEF FilesListed
    <3>4. pc'[t] = "rename" /\ \A s \in Threads : pc'[s] = "rename" => s = t
      BY <1>0, <2>1, <2>5, <3>2
    <3>5. oldLogFile'[t] = now' /\ now' # Log
      BY <1>0, <2>1, <3>1
    <3>6. ASSUME NEW s \in Threads, pc'[s] = "rename"
          PROVE  oldLogFile'[s] # Log /\ Kept(Append(RotatedNames, oldLogFile[s]))'
      <4>1. s = t
        BY <3>4, <3>6
      <4>2. oldLogFile'[s] = now'
        BY <3>5, <4>1
      <4>3. Append(RotatedNames, oldLogFile[s])' = Append(RotatedNames, now)'
        BY <4>2
      <4> QED
        BY <3>3, <3>5, <4>2, <4>3 DEF Kept
    <3>7. \A i \in DOMAIN rotated' : rotated'[i].name # Log
      BY <2>1 DEF FilesListed
    <3> QED
      BY <2>3, <3>4, <3>6, <3>7 DEF FilesListed
  <2> QED
    BY <2>4, <2>5
<1>5. ASSUME NEW t \in Threads, RenameLog(t) PROVE FilesListed'
  <2>1. /\ pc[t] = "rename" /\ pc' = [pc EXCEPT ![t] = "open"] /\ UNCHANGED _fileSizeMutex
    BY <1>5 DEF RenameLog, Go, fields
  <2>2. \A s \in Threads : s # t => pc[s] \notin Rotating
    BY <1>0, <2>1 DEF Rotating
  <2>3. \A s \in Threads : pc'[s] \notin Rotating
    BY <1>0, <2>1, <2>2 DEF Rotating
  <2>4. \A s \in Threads : pc'[s] # "rename"
    BY <2>3 DEF Rotating
  <2>5. Kept(RotatedNames)' /\ \A i \in DOMAIN rotated' : rotated'[i].name # Log
    BY <1>5, RenameKeeps
  <2> QED
    BY <2>3, <2>4, <2>5 DEF FilesListed
<1>6. ASSUME NEW f \in Flags, SetFileName(f) PROVE FilesListed'
  <2>1. /\ UNCHANGED <<_fileList, _fileSizeMutex, rotated, oldLogFile, dir>>
        /\ pc[Main] = "idle" /\ pc' = [pc EXCEPT ![Main] = "open"]
    BY <1>6 DEF SetFileName, Go, disk
  <2>2. \A s \in Threads : /\ pc'[s] = "rename" <=> pc[s] = "rename"
                           /\ pc'[s] \in Rotating => _fileSizeMutex' = s
    BY <1>0, <2>1 DEF Rotating
  <2> QED
    BY <2>1, <2>2, ListStays
<1>7. CASE Tick \/ MoveLog \/ UNCHANGED vars
  <2>1. /\ UNCHANGED <<_fileList, _fileSizeMutex, rotated, oldLogFile, pc>>
        /\ \A n \in Names \ {Log} : dir'[n] = dir[n]
    BY <1>0, <1>7 DEF Tick, MoveLog, vars, fields, disk, locals
  <2> QED
    BY <1>0, <2>1, ListStays
<1> QED
  BY <1>1, <1>2, <1>3, <1>4, <1>5, <1>6, <1>7 DEF Next, Thread, Replace

(* The last maxFileIndex rotated files are kept (tblog.h:89), in any mode  *)
(* and however often the file is named, as long as no two rotations fall   *)
(* into one second (tblog.cpp:141).                                        *)
THEOREM RotatedAreKept == Spec => []KeptUnlessSameSecond
<1>1. Init => FilesListed
  <2> SUFFICES ASSUME Init PROVE FilesListed
    OBVIOUS
  <2>1. /\ rotated = <<>> /\ _fileList = <<>> /\ \A t \in Threads : pc[t] = "idle"
    BY DEF Init
  <2>2. RotatedNames = <<>>
    BY <2>1 DEF RotatedNames
  <2>3. Kept(<<>>)
    BY <2>1 DEF Kept
  <2> QED
    BY <2>1, <2>2, <2>3 DEF FilesListed, Rotating
<1>2. LoggerIInv /\ FilesListed /\ [Next]_vars => FilesListed'
  BY ListedStep DEF LoggerIInv
<1>3. LoggerIInv /\ FilesListed => KeptUnlessSameSecond
  <2> SUFFICES ASSUME TypeOK, FilesListed,
                      \A i, j \in DOMAIN rotated : rotated[i].name = rotated[j].name => i = j,
                      \A t \in Threads : pc[t] # "rename",
                      NEW i \in DOMAIN rotated, rotated[i].inode # None, i > Len(rotated) - MaxFileIndex
               PROVE  \E n \in Names : dir[n] = rotated[i].inode
    BY DEF LoggerIInv, KeptUnlessSameSecond, LastFilesKept
  <2>1. /\ Len(RotatedNames) = Len(rotated) /\ DOMAIN RotatedNames = DOMAIN rotated
        /\ \A j \in DOMAIN rotated : RotatedNames[j] = rotated[j].name /\ rotated[j].name \in Names
    BY NamesFacts DEF RotatedNames
  <2>2. Distinct(RotatedNames)
    BY <2>1 DEF Distinct
  <2>3. dir[RotatedNames[i]] = rotated[i].inode
    BY <2>1, <2>2 DEF FilesListed, Kept
  <2> QED
    BY <2>1, <2>3
<1> QED
  BY <1>1, <1>2, <1>3, LoggerKept, PTL DEF Spec

-----------------------------------------------------------------------------
(* Open are stdout, stderr, the log, and what open has returned to a       *)
(* thread that has not yet put it in place; _fd is closed between close    *)
(* and the assignment (tblog.cpp:198).                                     *)
Open(f) == \/ f \in {1, Stderr}
           \/ f = _fd /\ \A t \in Threads : pc[t] # "assign"
           \/ \E t \in Threads : pc[t] \in Opened /\ f = fd[t]

(* In the other mode, the next open may return the number of _fd while it  *)
(* is closed; whoever has assigned the new one has made them differ again, *)
(* unless a second thread closes _fd before that.                          *)
Apart == overlapped => ~_flag \/ ~_check

FdsOwned ==
    Apart =>
        /\ _fd # 1
        /\ \A t \in Threads : pc[t] \in Opened => fd[t] \notin {1, Stderr}
        /\ \A t, s \in Threads : s # t /\ pc[t] \in Opened /\ pc[s] \in Opened => fd[s] # fd[t]
        /\ \A t, s \in Threads : pc[t] = "assign" /\ pc[s] = "assign" => s = t
        /\ \A t \in Threads :
              pc[t] \in Opened /\ (pc[t] = "assign" \/ \A s \in Threads : pc[s] # "assign") => fd[t] # _fd
        /\ \A t \in Threads : _flag => pc[t] \notin {"dup2err", "dup2out", "closenew"}
        /\ \A f \in Fds : fds[f] # Closed <=> Open(f)
        /\ ~_check /\ (\A t \in Threads : pc[t] # "dup2out") => fds[1] = fds[Stderr]

(* Two threads that replace the file have different descriptors in hand;   *)
(* in a mode that redirects, or without checkFile, none of them is _fd.    *)
LEMMA OwnFd ==
    ASSUME TypeOK, Redirects, FdsOwned, Apart, NEW t \in Threads, pc[t] \in Opened
    PROVE  /\ fd[t] \notin {1, Stderr} /\ fd[t] \in Fds /\ fds[fd[t]] # Closed
           /\ \A s \in Threads : s # t /\ pc[s] \in Opened => fd[s] # fd[t]
           /\ pc[t] \in {"dup2err", "dup2out", "closenew"} =>
                 fd[t] # _fd /\ \A s \in Threads : pc[s] # "assign"
<1>1. fd[t] \in Fds
  BY DEF TypeOK
<1>2. fds[fd[t]] # Closed
  BY <1>1 DEF FdsOwned, Open
<1>3. /\ fd[t] \notin {1, Stderr}
      /\ \A s \in Threads : s # t /\ pc[s] \in Opened => fd[s] # fd[t]
  BY DEF FdsOwned
<1>4. ASSUME pc[t] \in {"dup2err", "dup2out", "closenew"}
      PROVE  fd[t] # _fd /\ \A s \in Threads : pc[s] # "assign"
  <2>1. ~_flag
    BY <1>4 DEF FdsOwned
  <2> QED
    BY <1>3, <2>1 DEF Redirects
<1> QED
  BY <1>1, <1>2, <1>3, <1>4

LEMMA OwnedStep ==
    ASSUME TypeOK, NamedFirst, MutexHeld, Redirects, LogIsFd, FdsOwned, [Next]_vars, namings' <= 1
    PROVE  FdsOwned'
<1>0. /\ pc \in [Threads -> {"idle"} \cup Replacing \cup Rotating \cup Logging]
      /\ fd \in [Threads -> Fds] /\ fds \in [Fds -> Inodes \cup {Closed, Tty}] /\ _fd \in Fds
      /\ namings \in Nat
  BY DEF TypeOK
<1>01. /\ Stderr = 2 /\ Stderr \in Fds /\ 1 \in Fds /\ 1 # Stderr /\ Main \in Threads /\ Closed # Tty
       /\ Closed \notin Inodes
  BY Constants DEF TypeOK
<1>02. Closed \notin Inodes'
  BY Grows, Constants DEF Inodes, Closed
<1>03. SUFFICES ASSUME Apart' PROVE FdsOwned'
  BY DEF FdsOwned
<1>04. CASE \E f \in Flags : SetFileName(f)
  <2>1. PICK f \in Flags : SetFileName(f)
    BY <1>04
  <2>2. namings = 0 /\ UNCHANGED <<_fd, _check, fd, fds>> /\ pc' = [pc EXCEPT ![Main] = "open"]
    BY <1>0, <2>1 DEF SetFileName, Go
  <2>3. ~_flag /\ \A s \in Threads : pc[s] = "idle"
    BY <2>2 DEF NamedFirst
  <2>4. /\ _fd # 1 /\ \A g \in Fds : fds[g] # Closed <=> Open(g)
        /\ ~_check => fds[1] = fds[Stderr]
    <3>1. Apart
      BY <2>3 DEF Apart
    <3>2. \A s \in Threads : pc[s] # "dup2out"
      BY <2>3
    <3> QED
      BY <3>1, <3>2 DEF FdsOwned
  <2>5. \A s \in Threads : pc'[s] \in {"idle", "open"}
    BY <1>0, <2>2, <2>3
  <2>6. ASSUME NEW g PROVE Open(g)' <=> Open(g)
    BY <2>2, <2>3, <2>5 DEF Open, Opened
  <2> QED
    BY <2>2, <2>4, <2>5, <2>6 DEF FdsOwned, Opened
<1>05. CASE ~ \E f \in Flags : SetFileName(f)
  <2> DEFINE Owned == /\ _fd # 1
                      /\ \A t \in Threads : pc[t] \in Opened => fd[t] \notin {1, Stderr}
                      /\ \A t, s \in Threads :
                            s # t /\ pc[t] \in Opened /\ pc[s] \in Opened => fd[s] # fd[t]
                      /\ \A t, s \in Threads : pc[t] = "assign" /\ pc[s] = "assign" => s = t
                      /\ \A t \in Threads :
                            pc[t] \in Opened /\ (pc[t] = "assign" \/ \A s \in Threads : pc[s] # "assign")
                               => fd[t] # _fd
                      /\ \A t \in Threads : _flag => pc[t] \notin {"dup2err", "dup2out", "closenew"}
                      /\ \A f \in Fds : fds[f] # Closed <=> Open(f)
                      /\ ~_check /\ (\A t \in Threads : pc[t] # "dup2out") => fds[1] = fds[Stderr]
  <2>0. overlapped => overlapped'
    <3>1. ASSUME NEW t \in Threads, CloseOld(t) PROVE overlapped => overlapped'
      BY <3>1 DEF CloseOld
    <3>2. overlapped' = overlapped \/ \E t \in Threads : CloseOld(t)
      BY DEF Next, Thread, Replace, LogMessage, FstatFd, StatName, LoadFd, WriteMessage, LockSize,
             CompareSize, UnlockSize, NameOld, RenameLog, OpenFile, Dup2Err, Dup2Out, CloseNew,
             AssignFd, SetFileName, Tick, MoveLog, vars
    <3> QED
      BY <3>1, <3>2
  <2>1. _flag' = _flag /\ _check' = _check
    BY <1>05 DEF Next, Thread, Replace, LogMessage, FstatFd, StatName, LoadFd, WriteMessage, LockSize,
                 CompareSize, UnlockSize, NameOld, RenameLog, OpenFile, Dup2Err, Dup2Out, CloseNew,
                 CloseOld, AssignFd, Tick, MoveLog, fields, vars
  <2>2. Apart
    BY <1>03, <2>0, <2>1 DEF Apart
  <2>3. Owned
    BY <2>2 DEF FdsOwned
  <2>4. SUFFICES Owned'
    BY DEF FdsOwned
  <2>5. ASSUME NEW t \in Threads, OpenFile(t) PROVE Owned'
    <3>1. /\ LowestFree \in Fds /\ fds[LowestFree] = Closed /\ fd' = [fd EXCEPT ![t] = LowestFree]
          /\ dir'[Log] \in Inodes' /\ fds' = [fds EXCEPT ![LowestFree] = dir'[Log]]
      BY <2>5, LogOpened
    <3>2. /\ pc[t] = "open" /\ pc' = [pc EXCEPT ![t] = pc'[t]] /\ pc'[t] \in {"close", "dup2err"}
          /\ (_flag => pc'[t] = "close") /\ _fd' = _fd
      BY <1>0, <2>5 DEF OpenFile, Go, fields
    <3>3. LowestFree \notin {1, Stderr}
      BY <1>01, <2>3, <3>1 DEF Open
    <3>4. \A f \in Fds : fds'[f] # Closed <=> fds[f] # Closed \/ f = LowestFree
      BY <1>0, <1>02, <3>1
    <3>5. /\ \A s \in Threads : pc'[s] = "assign" <=> pc[s] = "assign"
          /\ \A s \in Threads : pc'[s] = "dup2out" <=> pc[s] = "dup2out"
          /\ fd'[t] = LowestFree /\ pc[t] \notin Opened /\ pc'[t] \in Opened
          /\ \A s \in Threads : s # t => fd'[s] = fd[s] /\ pc'[s] = pc[s]
      BY <1>0, <3>1, <3>2 DEF Opened
    <3>6. ASSUME NEW f \in Fds PROVE Open(f)' <=> Open(f) \/ f = LowestFree
      BY <3>2, <3>5 DEF Open
    <3>7. fds'[1] = fds[1] /\ fds'[Stderr] = fds[Stderr]
      BY <1>0, <1>01, <3>1, <3>3
    <3>8. fds[LowestFree] = Closed
      BY <2>5, LowestFreeFacts DEF OpenFile
    <3>9. \A s \in Threads : pc[s] \in Opened => fd[s] # LowestFree
      BY <1>0, <2>3, <3>8 DEF Open
    <3>10. (\A s \in Threads : pc[s] # "assign") => _fd # LowestFree
      BY <1>0, <2>3, <3>8 DEF Open
    <3>11. \A s, u \in Threads : u # s /\ pc'[s] \in Opened /\ pc'[u] \in Opened => fd'[u] # fd'[s]
      <4>1. \A s \in Threads : s # t /\ pc'[s] \in Opened => fd'[s] # fd'[t]
        BY <3>5, <3>9
      <4>2. \A s, u \in Threads : s # t /\ u # t /\ u # s /\ pc'[s] \in Opened /\ pc'[u] \in Opened
                                  => fd'[u] # fd'[s]
        BY <2>3, <3>5
      <4> QED
        BY <4>1, <4>2
    <3>12. \A s, u \in Threads : pc'[s] = "assign" /\ pc'[u] = "assign" => u = s
      BY <2>3, <3>5
    <3>13. \A s \in Threads :
              pc'[s] \in Opened /\ (pc'[s] = "assign" \/ \A u \in Threads : pc'[u] # "assign")
                 => fd'[s] # _fd'
      <4>1. \A s \in Threads : s # t => pc'[s] = pc[s] /\ fd'[s] = fd[s]
        BY <3>5
      <4>2. pc'[t] # "assign" /\ fd'[t] = LowestFree /\ _fd' = _fd
        BY <3>2, <3>5
      <4>3. (\A u \in Threads : pc'[u] # "assign") <=> (\A u \in Threads : pc[u] # "assign")
        BY <3>5
      <4> QED
        BY <2>3, <3>10, <4>1, <4>2, <4>3
    <3>14. \A s \in Threads : _flag' => pc'[s] \notin {"dup2err", "dup2out", "closenew"}
      BY <2>1, <2>3, <3>2, <3>5
    <3>15. \A s \in Threads : pc'[s] \in Opened => fd'[s] \notin {1, Stderr}
      BY <2>3, <3>3, <3>5
    <3>16. \A f \in Fds : fds'[f] # Closed <=> Open(f)'
      BY <2>3, <3>4, <3>6
    <3>17. _fd' # 1 /\ (~_check' /\ (\A s \in Threads : pc'[s] # "dup2out") => fds'[1] = fds'[Stderr])
      BY <2>1, <2>3, <3>2, <3>5, <3>7
    <3> QED
      BY <3>11, <3>12, <3>13, <3>14, <3>15, <3>16, <3>17
  <2>6. ASSUME NEW t \in Threads, Dup2Err(t) PROVE Owned'
    <3>1. /\ pc[t] = "dup2err" /\ pc' = [pc EXCEPT ![t] = "dup2out"]
          /\ fds' = [fds EXCEPT ![_fd] = fds[fd[t]]] /\ UNCHANGED <<_fd, fd>>
      BY <2>6 DEF Dup2Err, Go, fields
    <3>2. pc[t] \in Opened
      BY <3>1 DEF Opened
    <3>3. fds[fd[t]] # Closed /\ \A s \in Threads : pc[s] # "assign"
      BY <2>2, <3>1, <3>2, OwnFd
    <3>4. fds[_fd] # Closed
      BY <1>0, <2>3, <3>3 DEF Open
    <3>5. \A f \in Fds : fds'[f] # Closed <=> fds[f] # Closed
      BY <1>0, <3>1, <3>3, <3>4
    <3>6. /\ \A s \in Threads : pc'[s] # "assign"
          /\ \A s \in Threads : pc'[s] \in Opened <=> pc[s] \in Opened
          /\ pc'[t] = "dup2out" /\ ~_flag
      BY <1>0, <2>3, <3>1, <3>3 DEF Opened
    <3>7. ASSUME NEW f \in Fds PROVE Open(f)' <=> Open(f)
      BY <3>1, <3>3, <3>6 DEF Open
    <3> QED
      BY <2>1, <2>3, <3>1, <3>3, <3>5, <3>6, <3>7
  <2>7. ASSUME NEW t \in Threads, Dup2Out(t) PROVE Owned'
    <3>1. /\ pc[t] = "dup2out" /\ pc' = [pc EXCEPT ![t] = "closenew"] /\ UNCHANGED <<_fd, fd>>
          /\ fds' = [f \in Fds |-> IF f = 1 \/ (f = Stderr /\ _fd # Stderr) THEN fds[fd[t]] ELSE fds[f]]
      BY <2>7 DEF Dup2Out, Go, fields
    <3>2. pc[t] \in Opened
      BY <3>1 DEF Opened
    <3>3. fds[fd[t]] # Closed
      BY <2>2, <3>2, OwnFd
    <3>4. fds[1] # Closed /\ fds[Stderr] # Closed
      BY <1>01, <2>3 DEF Open
    <3>5. \A f \in Fds : fds'[f] # Closed <=> fds[f] # Closed
      BY <3>1, <3>3, <3>4
    <3>6. /\ \A s \in Threads : pc'[s] = "assign" <=> pc[s] = "assign"
          /\ \A s \in Threads : pc'[s] \in Opened <=> pc[s] \in Opened
          /\ ~_flag
      BY <1>0, <2>3, <3>1 DEF Opened
    <3>7. ASSUME NEW f \in Fds PROVE Open(f)' <=> Open(f)
      BY <3>1, <3>6 DEF Open
    <3>8. ~_check => fds'[1] = fds'[Stderr]
      <4>1. ~_check => fds[_fd] = fds[fd[t]]
        BY <3>1 DEF LogIsFd
      <4> QED
        BY <1>01, <3>1, <4>1
    <3> QED
      BY <2>1, <2>3, <3>1, <3>5, <3>6, <3>7, <3>8
  <2>8. ASSUME NEW t \in Threads, CloseNew(t) PROVE Owned'
    <3>1. /\ pc[t] = "closenew" /\ pc' = [pc EXCEPT ![t] = Return(t)] /\ UNCHANGED <<_fd, fd>>
          /\ fds' = [fds EXCEPT ![fd[t]] = Closed]
      BY <2>8 DEF CloseNew, Go, fields
    <3>2. pc[t] \in Opened /\ Return(t) \in {"unlock", "write", "idle"}
      BY <3>1 DEF Opened, Return
    <3>3. /\ fd[t] \notin {1, Stderr, _fd} /\ fd[t] \in Fds
          /\ \A s \in Threads : s # t /\ pc[s] \in Opened => fd[s] # fd[t]
      BY <2>2, <3>1, <3>2, OwnFd
    <3>31. ~_flag
      BY <2>3, <3>1
    <3>4. \A f \in Fds : fds'[f] # Closed <=> fds[f] # Closed /\ f # fd[t]
      BY <1>0, <3>1
    <3>5. /\ \A s \in Threads : pc'[s] = "assign" <=> pc[s] = "assign"
          /\ \A s \in Threads : pc'[s] \in Opened <=> pc[s] \in Opened /\ s # t
          /\ \A s \in Threads : pc'[s] = "dup2out" <=> pc[s] = "dup2out"
      BY <1>0, <3>1, <3>2 DEF Opened
    <3>6. ASSUME NEW f \in Fds PROVE Open(f)' <=> Open(f) /\ f # fd[t]
      BY <3>1, <3>3, <3>5 DEF Open
    <3>7. fds'[1] = fds[1] /\ fds'[Stderr] = fds[Stderr]
      BY <1>0, <1>01, <3>1, <3>3
    <3> QED
      BY <2>1, <2>3, <3>1, <3>31, <3>4, <3>5, <3>6, <3>7
  <2>9. ASSUME NEW t \in Threads, CloseOld(t) PROVE Owned'
    <3>1. /\ pc[t] = "close" /\ pc' = [pc EXCEPT ![t] = "assign"] /\ UNCHANGED <<_fd, fd>>
          /\ fds' = IF _fd = Stderr THEN fds ELSE [fds EXCEPT ![_fd] = Closed]
      BY <2>9 DEF CloseOld, Go, fields
    <3>2. pc[t] \in Opened
      BY <3>1 DEF Opened
    <3>3. \A s \in Threads : pc[s] # "assign"
      <4>1. CASE ~_check
        BY <3>1, <4>1, Alone DEF Replacing
      <4>2. CASE ~_flag
        BY <4>2 DEF Redirects
      <4>3. CASE ~overlapped'
        BY <2>9, <3>1, <4>3 DEF CloseOld
      <4> QED
        BY <1>03, <2>1, <4>1, <4>2, <4>3 DEF Apart
    <3>4. fd[t] # _fd /\ \A s \in Threads : pc[s] \in Opened => fd[s] # _fd
      BY <2>3, <3>2, <3>3
    <3>5. /\ pc'[t] = "assign" /\ \A s \in Threads : pc'[s] \in Opened <=> pc[s] \in Opened
          /\ \A s \in Threads : s # t => pc'[s] = pc[s]
          /\ \A s \in Threads : pc'[s] = "dup2out" <=> pc[s] = "dup2out"
      BY <1>0, <3>1 DEF Opened
    <3>6. \A f \in Fds : fds'[f] # Closed <=> fds[f] # Closed /\ (f = _fd => _fd = Stderr)
      BY <1>0, <3>1, <1>01, <2>3 DEF Open
    <3>7. ASSUME NEW f \in Fds PROVE Open(f)' <=> Open(f) /\ (f = _fd => _fd = Stderr)
      BY <2>3, <3>1, <3>3, <3>4, <3>5 DEF Open
    <3>8. fds'[1] = fds[1] /\ fds'[Stderr] = fds[Stderr]
      BY <1>0, <1>01, <2>3, <3>1
    <3> QED
      BY <2>1, <2>3, <3>1, <3>3, <3>4, <3>5, <3>6, <3>7, <3>8
  <2>10. ASSUME NEW t \in Threads, AssignFd(t) PROVE Owned'
    <3>1. /\ pc[t] = "assign" /\ pc' = [pc EXCEPT ![t] = Return(t)] /\ UNCHANGED <<fd, fds>>
          /\ _fd' = fd[t]
      BY <2>10 DEF AssignFd, Go
    <3>2. pc[t] \in Opened /\ Return(t) \in {"unlock", "write", "idle"}
      BY <3>1 DEF Opened, Return
    <3>3. /\ fd[t] \notin {1, Stderr} /\ \A s \in Threads : s # t => pc[s] # "assign"
          /\ \A s \in Threads : s # t /\ pc[s] \in Opened => fd[s] # fd[t]
      BY <2>3, <3>1, <3>2
    <3>4. /\ \A s \in Threads : pc'[s] # "assign"
          /\ \A s \in Threads : pc'[s] \in Opened <=> pc[s] \in Opened /\ s # t
          /\ \A s \in Threads : pc'[s] = "dup2out" <=> pc[s] = "dup2out"
          /\ \A s \in Threads : s # t => pc'[s] = pc[s]
      BY <1>0, <3>1, <3>2, <3>3 DEF Opened
    <3>5. ASSUME NEW f \in Fds PROVE Open(f)' <=> Open(f)
      BY <3>1, <3>2, <3>4 DEF Open
    <3>6. \A s \in Threads : _flag' => pc'[s] \notin {"dup2err", "dup2out", "closenew"}
      BY <2>1, <2>3, <3>2, <3>1, <1>0
    <3> QED
      BY <2>1, <2>3, <3>1, <3>3, <3>4, <3>5, <3>6
  <2>11. ASSUME NEW t \in Threads,
                \/ FstatFd(t) \/ StatName(t) \/ LoadFd(t) \/ WriteMessage(t) \/ LockSize(t)
                \/ CompareSize(t) \/ UnlockSize(t) \/ NameOld(t) \/ RenameLog(t) \/ LogMessage(t)
         PROVE  Owned'
    <3>1. /\ pc[t] \notin Opened /\ pc' = [pc EXCEPT ![t] = pc'[t]] /\ pc'[t] \notin Opened
      BY <1>0, <2>11 DEF FstatFd, StatName, LoadFd, WriteMessage, LockSize, CompareSize, UnlockSize,
                         NameOld, RenameLog, LogMessage, Go, Opened
    <3>2. UNCHANGED <<_fd, fds>> /\ \A s \in Threads : s # t => fd'[s] = fd[s]
      BY <1>0, <2>11 DEF FstatFd, StatName, LoadFd, WriteMessage, LockSize, CompareSize, UnlockSize,
                         NameOld, RenameLog, LogMessage, fields
    <3>3. /\ \A s \in Threads : pc'[s] \in Opened <=> pc[s] \in Opened
          /\ \A s \in Threads : pc'[s] \in Opened => pc'[s] = pc[s] /\ fd'[s] = fd[s]
      BY <1>0, <3>1, <3>2
    <3>4. ASSUME NEW f \in Fds PROVE Open(f)' <=> Open(f)
      BY <3>2, <3>3 DEF Open, Opened
    <3>5. \A s \in Threads : pc'[s] = "assign" <=> pc[s] = "assign"
      BY <3>3 DEF Opened
    <3> QED
      BY <2>1, <2>3, <3>2, <3>3, <3>4, <3>5 DEF Opened
  <2>12. CASE Tick \/ MoveLog \/ UNCHANGED vars
    <3>1. UNCHANGED <<_fd, fds, fd, pc>>
      BY <2>12 DEF Tick, MoveLog, vars, fields, locals
    <3> QED
      BY <2>1, <2>3, <3>1 DEF Open
  <2> HIDE DEF Owned
  <2> QED
    BY <1>05, <2>5, <2>6, <2>7, <2>8, <2>9, <2>10, <2>11, <2>12 DEF Next, Thread, Replace
<1> QED
  BY <1>04, <1>05

(* When every call has returned, only stdout, stderr and the log are open, *)
(* however many rotations and checks there were, unless with flag and      *)
(* checkFile two threads have closed _fd before either assigned it         *)
(* (tblog.cpp:165-172, :192-199); and without checkFile stdout and stderr  *)
(* are one file, in both modes.                                            *)
THEOREM NoFdLeaks == Spec => [](namings <= 1 => NothingLeaks)
<1>1. Init => (namings <= 1 => FdsOwned)
  <2> SUFFICES ASSUME Init PROVE FdsOwned
    OBVIOUS
  <2>1. /\ Stderr = 2 /\ Stderr \in Fds /\ 1 \in Fds /\ Closed # Tty /\ Fds \subseteq Nat
        /\ _fd = Stderr /\ \A t \in Threads : pc[t] = "idle"
    BY Constants DEF Init
  <2>2. \A f \in Fds : f <= Stderr <=> f \in {1, Stderr}
    BY <2>1 DEF Fds
  <2>3. fds[1] = Tty /\ fds[Stderr] = Tty /\ \A f \in Fds : fds[f] # Closed <=> f \in {1, Stderr}
    BY <2>1, <2>2 DEF Init
  <2>4. \A t \in Threads : pc[t] \notin Opened
    BY <2>1 DEF Opened
  <2>5. ASSUME NEW f \in Fds PROVE Open(f) <=> f \in {1, Stderr}
    BY <2>1, <2>4 DEF Open
  <2>6. _fd # 1 /\ fds[1] = fds[Stderr]
    BY <2>1, <2>3
  <2> QED
    BY <2>1, <2>3, <2>4, <2>5, <2>6 DEF FdsOwned
<1>2. LoggerIInv /\ (namings <= 1 => FdsOwned) /\ [Next]_vars => (namings <= 1 => FdsOwned)'
  <2> SUFFICES ASSUME LoggerIInv, namings <= 1 => FdsOwned, [Next]_vars, namings' <= 1
               PROVE  FdsOwned'
    OBVIOUS
  <2>1. namings <= 1
    BY NamedOnce DEF LoggerIInv
  <2> QED
    BY <2>1, OwnedStep DEF LoggerIInv
<1>3. (namings <= 1 => FdsOwned) => (namings <= 1 => NothingLeaks)
  <2> SUFFICES ASSUME FdsOwned, Quiet, overlapped => ~_flag \/ ~_check
               PROVE  /\ \A f \in Fds : fds[f] # Closed <=> f \in {1, Stderr, _fd}
                      /\ ~_check => fds[1] = fds[Stderr]
    BY DEF NothingLeaks
  <2>1. \A t \in Threads : pc[t] = "idle"
    BY DEF Quiet
  <2> QED
    BY <2>1 DEF FdsOwned, Apart, Open, Opened
<1> QED
  BY <1>1, <1>2, <1>3, LoggerKept, PTL DEF Spec
=============================================================================
