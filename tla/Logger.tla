------------------------------- MODULE Logger -------------------------------
(***************************************************************************)
(* CLogger (log_sys/tblog.cpp): threads that log into one file, its        *)
(* rotation by size, the check whether the file is still there, and the    *)
(* naming of the file.  A message is one unit of size.                     *)
(*                                                                         *)
(* A descriptor refers to an inode, a directory entry too: a rename or an  *)
(* unlink leaves what is open open.  open takes the lowest number free, as *)
(* POSIX says.  The fields _fd and _name are read without a lock.          *)
(*                                                                         *)
(* Outside the program, time goes by (a rotated file is named after the    *)
(* second) and somebody may move the log file away, which checkFile is     *)
(* there for.                                                              *)
(***************************************************************************)
EXTENDS Integers, Sequences

CONSTANTS Threads, Main,   \* the threads that log; Main names the file
          Nobody,          \* no thread
          MaxFileSize, MaxFileIndex,
          Flags, Checks,   \* the values of flag and _check to consider
          MaxNamings,      \* bound: calls of setFileName
          MaxMessages, MaxTime, MaxMoves, \* bounds: messages, seconds, moves
          MaxFd            \* bound: descriptors, enough for the leaks of all calls

ASSUME LoggerAssumption ==
    /\ Main \in Threads /\ Nobody \notin Threads
    /\ MaxFileSize \in Nat \ {0} /\ MaxFileIndex \in Nat
    /\ MaxTime \in Nat \ {0} /\ MaxFd \in Nat \ {0, 1}
    /\ Flags \subseteq BOOLEAN /\ Checks \subseteq BOOLEAN

VARIABLES
    _fd, _flag, _check,
    _fileList,        \* names of rotated files, oldest first
    _fileSizeMutex,   \* the thread that holds it, or Nobody
    fds,              \* descriptor -> inode, Tty or Closed
    dir,              \* name -> inode, or None
    size,             \* inode -> number of messages in it
    now,              \* the second
    pc, fd, seen, oldLogFile,   \* locals of each thread
    namings, messages, moves,   \* how often it happened so far
    missed,           \* history: messages that no log file has
    rotated,          \* history: the renames of rotateLog, oldest first
    overlapped        \* history: two threads closed _fd before either assigned it

locals == <<pc, fd, seen, oldLogFile>>
fields == <<_fd, _flag, _check, _fileList, _fileSizeMutex>>
disk == <<dir, size>>
counts == <<namings, messages, moves>>
vars == <<fields, fds, disk, now, locals, counts, missed, rotated, overlapped>>

None == 0
Log == 0                        \* the log file's name ...
Names == 0 .. MaxTime           \* ... the others are seconds
Stderr == 2
Fds == 1 .. MaxFd
Closed == -1
Tty == -2
Inodes == DOMAIN size

(* The constructor: _fd is stderr and there is no name yet.                *)
Init == /\ _fd = Stderr /\ _flag = FALSE /\ _check \in Checks
        /\ _fileList = <<>> /\ _fileSizeMutex = Nobody
        /\ fds = [f \in Fds |-> IF f <= Stderr THEN Tty ELSE Closed]
        /\ dir = [n \in Names |-> None] /\ size = <<>>
        /\ now = 1
        /\ pc = [t \in Threads |-> "idle"]
        /\ fd = [t \in Threads |-> Stderr]
        /\ seen = [t \in Threads |-> None]
        /\ oldLogFile = [t \in Threads |-> Log]
        /\ namings = 0 /\ messages = 0 /\ moves = 0
        /\ missed = 0 /\ rotated = <<>> /\ overlapped = FALSE

Go(t, from, to) == pc[t] = from /\ pc' = [pc EXCEPT ![t] = to]

-----------------------------------------------------------------------------
(* setFileName, and what it has in common with rotateLog and checkFile:    *)
(* open the file, put its descriptor in place of the old one.              *)

(* A second call closes the descriptor of the first.                       *)
SetFileName(f) ==
    /\ Go(Main, "idle", "open")
    /\ namings < MaxNamings
    /\ namings' = namings + 1
    /\ _flag' = f
    /\ fds' = IF namings > 0 THEN [fds EXCEPT ![_fd] = Closed] ELSE fds
    /\ UNCHANGED <<_fd, _check, _fileList, _fileSizeMutex, disk, now, fd, seen, oldLogFile,
                   messages, moves, missed, rotated, overlapped>>

LowestFree == CHOOSE f \in Fds : fds[f] = Closed /\ \A g \in Fds : fds[g] = Closed => f <= g

OpenFile(t) ==
    /\ Go(t, "open", IF _flag THEN "close" ELSE "dup2err")
    /\ \E f \in Fds : fds[f] = Closed
    /\ fd' = [fd EXCEPT ![t] = LowestFree]
    /\ IF dir[Log] = None
       THEN /\ size' = Append(size, 0)
            /\ dir' = [dir EXCEPT ![Log] = Len(size')]
       ELSE UNCHANGED disk
    /\ fds' = [fds EXCEPT ![LowestFree] = dir'[Log]]
    /\ UNCHANGED <<fields, now, seen, oldLogFile, counts, missed, rotated, overlapped>>

(* Where the three functions return to: rotateLog into logMessage, under   *)
(* the mutex, checkFile (outside it, seen is None) to logMessage before    *)
(* the message is written.                                                 *)
Return(t) == IF _fileSizeMutex = t THEN "unlock"
             ELSE IF seen[t] # None THEN "write" ELSE "idle"

(* flag false: the file becomes _fd, stdout and stderr, and _fd stays.     *)
(* dup2 replaces a descriptor in one step; the mutant closes it first.     *)
Dup2ErrAfterClose(t) ==
    \/ /\ Go(t, "dup2err", "dup2err")
       /\ fds[_fd] # Closed
       /\ fds' = [fds EXCEPT ![_fd] = Closed]
       /\ UNCHANGED <<fields, disk, now, fd, seen, oldLogFile, counts, missed, rotated, overlapped>>
    \/ /\ Go(t, "dup2err", "dup2out")
       /\ fds[_fd] = Closed
       /\ fds' = [fds EXCEPT ![_fd] = fds[fd[t]]]
       /\ UNCHANGED <<fields, disk, now, fd, seen, oldLogFile, counts, missed, rotated, overlapped>>

Dup2Err(t) ==
    /\ Go(t, "dup2err", "dup2out")
    /\ fds' = [fds EXCEPT ![_fd] = fds[fd[t]]]
    /\ UNCHANGED <<fields, disk, now, fd, seen, oldLogFile, counts, missed, rotated, overlapped>>

Dup2Out(t) ==
    /\ Go(t, "dup2out", "closenew")
    /\ fds' = [f \in Fds |-> IF f = 1 \/ (f = Stderr /\ _fd # Stderr) THEN fds[fd[t]] ELSE fds[f]]
    /\ UNCHANGED <<fields, disk, now, fd, seen, oldLogFile, counts, missed, rotated, overlapped>>

(* The mutant leaves the new descriptor open.                              *)
KeepNew(t) ==
    /\ Go(t, "closenew", Return(t))
    /\ seen' = [seen EXCEPT ![t] = None]
    /\ UNCHANGED <<fields, fds, disk, now, fd, oldLogFile, counts, missed, rotated, overlapped>>

CloseNew(t) ==
    /\ Go(t, "closenew", Return(t))
    /\ fds' = [fds EXCEPT ![fd[t]] = Closed]
    /\ seen' = [seen EXCEPT ![t] = None]
    /\ UNCHANGED <<fields, disk, now, fd, oldLogFile, counts, missed, rotated, overlapped>>

(* flag true: stdout and stderr stay, _fd is closed and then assigned.     *)
(* rotateLog does so under the mutex, checkFile does not.                  *)
CloseOld(t) ==
    /\ Go(t, "close", "assign")
    /\ fds' = IF _fd = Stderr THEN fds ELSE [fds EXCEPT ![_fd] = Closed]
    /\ overlapped' = (overlapped \/ \E o \in Threads \ {t} : pc[o] = "assign")
    /\ UNCHANGED <<fields, disk, now, fd, seen, oldLogFile, counts, missed, rotated>>

AssignFd(t) ==
    /\ Go(t, "assign", Return(t))
    /\ _fd' = fd[t]
    /\ seen' = [seen EXCEPT ![t] = None]
    /\ UNCHANGED <<_flag, _check, _fileList, _fileSizeMutex, fds, disk, now, fd, oldLogFile, counts, missed, rotated, overlapped>>

Replace(t) == OpenFile(t) \/ Dup2Err(t) \/ Dup2Out(t) \/ CloseNew(t) \/ CloseOld(t) \/ AssignFd(t)

-----------------------------------------------------------------------------
(* logMessage: checkFile, when _check is set, then the write, then the     *)
(* comparison of the size, under the mutex.  The threads of the programs   *)
(* here start when the file has its name.                                  *)
LogMessage(t) ==
    /\ Go(t, "idle", IF _check THEN "fstat" ELSE "write")
    /\ namings > 0 /\ (messages = 0 => pc[Main] = "idle")
    /\ messages < MaxMessages
    /\ messages' = messages + 1
    /\ UNCHANGED <<fields, fds, disk, now, fd, seen, oldLogFile, namings, moves, missed, rotated, overlapped>>

(* fstat of a closed descriptor leaves stFd unset: it differs from any     *)
(* file.                                                                   *)
FstatFd(t) ==
    /\ Go(t, "fstat", "stat")
    /\ seen' = [seen EXCEPT ![t] = fds[_fd]]
    /\ UNCHANGED <<fields, fds, disk, now, fd, oldLogFile, counts, missed, rotated, overlapped>>

FileMoved(t) == dir[Log] = None \/ dir[Log] # seen[t]

StatName(t) ==
    /\ Go(t, "stat", IF FileMoved(t) THEN "open" ELSE "write")
    /\ seen' = IF FileMoved(t) THEN seen ELSE [seen EXCEPT ![t] = None]
    /\ UNCHANGED <<fields, fds, disk, now, fd, oldLogFile, counts, missed, rotated, overlapped>>

LoadFd(t) ==
    /\ Go(t, "write", "written")
    /\ fd' = [fd EXCEPT ![t] = _fd]
    /\ UNCHANGED <<fields, fds, disk, now, seen, oldLogFile, counts, missed, rotated, overlapped>>

WriteMessage(t) ==
    /\ Go(t, "written", "lock")
    /\ IF fds[fd[t]] \in Inodes
       THEN size' = [size EXCEPT ![fds[fd[t]]] = @ + 1] /\ UNCHANGED missed
       ELSE missed' = missed + 1 /\ UNCHANGED size
    /\ UNCHANGED <<fields, fds, dir, now, fd, seen, oldLogFile, counts, rotated, overlapped>>

(* The mutant takes a mutex of its own.                                    *)
LockNothing(t) ==
    /\ Go(t, "lock", "lseek")
    /\ _fileSizeMutex' = t
    /\ UNCHANGED <<_fd, _flag, _check, _fileList, fds, disk, now, fd, seen, oldLogFile, counts, missed, rotated, overlapped>>

LockSize(t) ==
    /\ Go(t, "lock", "lseek")
    /\ _fileSizeMutex = Nobody /\ _fileSizeMutex' = t
    /\ UNCHANGED <<_fd, _flag, _check, _fileList, fds, disk, now, fd, seen, oldLogFile, counts, missed, rotated, overlapped>>

(* lseek fails on a closed descriptor (and on a terminal).                 *)
ExceedsMax(f) == fds[f] \in Inodes /\ size[fds[f]] > MaxFileSize
ReachesMax(f) == fds[f] \in Inodes /\ size[fds[f]] >= MaxFileSize

CompareSize(t) ==
    /\ Go(t, "lseek", IF ReachesMax(_fd) THEN "access" ELSE "unlock")
    /\ UNCHANGED <<fields, fds, disk, now, fd, seen, oldLogFile, counts, missed, rotated, overlapped>>

UnlockSize(t) ==
    /\ Go(t, "unlock", "idle")
    /\ _fileSizeMutex' = Nobody
    /\ UNCHANGED <<_fd, _flag, _check, _fileList, fds, disk, now, fd, seen, oldLogFile, counts, missed, rotated, overlapped>>

-----------------------------------------------------------------------------
(* rotateLog                                                               *)

(* The list of rotated files: its first one is unlinked when it is full    *)
(* (there is no list for a maximum of 0).  The mutant takes the list for    *)
(* full at its first file.                                                 *)
RetireAt(max, name) ==
    /\ _fileList' = IF Len(_fileList) < max THEN Append(_fileList, name)
                                            ELSE Tail(Append(_fileList, name))
    /\ dir' = IF Len(_fileList) < max \/ _fileList = <<>> THEN dir
              ELSE [dir EXCEPT ![Head(_fileList)] = None]

RetireEarly(name) == RetireAt(1, name)
Retire(name) == RetireAt(MaxFileIndex, name)

(* access, the name after the second, and the list.                        *)
NameOld(t) ==
    /\ Go(t, "access", IF dir[Log] = None THEN "open" ELSE "rename")
    /\ \/ dir[Log] = None /\ UNCHANGED <<oldLogFile, _fileList, dir>>
       \/ dir[Log] # None /\ oldLogFile' = [oldLogFile EXCEPT ![t] = now] /\ Retire(now)
    /\ UNCHANGED <<_fd, _flag, _check, _fileSizeMutex, fds, size, now, fd, seen, counts, missed, rotated, overlapped>>

RenameLog(t) ==
    /\ Go(t, "rename", "open")
    /\ dir' = IF dir[Log] = None THEN dir
              ELSE [dir EXCEPT ![oldLogFile[t]] = dir[Log], ![Log] = None]
    /\ rotated' = Append(rotated, [name |-> oldLogFile[t], inode |-> dir[Log]])
    /\ UNCHANGED <<fields, fds, size, now, fd, seen, oldLogFile, counts, missed, overlapped>>

-----------------------------------------------------------------------------
(* Outside the program                                                     *)

Tick == /\ now < MaxTime /\ now' = now + 1
        /\ UNCHANGED <<fields, fds, disk, locals, counts, missed, rotated, overlapped>>

MoveLog == /\ moves < MaxMoves /\ moves' = moves + 1
           /\ dir[Log] # None /\ dir' = [dir EXCEPT ![Log] = None]
           /\ UNCHANGED <<fields, fds, size, now, locals, namings, messages, missed, rotated, overlapped>>

Thread(t) == \/ FstatFd(t) \/ StatName(t) \/ LoadFd(t) \/ WriteMessage(t) \/ LockSize(t)
             \/ CompareSize(t) \/ UnlockSize(t) \/ NameOld(t) \/ RenameLog(t) \/ Replace(t)

Done == namings > 0 /\ messages = MaxMessages /\ \A t \in Threads : pc[t] = "idle"

Next == \/ \E t \in Threads : Thread(t) \/ LogMessage(t)
        \/ \E f \in Flags : SetFileName(f)
        \/ Tick \/ MoveLog
        \/ Done /\ UNCHANGED vars

Spec == Init /\ [][Next]_vars

-----------------------------------------------------------------------------
Replacing == {"open", "dup2err", "dup2out", "closenew", "close", "assign"}
Rotating == {"lseek", "access", "rename", "unlock"}
Logging == {"fstat", "stat", "write", "written", "lock"}

(* Every descriptor refers to something, every name to a file, and the     *)
(* list never outgrows its maximum (rotateLog, tblog.cpp:147).             *)
TypeOK ==
    /\ _fd \in Fds /\ _flag \in BOOLEAN /\ _check \in BOOLEAN
    /\ _fileList \in Seq(Names \ {Log}) /\ Len(_fileList) <= MaxFileIndex
    /\ _fileSizeMutex \in Threads \cup {Nobody}
    /\ fds \in [Fds -> Inodes \cup {Closed, Tty}]
    /\ dir \in [Names -> Inodes \cup {None}]
    /\ size \in Seq(Nat) /\ now \in Names \ {Log}
    /\ pc \in [Threads -> {"idle"} \cup Replacing \cup Rotating \cup Logging]
    /\ fd \in [Threads -> Fds] /\ oldLogFile \in [Threads -> Names]
    /\ seen \in [Threads -> Inodes \cup {None, Closed, Tty}]
    /\ namings \in Nat /\ messages \in Nat /\ moves \in Nat /\ missed \in Nat
    /\ rotated \in Seq([name : Names, inode : Inodes \cup {None}])
    /\ overlapped \in BOOLEAN

(* logMessage writes the message into the file (tblog.h:54): in the mode   *)
(* that redirects stderr, every message written after the file got its     *)
(* name is in a file that was the log, whatever rotations and checks of    *)
(* other threads come in between.                                          *)
MessagesReachLog == ~_flag => missed = 0

(* The last MaxFileIndex files are kept (tblog.h:89): except in the middle *)
(* of a rotation, each of the last so many files that were renamed is      *)
(* still there under some name ...                                         *)
LastFilesKept ==
    (\A t \in Threads : pc[t] # "rename") =>
        \A i \in DOMAIN rotated :
            rotated[i].inode # None /\ i > Len(rotated) - MaxFileIndex
                => \E n \in Names : dir[n] = rotated[i].inode

(* ... which holds as long as no two rotations fall into one second        *)
(* (tblog.cpp:141).                                                        *)
KeptUnlessSameSecond ==
    (\A i, j \in DOMAIN rotated : rotated[i].name = rotated[j].name => i = j) => LastFilesKept

(* A file is rotated only when it is full (tblog.cpp:113-120): two threads *)
(* that see the same full file do not rotate twice.  checkFile may put a   *)
(* rotated file back in place of the log, and then a file that is not full *)
(* is rotated.                                                             *)
RotatedIsFull ==
    ~_check => \A i \in DOMAIN rotated :
                  rotated[i].inode # None => size[rotated[i].inode] >= MaxFileSize

(* A file that reaches the maximum is replaced (tblog.h:82): when every    *)
(* call has returned, the log is below it, in both modes.  With checkFile  *)
(* the comparison may be of a rotated file that another thread has put     *)
(* back, and the log stays full until the next message.                    *)
Quiet == namings > 0 /\ \A t \in Threads : pc[t] = "idle"

LogBelowMax ==
    Quiet /\ ~_check /\ dir[Log] # None => size[dir[Log]] < MaxFileSize

(* No descriptor leaks in rotations and checks: when every call has        *)
(* returned, stdin, stdout, stderr and the log are open and nothing else,  *)
(* and without checkFile stdout and stderr are the same file.  Not so when *)
(* two threads have closed _fd before either assigned it: with flag and    *)
(* _check, checkFile (tblog.cpp:192-199, without the mutex) may do so      *)
(* beside rotateLog (:165-172) or another checkFile.  The second of them   *)
(* closes what it has just opened itself, as open has given it the number  *)
(* that the first one closed; of the two that are assigned one leaks, or   *)
(* _fd is closed in the end.                                               *)
NothingLeaks ==
    Quiet /\ (overlapped => ~_flag \/ ~_check) =>
        /\ \A f \in Fds : fds[f] # Closed <=> f \in {1, Stderr, _fd}
        /\ ~_check => fds[1] = fds[Stderr]
=============================================================================
