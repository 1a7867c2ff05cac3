------------------------------ MODULE MakeDirs ------------------------------
(***************************************************************************)
(* mkdirs of c_mkdir.cpp, run by several programs at the same time on one  *)
(* file system.  A path is a sequence of names; the string that is cut at  *)
(* its i-th '/' is the path's prefix of i names.                           *)
(***************************************************************************)
EXTENDS Integers, Sequences, FiniteSets, SequencesExt

CONSTANTS Makers,   \* programs that run mkdirs
          Names,    \* names of files
          MaxNames  \* how many names fit into a path: BUFLEN

ASSUME MakeDirsAssumption == MaxNames \in Nat

VARIABLES path,    \* the argument of each program
          plain,   \* plain files
          dirs,    \* directories
          madeBy,  \* history: who made which directory
          cut,     \* how many names the string holds at the moment
          dpc,     \* where each program is: "access", "mkdir", or its result 0 or -1
          refused  \* history: the programs that the system refused a call

dirsVars == <<path, plain, dirs, madeBy, cut, dpc, refused>>

Prefix(m, k) == SubSeq(path[m], 1, k)
Here(m) == Prefix(m, cut[m])

(* trees: the file systems there may be before.                            *)
MkdirsInit(paths, trees) ==
    /\ path \in paths
    /\ \E tree \in trees : dirs = tree.dirs /\ plain = tree.plain
    /\ madeBy = {}
    /\ cut = [m \in Makers |-> 1]
    /\ dpc = [m \in Makers |-> IF path[m] = <<>> THEN "-1" ELSE "access"]
    /\ refused = {}

(* The mutant: no '/' is appended, so that the last name ends the loop.    *)
NextSlashLast(m) ==
    IF cut[m] + 1 >= Len(path[m])
    THEN dpc' = [dpc EXCEPT ![m] = "0"] /\ UNCHANGED cut
    ELSE dpc' = [dpc EXCEPT ![m] = "access"] /\ cut' = [cut EXCEPT ![m] = @ + 1]

(* The next '/' of the string, or the end of the loop.                     *)
NextSlash(m) ==
    IF cut[m] = Len(path[m])
    THEN dpc' = [dpc EXCEPT ![m] = "0"] /\ UNCHANGED cut
    ELSE dpc' = [dpc EXCEPT ![m] = "access"] /\ cut' = [cut EXCEPT ![m] = @ + 1]

Access(m) ==
    /\ dpc[m] = "access"
    /\ IF Here(m) \in dirs \cup plain THEN NextSlash(m)
       ELSE dpc' = [dpc EXCEPT ![m] = "mkdir"] /\ UNCHANGED cut
    /\ UNCHANGED <<path, plain, dirs, madeBy, refused>>

(* access may fail on a name that is there: a directory that may not be    *)
(* searched, a symbolic link that leads nowhere.  mkdir then fails too.    *)
AccessRefused(m) ==
    /\ dpc[m] = "access" /\ Here(m) \in dirs \cup plain
    /\ dpc' = [dpc EXCEPT ![m] = "mkdir"] /\ refused' = refused \cup {m}
    /\ UNCHANGED <<path, plain, dirs, madeBy, cut>>

Mkdir(m) ==
    /\ dpc[m] = "mkdir"
    /\ IF Here(m) \notin dirs \cup plain /\ Front(Here(m)) \in dirs
       THEN /\ dirs' = dirs \cup {Here(m)}
            /\ madeBy' = madeBy \cup {<<m, Here(m)>>}
            /\ NextSlash(m)
       ELSE dpc' = [dpc EXCEPT ![m] = "-1"] /\ UNCHANGED <<cut, dirs, madeBy>>
    /\ UNCHANGED <<path, plain, refused>>

(* No permission, no space, a file system that is read-only.               *)
MkdirRefused(m) ==
    /\ dpc[m] = "mkdir"
    /\ dpc' = [dpc EXCEPT ![m] = "-1"] /\ refused' = refused \cup {m}
    /\ UNCHANGED <<path, plain, dirs, madeBy, cut>>

MkdirsNext == \E m \in Makers : Access(m) \/ AccessRefused(m) \/ Mkdir(m) \/ MkdirRefused(m)

-----------------------------------------------------------------------------
(* What mkdirs returns is true, whoever else makes the same path: 0 means  *)
(* that the path is there, with directories above it (the last name may be *)
(* a plain file); -1 that a plain file stands above it, that another       *)
(* program made the directory between access and mkdir (c_mkdir.cpp:35),   *)
(* or that the system refused one of the two calls, whatever its reason.   *)
(* Without plain files and refusals, programs that run together do not all *)
(* fail, and a program makes nothing but prefixes of its path.             *)
PathMade(m) ==
    /\ \A k \in 1 .. Len(path[m]) - 1 : Prefix(m, k) \in dirs
    /\ path[m] \in dirs \cup plain

Excused(m) ==
    \/ path[m] = <<>>
    \/ \E k \in 1 .. cut[m] - 1 : Prefix(m, k) \in plain
    \/ \E o \in Makers \ {m} : <<o, Here(m)>> \in madeBy
    \/ m \in refused

MkdirsOutcome ==
    /\ \A m \in Makers : dpc[m] = "0" => PathMade(m)
    /\ \A m \in Makers : dpc[m] = "-1" => Excused(m)
    /\ plain = {} /\ refused = {} /\ (\A m \in Makers : path[m] # <<>> /\ dpc[m] \in {"0", "-1"}) =>
           \E m \in Makers : dpc[m] = "0"
    /\ \A o \in Makers, d \in dirs : <<o, d>> \in madeBy => IsPrefix(d, path[o])
=============================================================================
