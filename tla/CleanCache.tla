----------------------------- MODULE CleanCache -----------------------------
(***************************************************************************)
(* clean_cache.cc: for each key in a part of the list of evicted keys, the *)
(* file that tair names for it is removed from tfs, then the key from      *)
(* tair.  Calls may fail, with or without effect, and the program may be   *)
(* killed; it is then run again, on this part or another.  Meanwhile other *)
(* programs put keys.                                                      *)
(*                                                                         *)
(* A line is the units after the end of the last one up to its own end.    *)
(* tair, tfs and the programs that put are not part of the repository.     *)
(***************************************************************************)
EXTENDS Naturals, Sequences, FiniteSetsExt, SequencesExt

CONSTANTS LineEnd,      \* key -> the unit that ends its line in the list
          Files,        \* names of files in tfs
          None,         \* no file
          FileOf,       \* key -> the file it names in the beginning
          Expired,      \* keys whose entry in tair has expired
          MaxCleans,    \* bound: runs of clean_cache
          MaxFaults     \* bound: failed calls and crashes

Keys == DOMAIN LineEnd

ASSUME CleanCacheAssumption ==
    /\ LineEnd \in Seq(Nat \ {0})
    /\ \A k \in Keys : k > 1 => LineEnd[k - 1] < LineEnd[k]
    /\ None \notin Files /\ FileOf \in [Keys -> Files]
    /\ \A j, k \in Keys : FileOf[j] = FileOf[k] => j = k
    /\ Expired \subseteq Keys
    /\ MaxCleans \in Nat /\ MaxFaults \in Nat

VARIABLES
    tair,       \* key -> the file it names, or None
    tfs,        \* the files there are
    fresh,      \* names tfs has not given yet
    part,       \* the part being worked on
    pos,        \* fgets has read that many of its units
    key, name,  \* the key in hand, and the file tair has named for it
    cpc,        \* where clean_cache is
    cleans, faults,
    replaced,   \* history: files whose key was put again
    raced,      \* history: files put while their key was being cleaned
    undone,     \* history: keys whose file is gone and that were left behind
    excused     \* history: keys this run failed on, or put during the run

stores == <<tair, tfs, fresh>>
history == <<replaced, raced, undone, excused>>
cleanVars == <<stores, part, pos, key, name, cpc, cleans, faults, history>>

CleanInit ==
    /\ tair = FileOf /\ tfs = Range(FileOf)
    /\ fresh = Files \ Range(FileOf)
    /\ part = <<>> /\ pos = 0 /\ key = 1 /\ name = None /\ cpc = "idle"
    /\ cleans = 0 /\ faults = 0
    /\ replaced = {} /\ raced = {} /\ undone = {} /\ excused = {}

-----------------------------------------------------------------------------
(* The lines of a part                                                     *)

(* The end of the line that begins after p units of a part. *)
LineTo(p, from) ==
    Min({q \in from + 1 .. Len(p) : p[q] \in Range(LineEnd)} \cup {Len(p)})

(* The keys of which a line is the whole line: one, or none. *)
LineStart(k) == IF k = 1 THEN 1 ELSE LineEnd[k - 1] + 1
KeysOfLine(line) ==
    {k \in Keys : line = [u \in 1 .. LineEnd[k] - LineStart(k) + 1 |-> LineStart(k) + u - 1]}

(* The keys whose lines are whole in a part, where a line begins or ends. *)
KeysOf(p) ==
    UNION {KeysOfLine(SubSeq(p, a + 1, LineTo(p, a))) :
             a \in {0} \cup {q \in 1 .. Len(p) - 1 : p[q] \in Range(LineEnd)}}

-----------------------------------------------------------------------------
Begin(p) ==
    /\ cpc = "idle" /\ cleans < MaxCleans
    /\ part' = p /\ pos' = 0 /\ cpc' = "fgets" /\ cleans' = cleans + 1
    /\ excused' = {}
    /\ UNCHANGED <<stores, key, name, faults, replaced, raced, undone>>

(* A piece of a line is no key in tair: get fails, and the loop goes on.   *)
(* Whatever fgets returned loses its last character (clean_cache.cc:71): a *)
(* whole line its newline, and a piece that a part ends with a byte, which *)
(* makes it no more of a key.                                              *)
Fgets ==
    /\ cpc = "fgets" /\ pos < Len(part)
    /\ pos' = LineTo(part, pos)
    /\ LET line == SubSeq(part, pos + 1, pos')
       IN  \/ key' \in KeysOfLine(line) /\ cpc' = "get"
           \/ KeysOfLine(line) = {} /\ UNCHANGED <<key, cpc>>
    /\ UNCHANGED <<stores, part, name, cleans, faults, history>>

Finish ==
    /\ cpc = "fgets" /\ pos = Len(part)
    /\ cpc' = "idle"
    /\ UNCHANGED <<stores, part, pos, key, name, cleans, faults, history>>

(* Of an entry that has expired, get returns the data all the same.  The   *)
(* mutant takes it for a failure.                                          *)
GetFresh ==
    /\ cpc = "get" /\ name' = tair[key]
    /\ cpc' = IF tair[key] = None \/ key \in Expired THEN "fgets" ELSE "unlink"
    /\ UNCHANGED <<stores, part, pos, key, cleans, faults, history>>

Get ==
    /\ cpc = "get" /\ name' = tair[key]
    /\ cpc' = IF tair[key] = None THEN "fgets" ELSE "unlink"
    /\ UNCHANGED <<stores, part, pos, key, cleans, faults, history>>

(* unlink of a file that is gone fails: the key is left as it is.  One     *)
(* mutant forgets to remove the key, the other removes it in any case.     *)
UnlinkOnly ==
    /\ cpc = "unlink"
    /\ tfs' = tfs \ {name} /\ cpc' = "fgets"
    /\ UNCHANGED <<tair, fresh, part, pos, key, name, cleans, faults, history>>

Unlink ==
    /\ cpc = "unlink"
    /\ tfs' = tfs \ {name}
    /\ cpc' = IF name \in tfs THEN "remove" ELSE "fgets"
    /\ UNCHANGED <<tair, fresh, part, pos, key, name, cleans, faults, history>>

RemovedKey == tair' = [tair EXCEPT ![key] = None]

RemoveKey ==
    /\ cpc = "remove" /\ RemovedKey
    /\ cpc' = "fgets"
    /\ UNCHANGED <<tfs, fresh, part, pos, key, name, cleans, faults, history>>

Fault ==
    /\ cpc \in {"get", "unlink", "remove"} /\ faults < MaxFaults
    /\ faults' = faults + 1 /\ excused' = excused \cup {key}
    /\ undone' = undone \cup (IF cpc # "get" /\ name \notin tfs' THEN {key} ELSE {})
    /\ UNCHANGED <<fresh, part, pos, key, name, cleans, replaced, raced>>

(* After a failed call the loop goes on with the next line.                *)
AfterFailureRemove == IF cpc = "unlink" THEN "remove" ELSE "fgets"
AfterFailure == "fgets"

(* A call fails, or its answer is lost after it has taken effect.          *)
CallFails ==
    /\ \/ UNCHANGED <<tair, tfs>>
       \/ cpc = "unlink" /\ tfs' = tfs \ {name} /\ UNCHANGED tair
       \/ cpc = "remove" /\ RemovedKey /\ UNCHANGED tfs
    /\ Fault /\ cpc' = AfterFailure

(* The program is killed between two calls. *)
Crash == UNCHANGED <<tair, tfs>> /\ Fault /\ cpc' = "idle"

(* Another program stores a file, and puts its name under the key. *)
Put(k, f) ==
    /\ f \in fresh
    /\ fresh' = fresh \ {f} /\ tfs' = tfs \cup {f} /\ tair' = [tair EXCEPT ![k] = f]
    /\ replaced' = replaced \cup ({tair[k]} \ {None})
    /\ raced' = raced \cup (IF cpc \in {"unlink", "remove"} /\ key = k THEN {f} ELSE {})
    /\ excused' = excused \cup {k}
    /\ UNCHANGED <<part, pos, key, name, cpc, cleans, faults, undone>>

CleanNext == \/ Fgets \/ Finish \/ Get \/ Unlink \/ RemoveKey
             \/ CallFails \/ Crash
             \/ \E k \in Keys, f \in Files : Put(k, f)

-----------------------------------------------------------------------------
(* A file is not left in tfs without a key to find it by: the key is       *)
(* removed only after its file (clean_cache.cc:91).  Files that are        *)
(* replaced by a put stay, and a put between the get and the remove of its *)
(* key loses the new file: remove (:95) does not ask what the key names.   *)
NamedUntilGone == tfs \subseteq Range(tair) \cup replaced \cup raced

(* A key in tair names a file that is gone only between unlink and remove, *)
(* or when the program was killed there, or a call failed (:88, :95).      *)
(* Such a key stays: run again, clean_cache sees unlink fail and leaves it.*)
DanglingExplained ==
    \A k \in Keys :
        tair[k] \notin tfs \cup {None} => k \in undone \/ (cpc = "remove" /\ key = k)

(* When clean_cache is through with a part, no key of a whole line is left *)
(* but those that a call failed on, then or earlier, or that were put      *)
(* meanwhile.                                                              *)
PartCleaned ==
    cpc = "idle" /\ pos = Len(part) =>
        \A k \in KeysOf(part) : tair[k] = None \/ k \in undone \cup excused

(* What the two stores and the program know of each other, which makes     *)
(* NamedUntilGone and DanglingExplained inductive: a name is given to one  *)
(* key once, and the file in hand is that of the key in hand, or was until *)
(* the key was put.                                                        *)
StoresAgree ==
    /\ tair \in [Keys -> Files \cup {None}]
    /\ tfs \subseteq Files /\ fresh \subseteq Files /\ fresh \cap tfs = {}
    /\ \A k \in Keys : tair[k] \notin fresh
    /\ \A j, k \in Keys : tair[j] = tair[k] /\ tair[j] # None => j = k
    /\ cpc \in {"get", "unlink", "remove"} => key \in Keys
    /\ cpc \in {"unlink", "remove"} =>
          /\ name \in Files \ fresh
          /\ \A k \in Keys : tair[k] = name => k = key
          /\ tair[key] \in raced \cup {name}
    /\ cpc = "remove" => name \notin tfs

CleanIInv == StoresAgree /\ NamedUntilGone /\ DanglingExplained
=============================================================================
