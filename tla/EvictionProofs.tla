--------------------------- MODULE EvictionProofs ---------------------------
(* Proofs about split and clean_cache within the eviction, for every list  *)
(* and size of blocks, every number of runs, failures, interrupted calls   *)
(* and crashes, and all files put: the parts are the list, their lines are *)
(* worked off, and keys and files go together.                             *)
EXTENDS Eviction, Integers, SequenceTheorems, WellFoundedInduction, TLAPS

(* The lines of a part are lines of keys.                                  *)
LEMMA LinesAreKeys == \A line : KeysOfLine(line) \subseteq Keys
BY DEF KeysOfLine

(* The initial entries name one file each.                                 *)
LEMMA CleanInitOK == CleanInit => CleanIInv
<1> SUFFICES ASSUME CleanInit PROVE CleanIInv
  OBVIOUS
<1> USE CleanCacheAssumption DEF CleanInit
<1>1. DOMAIN FileOf = Keys /\ \A k \in Keys : FileOf[k] \in Files
  OBVIOUS
<1>2. Range(FileOf) = {FileOf[k] : k \in Keys}
  BY <1>1 DEF Range
<1>3. StoresAgree
  BY <1>1, <1>2 DEF StoresAgree
<1>4. NamedUntilGone
  BY DEF NamedUntilGone
<1>5. DanglingExplained
  BY <1>1, <1>2 DEF DanglingExplained
<1> QED
  BY <1>3, <1>4, <1>5 DEF CleanIInv

(* The names in tair, key by key.                                          *)
LEMMA NamesOfTair ==
    ASSUME StoresAgree
    PROVE  Range(tair) = {tair[k] : k \in Keys}
BY DEF StoresAgree, Range

(* An entry that becomes None or another file takes at most its own name   *)
(* out of tair.                                                            *)
LEMMA OneNameGoes ==
    ASSUME StoresAgree, NEW k \in Keys, NEW f \in Files \cup {None},
           tair' = [tair EXCEPT ![k] = f]
    PROVE  /\ Range(tair) \subseteq Range(tair') \cup {tair[k]}
           /\ f \in Range(tair')
<1>1. Range(tair') = {tair'[j] : j \in Keys}
  BY DEF StoresAgree, Range
<1>2. tair'[k] = f /\ \A j \in Keys : j # k => tair'[j] = tair[j]
  BY DEF StoresAgree
<1> QED
  BY <1>1, <1>2, NamesOfTair

(* The steps between the calls leave the stores and what is known of them. *)
LEMMA QuietStep ==
    ASSUME CleanIInv, UNCHANGED <<stores, replaced, raced, undone>>,
           \/ cpc' \in {"idle", "fgets"} /\ cpc # "remove"
           \/ cpc' = "get" /\ key' \in Keys /\ cpc # "remove"
    PROVE  CleanIInv'
<1> USE DEF CleanIInv, stores
<1>1. StoresAgree'
  BY DEF StoresAgree
<1>2. NamedUntilGone'
  BY DEF NamedUntilGone, Range
<1>3. DanglingExplained'
  BY DEF DanglingExplained
<1> QED
  BY <1>1, <1>2, <1>3

(* get: the file in hand is the one the key names.                         *)
LEMMA GetStep == CleanIInv /\ Get => CleanIInv'
<1> SUFFICES ASSUME CleanIInv, Get PROVE CleanIInv'
  OBVIOUS
<1> USE CleanCacheAssumption DEF CleanIInv, Get, stores, history
<1>1. CASE tair[key] = None
  BY <1>1, QuietStep
<1>2. CASE tair[key] # None
  <2>1. StoresAgree'
    BY <1>2 DEF StoresAgree
  <2>2. NamedUntilGone'
    BY DEF NamedUntilGone, Range
  <2>3. DanglingExplained'
    BY DEF DanglingExplained
  <2> QED
    BY <2>1, <2>2, <2>3
<1> QED
  BY <1>1, <1>2

(* unlink: no key but the one in hand names the file that goes.            *)
LEMMA UnlinkStep == CleanIInv /\ Unlink => CleanIInv'
<1> SUFFICES ASSUME CleanIInv, Unlink PROVE CleanIInv'
  OBVIOUS
<1> USE DEF CleanIInv, Unlink, stores, history
<1>1. StoresAgree'
  BY DEF StoresAgree
<1>2. NamedUntilGone'
  BY DEF NamedUntilGone, Range
<1>3. DanglingExplained'
  <2> SUFFICES ASSUME NEW k \in Keys, tair[k] \notin tfs' \cup {None}
               PROVE  k \in undone \/ (cpc' = "remove" /\ key = k)
    BY DEF DanglingExplained
  <2>1. CASE tair[k] \in tfs
    <3>1. tair[k] = name /\ name \in tfs
      BY <2>1
    <3> QED
      BY <3>1 DEF StoresAgree
  <2>2. CASE tair[k] \notin tfs
    BY <2>2 DEF DanglingExplained
  <2> QED
    BY <2>1, <2>2
<1> QED
  BY <1>1, <1>2, <1>3

(* remove: what the key names is a file that is gone, or was put meanwhile.*)
LEMMA RemoveStep ==
    ASSUME CleanIInv, cpc = "remove", RemovedKey, cpc' = "fgets",
           UNCHANGED <<tfs, fresh, key, name, replaced, raced>>,
           undone \subseteq undone'
    PROVE  CleanIInv'
<1> USE CleanCacheAssumption DEF CleanIInv
<1>1. key \in Keys /\ tair' = [tair EXCEPT ![key] = None]
  BY DEF StoresAgree, RemovedKey
<1>2. \A k \in Keys : tair'[k] = IF k = key THEN None ELSE tair[k]
  BY <1>1 DEF StoresAgree
<1>3. StoresAgree'
  <2>1. tair' \in [Keys -> Files \cup {None}]
    BY <1>1 DEF StoresAgree
  <2>2. \A k \in Keys : tair'[k] \notin fresh'
    BY <1>2 DEF StoresAgree
  <2>3. \A j, k \in Keys : tair'[j] = tair'[k] /\ tair'[j] # None => j = k
    BY <1>2 DEF StoresAgree
  <2> QED
    BY <2>1, <2>2, <2>3 DEF StoresAgree
<1>4. NamedUntilGone'
  <2>1. Range(tair) \subseteq Range(tair') \cup {tair[key]}
    BY <1>1, OneNameGoes
  <2>2. tair[key] \in raced \/ tair[key] \notin tfs
    BY DEF StoresAgree
  <2> QED
    BY <2>1, <2>2 DEF NamedUntilGone
<1>5. DanglingExplained'
  BY <1>2 DEF DanglingExplained
<1> QED
  BY <1>3, <1>4, <1>5

(* A call that fails, or the end of the program, between two calls.        *)
LEMMA FaultStep ==
    ASSUME CleanIInv, Fault, UNCHANGED tair, cpc' \in {"idle", "fgets"},
           tfs' = tfs \/ (cpc = "unlink" /\ tfs' = tfs \ {name})
    PROVE  CleanIInv'
<1> USE DEF CleanIInv, Fault
<1>1. StoresAgree'
  BY DEF StoresAgree
<1>2. NamedUntilGone'
  BY DEF NamedUntilGone, Range
<1>3. DanglingExplained'
  <2> SUFFICES ASSUME NEW k \in Keys, tair[k] \notin tfs' \cup {None}
               PROVE  k \in undone'
    BY DEF DanglingExplained
  <2>1. CASE k \in undone
    BY <2>1
  <2>2. CASE k \notin undone /\ tair[k] \notin tfs
    <3>1. cpc = "remove" /\ key = k
      BY <2>2 DEF DanglingExplained
    <3>2. name \notin tfs'
      BY <3>1 DEF StoresAgree
    <3> QED
      BY <3>1, <3>2
  <2>3. CASE tair[k] \in tfs
    <3>1. cpc = "unlink" /\ tair[k] = name /\ name \notin tfs'
      BY <2>3
    <3>2. k = key
      BY <3>1 DEF StoresAgree
    <3> QED
      BY <3>1, <3>2
  <2> QED
    BY <2>1, <2>2, <2>3
<1> QED
  BY <1>1, <1>2, <1>3

(* A put gives the key a name that is new to both stores.                  *)
LEMMA PutStep ==
    ASSUME CleanIInv, NEW k \in Keys, NEW f \in Files, Put(k, f)
    PROVE  CleanIInv'
<1> USE CleanCacheAssumption DEF CleanIInv, Put
<1>1. \A j \in Keys : tair'[j] = IF j = k THEN f ELSE tair[j]
  BY DEF StoresAgree
<1>2. f # None /\ f \in fresh /\ f \notin tfs /\ \A j \in Keys : tair[j] # f
  BY DEF StoresAgree
<1>3. StoresAgree'
  <2>1. tair' \in [Keys -> Files \cup {None}]
    BY DEF StoresAgree
  <2>2. tfs' \subseteq Files /\ fresh' \subseteq Files /\ fresh' \cap tfs' = {}
    BY DEF StoresAgree
  <2>3. \A j \in Keys : tair'[j] \notin fresh'
    BY <1>1 DEF StoresAgree
  <2>4. \A i, j \in Keys : tair'[i] = tair'[j] /\ tair'[i] # None => i = j
    BY <1>1, <1>2 DEF StoresAgree
  <2>5. cpc' \in {"get", "unlink", "remove"} => key' \in Keys
    BY DEF StoresAgree
  <2>6. ASSUME cpc' \in {"unlink", "remove"}
        PROVE  /\ name' \in Files \ fresh' /\ name # f
               /\ \A j \in Keys : tair'[j] = name' => j = key'
               /\ tair'[key'] \in raced' \cup {name'}
    <3>1. name \in Files \ fresh /\ name # f
      BY <1>2, <2>6 DEF StoresAgree
    <3>2. \A j \in Keys : tair'[j] = name => j = key
      BY <1>1, <2>6, <3>1 DEF StoresAgree
    <3>3. tair'[key] \in raced' \cup {name}
      BY <1>1, <2>6 DEF StoresAgree
    <3> QED
      BY <3>1, <3>2, <3>3
  <2>7. cpc' = "remove" => name' \notin tfs'
    BY <2>6 DEF StoresAgree
  <2> QED
    BY <2>1, <2>2, <2>3, <2>4, <2>5, <2>6, <2>7 DEF StoresAgree
<1>4. NamedUntilGone'
  <2>1. Range(tair) \subseteq Range(tair') \cup {tair[k]} /\ f \in Range(tair')
    BY OneNameGoes
  <2>2. tair[k] \in replaced' \/ tair[k] = None
    OBVIOUS
  <2>3. None \notin tfs'
    BY <1>2 DEF StoresAgree
  <2> QED
    BY <2>1, <2>2, <2>3 DEF NamedUntilGone
<1>5. DanglingExplained'
  BY <1>1 DEF DanglingExplained
<1> QED
  BY <1>3, <1>4, <1>5

(* Every step of clean_cache and of the programs around it.                *)
LEMMA CleanNextStep == CleanIInv /\ CleanNext => CleanIInv'
<1> SUFFICES ASSUME CleanIInv, CleanNext PROVE CleanIInv'
  OBVIOUS
<1>1. CASE Fgets
  <2>1. UNCHANGED <<stores, replaced, raced, undone>>
    BY <1>1 DEF Fgets, history
  <2>2. \/ key' \in Keys /\ cpc' = "get"
        \/ cpc' = "fgets"
    BY <1>1, LinesAreKeys DEF Fgets
  <2>3. cpc # "remove"
    BY <1>1 DEF Fgets
  <2> QED
    BY <2>1, <2>2, <2>3, QuietStep
<1>2. CASE Finish
  BY <1>2, QuietStep DEF Finish, history
<1>3. CASE Get
  BY <1>3, GetStep
<1>4. CASE Unlink
  BY <1>4, UnlinkStep
<1>5. CASE RemoveKey
  BY <1>5, RemoveStep DEF RemoveKey, history
<1>6. CASE CallFails
  <2>1. Fault /\ cpc' = "fgets"
    BY <1>6 DEF CallFails, AfterFailure
  <2>2. CASE cpc = "remove" /\ RemovedKey /\ UNCHANGED tfs
    BY <2>1, <2>2, RemoveStep DEF Fault
  <2>3. CASE UNCHANGED <<tair, tfs>>
    BY <2>1, <2>3, FaultStep
  <2>4. CASE cpc = "unlink" /\ tfs' = tfs \ {name} /\ UNCHANGED tair
    BY <2>1, <2>4, FaultStep
  <2> QED
    BY <1>6, <2>2, <2>3, <2>4 DEF CallFails
<1>7. CASE Crash
  BY <1>7, FaultStep DEF Crash
<1>8. ASSUME NEW k \in Keys, NEW f \in Files, Put(k, f)
      PROVE  CleanIInv'
  BY <1>8, PutStep
<1> QED
  BY <1>1, <1>2, <1>3, <1>4, <1>5, <1>6, <1>7, <1>8 DEF CleanNext

(* Every step of the eviction: those of split do not touch the stores.     *)
LEMMA EvictionStep == CleanIInv /\ [Next]_vars => CleanIInv'
<1> SUFFICES ASSUME CleanIInv, [Next]_vars PROVE CleanIInv'
  OBVIOUS
<1>1. ASSUME UNCHANGED cleanVars
      PROVE  CleanIInv'
  BY <1>1 DEF cleanVars, stores, history, CleanIInv, StoresAgree,
              NamedUntilGone, DanglingExplained, Range
<1>2. CASE SplitStep
  BY <1>1, <1>2 DEF SplitStep
<1>3. CASE CleanPart
  <2>1. PICK k \in Parts : Begin(files[k])
    BY <1>3 DEF CleanPart
  <2> QED
    BY <2>1, QuietStep DEF Begin
<1>4. CASE CleanStep
  BY <1>4, CleanNextStep DEF CleanStep
<1>5. CASE Stopped
  BY <1>1, <1>5 DEF Stopped, vars
<1>6. CASE UNCHANGED vars
  BY <1>1, <1>6 DEF vars
<1> QED
  BY <1>2, <1>3, <1>4, <1>5, <1>6 DEF Next

(* The strengthened invariant of clean_cache (clean_cache.cc:70 to :100).  *)
THEOREM EvictionSafe == Spec => []CleanIInv
<1>1. Init => CleanIInv
  BY CleanInitOK DEF Init
<1>2. CleanIInv /\ [Next]_vars => CleanIInv'
  BY EvictionStep
<1> QED
  BY <1>1, <1>2, PTL DEF Spec

(* No file is left in tfs that nothing names, but those another program    *)
(* has replaced, or put while clean_cache had their key in hand            *)
(* (clean_cache.cc:91, :95).                                               *)
THEOREM FilesAreNamed == Spec => []NamedUntilGone
<1>1. CleanIInv => NamedUntilGone
  BY DEF CleanIInv
<1> QED
  BY <1>1, EvictionSafe, PTL

(* A key that names no file is the one in hand, or one whose cleaning was  *)
(* cut off after unlink had taken effect (clean_cache.cc:88).              *)
THEOREM KeysDangleOnlyByFailure == Spec => []DanglingExplained
<1>1. CleanIInv => DanglingExplained
  BY DEF CleanIInv
<1> QED
  BY <1>1, EvictionSafe, PTL

-----------------------------------------------------------------------------
(***************************************************************************)
(* split                                                                   *)

LEMMA LeastNat ==
    ASSUME NEW S \in SUBSET Nat, S # {}
    PROVE  \E x \in S : \A y \in S : x <= y
<1>1. PICK x \in S : \A y \in S : ~ (<<y, x>> \in OpToRel(<, Nat))
  BY WFMin, NatLessThanWellFounded
<1>2. \A y \in S : ~ (y < x) /\ y \in Nat /\ x \in Nat
  BY <1>1 DEF OpToRel
<1> QED
  BY <1>2

LEMMA MinFacts ==
    ASSUME NEW S \in SUBSET Nat, S # {}
    PROVE  Min(S) \in S /\ \A y \in S : Min(S) <= y
BY LeastNat DEF Min

(* Units in the parts so far.                                              *)
Written == rpos - Len(buf)

(* Units before part k, when every read fills the block.                   *)
Base(k) == 3 * Block * (k - 1)

SplitTypeOK ==
    /\ today \in 0 .. Size /\ files \in [Parts -> Seq(Nat)]
    /\ n \in Nat \ {0} /\ woff \in Nat /\ num \in Nat /\ rpos \in Nat /\ buf \in Seq(Nat)
    /\ spc \in {"idle", "read", "write"} /\ failed \in BOOLEAN
    /\ splits \in Nat /\ interrupts \in Nat /\ uneven \in Nat

(* buf holds the units from Written on; a part is begun only after a unit  *)
(* was read for the one before it, which bounds their number.              *)
Cursor ==
    /\ rpos <= today /\ Len(buf) <= rpos /\ n <= rpos + 1
    /\ spc = "read" => buf = <<>>
    /\ spc = "idle" /\ ~failed /\ splits > 0 => rpos = today /\ buf = <<>>
    /\ \A i \in 1 .. Len(buf) : buf[i] = Written + i

(* Part n begins with the last woff units written; those before are in the *)
(* parts before it, which this run does not touch again.                   *)
UnitsKept ==
    /\ woff <= Written /\ woff <= Len(files[n])
    /\ \A i \in 1 .. woff : files[n][i] = Written - woff + i
    /\ \A u \in 1 .. Written - woff : \E k \in 1 .. n - 1 : u \in Range(files[k])

(* As long as every read fills the block or takes the rest, every run of   *)
(* the day cuts at the same units: what one run writes over is what an     *)
(* earlier run has put there.                                              *)
PartsAligned ==
    uneven = 0 =>
        /\ num <= 3 /\ woff = Written - Base(n)
        /\ rpos <= Base(n) + num * Block
        /\ rpos < today => rpos = Base(n) + num * Block
        /\ \A k \in Parts :
              /\ Len(files[k]) <= 3 * Block
              /\ \A i \in 1 .. Len(files[k]) : files[k][i] = Base(k) + i /\ Base(k) + i <= today

(* As long as none is interrupted, three reads fill a part, short or not.  *)
PartsShort ==
    interrupts = 0 =>
        /\ num <= 3 /\ woff + Len(buf) <= num * Block
        /\ \A k \in Parts : Len(files[k]) <= 3 * Block

(* at[k] units are in the first k parts, which join up.                    *)
JoinUp(at) ==
    /\ at \in [0 .. Size + 1 -> Nat] /\ at[0] = 0
    /\ \A k \in Parts : /\ at[k] = at[k - 1] + Len(files[k])
                       /\ \A i \in 1 .. Len(files[k]) : files[k][i] = at[k - 1] + i

(* The first run of the day finds no files.  What it has written are the   *)
(* parts up to n, wherever its reads cut.                                  *)
FirstRun ==
    /\ splits = 0 => spc = "idle" /\ n = 1 /\ Written = 0
    /\ splits <= 1 =>
          /\ woff = Len(files[n])
          /\ \E at : JoinUp(at) /\ \A k \in Parts : n <= k => at[k] = Written

SplitIInv ==
    SplitTypeOK /\ Cursor /\ UnitsKept /\ PartsAligned /\ PartsShort /\ FirstRun

(* A write at an offset within the file keeps what is before the offset,   *)
(* puts the data behind it, and leaves the rest of a longer file.          *)
LEMMA OverwrittenFacts ==
    ASSUME NEW file \in Seq(Nat), NEW data \in Seq(Nat), NEW off \in 0 .. Len(file)
    PROVE  LET over == Overwritten(file, off, data)
               end == off + Len(data)
           IN  /\ over \in Seq(Nat)
               /\ Len(over) = IF Len(file) < end THEN end ELSE Len(file)
               /\ \A i \in 1 .. off : over[i] = file[i]
               /\ \A i \in 1 .. Len(data) : over[off + i] = data[i]
               /\ \A i \in end + 1 .. Len(file) : over[i] = file[i]
<1>01. PICK end : end = off + Len(data)
  OBVIOUS
<1>02. PICK front, back : front = SubSeq(file, 1, off) /\ back = SubSeq(file, end + 1, Len(file))
  OBVIOUS
<1>0. end \in Nat /\ off <= end /\ Len(file) \in Nat /\ Len(data) \in Nat /\ off \in Nat /\ \A i \in 1 .. Len(file) : file[i] \in Nat
  BY <1>01
<1>1. front \in Seq(Nat) /\ Len(front) = off /\ \A i \in 1 .. off : front[i] = file[i]
  <2>1. \A i \in 1 .. off : file[i] \in Nat
    BY <1>0
  <2>2. /\ front \in Seq(Nat) /\ Len(front) = IF 1 <= off THEN off - 1 + 1 ELSE 0
        /\ \A i \in 1 .. off - 1 + 1 : front[i] = file[1 + i - 1]
    BY <1>0, <1>02, <2>1, SubSeqProperties
  <2> QED
    BY <1>0, <2>2
<1>2. /\ back \in Seq(Nat) /\ Len(back) \in Nat
      /\ Len(back) = IF end + 1 <= Len(file) THEN Len(file) - (end + 1) + 1 ELSE 0
      /\ \A i \in 1 .. Len(file) - (end + 1) + 1 : back[i] = file[end + 1 + i - 1]
  <2>1. \A i \in end + 1 .. Len(file) : file[i] \in Nat
    BY <1>0
  <2> QED
    BY <1>0, <1>02, <2>1, SubSeqProperties
<1>21. PICK length, tail : length = Len(file) /\ tail = Len(back)
  OBVIOUS
<1>22. /\ length \in Nat /\ tail \in Nat
       /\ tail = IF end + 1 <= length THEN length - (end + 1) + 1 ELSE 0
  BY <1>0, <1>2, <1>21
<1>23. end + tail = IF length < end THEN end ELSE length
  BY <1>0, <1>22
<1>31. PICK mid : mid = front \o data
  OBVIOUS
<1>3. /\ mid \in Seq(Nat) /\ Len(mid) = end
      /\ \A i \in 1 .. end : mid[i] = IF i <= off THEN front[i] ELSE data[i - off]
  BY <1>0, <1>01, <1>1, <1>31, ConcatProperties
<1>41. PICK over : over = mid \o back
  OBVIOUS
<1>4. /\ over \in Seq(Nat) /\ Len(over) = Len(mid) + Len(back)
      /\ \A i \in 1 .. Len(mid) + Len(back) : over[i] = IF i <= Len(mid) THEN mid[i] ELSE back[i - Len(mid)]
  BY <1>2, <1>3, <1>41, ConcatProperties
<1>42. \A i \in 1 .. end + tail : over[i] = IF i <= end THEN mid[i] ELSE back[i - end]
  BY <1>3, <1>21, <1>4
<1>5. Overwritten(file, off, data) = over
  BY <1>01, <1>02, <1>31, <1>41 DEF Overwritten
<1>6. \A i \in 1 .. off : over[i] = file[i]
  BY <1>0, <1>1, <1>22, <1>3, <1>42
<1>7. \A i \in 1 .. Len(data) : over[off + i] = data[i]
  <2> SUFFICES ASSUME NEW i \in 1 .. Len(data) PROVE over[off + i] = data[i]
    OBVIOUS
  <2>1. PICK j : j = off + i
    OBVIOUS
  <2>2. j \in 1 .. end /\ j \in 1 .. end + tail /\ ~(j <= off) /\ j - off = i
    <3>1. off \in Nat /\ tail \in Nat /\ Len(data) \in Nat
      BY <1>0, <1>22
    <3> QED
      BY <1>01, <2>1, <3>1
  <2>3. over[j] = mid[j]
    BY <1>0, <1>42, <2>2
  <2>4. mid[j] = data[i]
    BY <1>3, <2>2
  <2> QED
    BY <2>1, <2>3, <2>4
<1>8. \A i \in end + 1 .. length : over[i] = file[i]
  <2> SUFFICES ASSUME NEW i \in end + 1 .. length PROVE over[i] = file[i]
    OBVIOUS
  <2>1. /\ i - end \in 1 .. length - (end + 1) + 1 /\ end + 1 + (i - end) - 1 = i /\ ~(i <= end)
        /\ i \in 1 .. end + tail
    BY <1>0, <1>22
  <2>2. over[i] = back[i - end]
    BY <1>42, <2>1
  <2>3. back[i - end] = file[end + 1 + (i - end) - 1]
    BY <1>2, <1>21, <2>1
  <2> QED
    BY <2>1, <2>2, <2>3
<1>9. Len(over) = IF Len(file) < end THEN end ELSE Len(file)
  BY <1>21, <1>23, <1>3, <1>4
<1> QED
  BY <1>01, <1>21, <1>4, <1>5, <1>6, <1>7, <1>8, <1>9

-----------------------------------------------------------------------------
(* Parts follow each other, three blocks long.                             *)
LEMMA BaseFacts ==
    /\ Base(1) = 0 /\ 3 * Block \in Nat \ {0} /\ Block \in Nat \ {0}
    /\ \A k \in Nat : Base(k + 1) = Base(k) + 3 * Block
    /\ \A k \in Nat \ {0} : Base(k) \in Nat
    /\ \A j, k \in Nat \ {0} : j < k => Base(j) + 3 * Block <= Base(k)
<1>1. Block \in Nat \ {0}
  BY SplitAssumption
<1>2. PICK three : three = 3 * Block /\ three \in Nat \ {0}
  BY <1>1
<1>3. \A k : Base(k) = three * (k - 1)
  BY <1>2 DEF Base
<1>4. \A k \in Nat : three * k = three * (k - 1) + three
  BY <1>2
<1>5. \A k \in Nat : three * k \in Nat
  BY <1>2
<1>6. \A j, k \in Nat \ {0} : j < k => three * (j - 1) + three <= three * (k - 1)
  <2> SUFFICES ASSUME NEW j \in Nat \ {0}, NEW k \in Nat \ {0}, j < k
               PROVE  three * (j - 1) + three <= three * (k - 1)
    OBVIOUS
  <2>1. PICK d \in Nat : k = j + 1 + d
    <3>1. k - j - 1 \in Nat /\ k = j + 1 + (k - j - 1)
      OBVIOUS
    <3> QED
      BY <3>1
  <2>2. three * (k - 1) = three * (j - 1) + three + three * d
    BY <1>2, <2>1
  <2>3. three * d \in Nat /\ three * (j - 1) \in Nat
    BY <1>5
  <2> QED
    BY <1>2, <2>2, <2>3
<1>7. \A k \in Nat \ {0} : three * (k - 1) \in Nat
  BY <1>5
<1>8. three * (1 - 1) = 0
  BY <1>2
<1>9. \A k \in Nat : three * ((k + 1) - 1) = three * (k - 1) + three
  BY <1>2
<1> QED
  BY <1>1, <1>2, <1>3, <1>6, <1>7, <1>8, <1>9

LEMMA BlocksCounted ==
    /\ 0 * Block = 0 /\ 1 * Block = Block
    /\ \A a \in Nat : a * Block \in Nat /\ (a + 1) * Block = a * Block + Block
BY BaseFacts

(* The part being written is one of the parts.                             *)
LEMMA PartExists ==
    ASSUME SplitTypeOK, Cursor
    PROVE  /\ n \in Parts /\ files[n] \in Seq(Nat) /\ Len(files[n]) \in Nat
           /\ Len(buf) \in Nat /\ Written \in Nat /\ rpos = Written + Len(buf)
<1>1. n \in Parts
  <2>1. Size \in Nat /\ today \in Nat /\ today <= Size
    BY SplitAssumption DEF SplitTypeOK
  <2>2. rpos \in Nat /\ n \in Nat \ {0} /\ rpos <= today /\ n <= rpos + 1
    BY DEF SplitTypeOK, Cursor
  <2> QED
    BY <2>1, <2>2 DEF Parts
<1>2. buf \in Seq(Nat) /\ rpos \in Nat /\ Len(buf) <= rpos
  BY DEF SplitTypeOK, Cursor
<1> QED
  BY <1>1, <1>2 DEF SplitTypeOK, Written

(* A run of split begins at the first unit and with the first part.        *)
LEMMA OpenStep == SplitIInv /\ Open => SplitIInv'
<1> SUFFICES ASSUME SplitIInv, Open PROVE SplitIInv'
  OBVIOUS
<1> USE DEF SplitIInv
<1>1. /\ today' \in today .. Size /\ n' = 1 /\ woff' = 0 /\ num' = 0 /\ rpos' = 0 /\ buf' = <<>>
      /\ spc' = "read" /\ failed' = FALSE /\ splits' = splits + 1
      /\ files' = files /\ interrupts' = interrupts /\ uneven' = uneven
  BY DEF Open
<1>2. Size \in Nat /\ 1 \in Parts /\ today \in Nat /\ today' \in Nat /\ today <= today'
  BY <1>1, SplitAssumption DEF SplitTypeOK, Parts
<1>3. SplitTypeOK'
  <2>1. today' \in 0 .. Size
    BY <1>1, <1>2
  <2>2. buf' \in Seq(Nat)
    BY <1>1
  <2>3. files' \in [Parts -> Seq(Nat)] /\ splits' \in Nat /\ interrupts' \in Nat /\ uneven' \in Nat
    BY <1>1 DEF SplitTypeOK
  <2>4. /\ n' \in Nat \ {0} /\ woff' \in Nat /\ num' \in Nat /\ rpos' \in Nat
        /\ spc' \in {"idle", "read", "write"}
    BY <1>1
  <2>5. failed' \in BOOLEAN
    BY <1>1
  <2> QED
    BY <2>1, <2>2, <2>3, <2>4, <2>5 DEF SplitTypeOK, Parts
<1>4. Written' = 0 /\ Len(buf') = 0
  <2>1. Len(buf') = 0 /\ rpos' = 0
    BY <1>1
  <2> QED
    BY <2>1 DEF Written
<1>5. Cursor'
  BY <1>1, <1>2, <1>4 DEF Cursor
<1>6. UnitsKept'
  <2>1. Len(files'[n']) \in Nat
    BY <1>1, <1>2 DEF SplitTypeOK
  <2> QED
    BY <1>1, <1>4, <2>1 DEF UnitsKept
<1>7. PartsAligned'
  <2>1. ASSUME uneven' = 0, NEW k \in Parts
        PROVE  /\ Len(files'[k]) <= 3 * Block
               /\ \A i \in 1 .. Len(files'[k]) : files'[k][i] = Base(k) + i /\ Base(k) + i <= today'
    <3>1. /\ Len(files[k]) <= 3 * Block
          /\ \A i \in 1 .. Len(files[k]) : files[k][i] = Base(k) + i /\ Base(k) + i <= today
      BY <1>1, <2>1 DEF PartsAligned
    <3>2. k \in Nat \ {0}
      BY <1>2 DEF Parts
    <3>3. Base(k) \in Nat /\ Len(files[k]) \in Nat
      BY <3>2, BaseFacts DEF SplitTypeOK
    <3>4. ASSUME NEW i \in 1 .. Len(files[k]) PROVE Base(k) + i <= today'
      <4>1. Base(k) + i <= today
        BY <3>1
      <4> QED
        BY <1>2, <3>3, <4>1
    <3> QED
      BY <1>1, <3>1, <3>4
  <2>2. woff' = Written' - Base(n') /\ rpos' <= Base(n') + num' * Block
        /\ rpos' = Base(n') + num' * Block
    <3>1. Base(n') = 0 /\ num' * Block = 0
      BY <1>1, BaseFacts, BlocksCounted
    <3> QED
      BY <1>1, <1>4, <3>1
  <2>3. (\A k \in Parts :
              /\ Len(files[k]) <= 3 * Block
              /\ \A i \in 1 .. Len(files[k]) : files[k][i] = Base(k) + i /\ Base(k) + i <= today)'
        \/ uneven' # 0
    BY <2>1 DEF Parts, Base
  <2> QED
    BY <1>1, <2>2, <2>3 DEF PartsAligned
<1>8. PartsShort'
  <2>1. woff' + Len(buf') = 0 /\ num' <= 3 /\ num' * Block = 0
    BY <1>1, <1>4, BlocksCounted
  <2> QED
    BY <1>1, <2>1 DEF PartsShort, Parts
<1>9. FirstRun'
  <2> SUFFICES ASSUME splits' <= 1 PROVE FirstRun'
    BY <1>1 DEF FirstRun, SplitTypeOK
  <2>1. splits = 0 /\ splits' # 0
    BY <1>1 DEF SplitTypeOK
  <2>2. n = 1 /\ Written = 0
    BY <2>1 DEF FirstRun
  <2>3. PICK at : JoinUp(at) /\ \A k \in Parts : n <= k => at[k] = Written
    BY <2>1 DEF FirstRun
  <2>4. JoinUp(at)'
    BY <1>1, <2>3 DEF JoinUp, Parts
  <2>5. \A k \in Parts : n' <= k => at[k] = Written'
    BY <1>1, <1>4, <2>2, <2>3
  <2>6. Len(files'[n']) = 0
    <3>1. at[1] = 0 /\ at[1 - 1] = 0 /\ at[1] = at[1 - 1] + Len(files[1])
      BY <1>2, <2>2, <2>3 DEF JoinUp
    <3>2. Len(files[1]) \in Nat
      BY <1>2 DEF SplitTypeOK
    <3> QED
      BY <1>1, <3>1, <3>2
  <2> QED
    BY <1>1, <2>1, <2>4, <2>5, <2>6 DEF FirstRun, Parts
<1> QED
  BY <1>3, <1>5, <1>6, <1>7, <1>8, <1>9

(* An interrupted call, the end of the list and a failure leave the parts. *)
LEMMA SplitPauses ==
    ASSUME SplitIInv, ReadInterrupted \/ ReadEnd \/ WriteInterrupted \/ BreakOff
    PROVE  SplitIInv'
<1> USE DEF SplitIInv
<1>1. /\ UNCHANGED <<today, files, n, woff, rpos, buf, splits>>
      /\ \/ num' = num /\ interrupts' = interrupts
         \/ num' = num + 1 /\ interrupts' = interrupts + 1
         \/ num' = num /\ interrupts' = interrupts + 1
      /\ \/ uneven' = uneven /\ num' = num
         \/ uneven' = uneven + 1
      /\ \/ spc' = spc /\ failed' = failed
         \/ spc = "read" /\ rpos = today /\ spc' = "idle" /\ failed' = failed
         \/ spc' = "idle" /\ failed' = TRUE
  <2>1. CASE ReadInterrupted
    BY <2>1 DEF ReadInterrupted
  <2>2. CASE ReadEnd
    BY <2>2 DEF ReadEnd
  <2>3. CASE WriteInterrupted
    BY <2>3 DEF WriteInterrupted
  <2>4. CASE BreakOff
    BY <2>4 DEF BreakOff
  <2> QED
    BY <2>1, <2>2, <2>3, <2>4
<1>2. interrupts \in Nat /\ num \in Nat /\ uneven \in Nat
  BY DEF SplitTypeOK
<1>3. SplitTypeOK'
  <2>1. num' \in Nat /\ interrupts' \in Nat /\ uneven' \in Nat
    BY <1>1, <1>2
  <2>2. spc' \in {"idle", "read", "write"}
    BY <1>1 DEF SplitTypeOK
  <2>3. failed' \in BOOLEAN
    BY <1>1 DEF SplitTypeOK
  <2> QED
    BY <1>1, <2>1, <2>2, <2>3 DEF SplitTypeOK, Parts
<1>4. Cursor'
  BY <1>1 DEF Cursor, Written
<1>5. UnitsKept'
  BY <1>1 DEF UnitsKept, Written
<1>6. PartsAligned'
  <2>1. uneven' = 0 => uneven = 0 /\ num' = num
    BY <1>1, <1>2
  <2> QED
    BY <1>1, <2>1 DEF PartsAligned, Written, Base, Parts
<1>7. PartsShort'
  <2>1. interrupts' = 0 => interrupts = 0 /\ num' = num
    BY <1>1, <1>2
  <2> QED
    BY <1>1, <2>1 DEF PartsShort, Parts
<1>8. FirstRun'
  BY <1>1 DEF FirstRun, JoinUp, Written, Parts
<1> QED
  BY <1>3, <1>4, <1>5, <1>6, <1>7, <1>8

-----------------------------------------------------------------------------
(* What has been read and is not to be written any more is in the parts.   *)
LEMMA WrittenInParts ==
    ASSUME SplitTypeOK, Cursor, UnitsKept
    PROVE  \A u \in 1 .. Written : \E k \in 1 .. n : u \in Range(files[k])
<1>1. /\ n \in Nat \ {0} /\ files[n] \in Seq(Nat) /\ Len(files[n]) \in Nat /\ Written \in Nat
      /\ woff \in Nat
  BY PartExists DEF SplitTypeOK
<1> SUFFICES ASSUME NEW u \in 1 .. Written
             PROVE  \E k \in 1 .. n : u \in Range(files[k])
  OBVIOUS
<1>2. CASE u <= Written - woff
  <2>1. u \in 1 .. Written - woff
    BY <1>1, <1>2
  <2>2. PICK k \in 1 .. n - 1 : u \in Range(files[k])
    BY <2>1 DEF UnitsKept
  <2>3. k \in 1 .. n
    BY <1>1, <2>2
  <2> QED
    BY <2>2, <2>3
<1>3. CASE ~(u <= Written - woff)
  <2>1. PICK i : i = u - (Written - woff)
    OBVIOUS
  <2>2. i \in 1 .. woff /\ Written - woff + i = u
    BY <1>1, <1>3, <2>1
  <2>3. woff <= Len(files[n]) /\ files[n][i] = u
    BY <2>2 DEF UnitsKept
  <2>4. i \in DOMAIN files[n]
    BY <1>1, <2>2, <2>3
  <2>5. u \in Range(files[n]) /\ n \in 1 .. n
    BY <1>1, <2>3, <2>4 DEF Range
  <2> QED
    BY <2>5
<1> QED
  BY <1>2, <1>3

(* A block, what is left of the list, or less is read; after three reads   *)
(* it is for the next part.                                                *)
LEMMA ReadStep == SplitIInv /\ Read => SplitIInv'
<1> SUFFICES ASSUME SplitTypeOK, Cursor, UnitsKept, PartsAligned, PartsShort, FirstRun, Read
             PROVE  SplitIInv'
  BY DEF SplitIInv
<1>0. PICK r \in 1 .. Rest :
         /\ rpos' = rpos + r /\ buf' = [u \in 1 .. r |-> rpos + u]
         /\ \/ r = Rest /\ UNCHANGED uneven
            \/ r < Rest /\ uneven < MaxUneven /\ uneven' = uneven + 1
  BY DEF Read
<1>1. /\ spc = "read" /\ rpos < today /\ buf = <<>>
      /\ spc' = "write" /\ UNCHANGED <<today, files, failed, splits, interrupts>>
  BY DEF Read, Cursor
<1>2. /\ rpos \in Nat /\ today \in Nat /\ n \in Nat \ {0} /\ woff \in Nat /\ num \in Nat
      /\ Block \in Nat \ {0} /\ interrupts \in Nat /\ uneven \in Nat
  BY SplitAssumption DEF SplitTypeOK
<1>30. Rest \in {Block, today - rpos} /\ Rest <= Block /\ Rest <= today - rpos
  <2>1. {Block, today - rpos} \subseteq Nat /\ {Block, today - rpos} # {}
    BY <1>1, <1>2
  <2> QED
    BY <2>1, MinFacts DEF Rest
<1>32. PICK most \in Nat : most = Rest
  BY <1>1, <1>2, <1>30
<1>3. /\ r \in Nat /\ 1 <= r /\ r <= Block /\ rpos' = rpos + r
      /\ rpos' \in Nat /\ rpos < rpos' /\ rpos' <= today /\ rpos' <= rpos + Block
  <2>1. r \in 1 .. most /\ most <= Block /\ most <= today - rpos /\ rpos' = rpos + r
    BY <1>0, <1>30, <1>32
  <2> QED
    BY <1>1, <1>2, <2>1
<1>33. uneven' \in Nat /\ (uneven' = 0 => uneven = 0 /\ r = most)
  BY <1>0, <1>2, <1>32
<1>31. uneven' = 0 /\ rpos' < today => rpos' = rpos + Block
  <2> SUFFICES ASSUME uneven' = 0, rpos' < today PROVE r = Block
    BY <1>3
  <2>1. r = most /\ most \in {Block, today - rpos}
    BY <1>30, <1>32, <1>33
  <2> QED
    BY <1>2, <1>3, <2>1
<1>4. /\ buf' \in Seq(Nat) /\ Len(buf') = rpos' - rpos /\ Len(buf') = r
      /\ \A u \in 1 .. rpos' - rpos : buf'[u] = rpos + u
  <2>1. r = rpos' - rpos
    BY <1>2, <1>3
  <2>2. buf' = [u \in 1 .. r |-> rpos + u]
    BY <1>0
  <2>3. \A u \in 1 .. r : rpos + u \in Nat
    BY <1>2
  <2>4. buf' \in Seq(Nat) /\ Len(buf') = r
    BY <1>3, <2>2, <2>3
  <2> QED
    BY <2>1, <2>2, <2>4
<1>5. Written = rpos /\ Written' = rpos
  <2>1. Len(buf) = 0
    BY <1>1
  <2>2. \A a, b \in Nat : b - (b - a) = a
    OBVIOUS
  <2>3. Len(buf') = rpos' - rpos /\ rpos' - (rpos' - rpos) = rpos
    BY <1>2, <1>3, <1>4, <2>2
  <2> QED
    BY <1>2, <2>1, <2>3 DEF Written
<1>6. /\ num = 3 => n' = n + 1 /\ woff' = 0 /\ num' = 1
      /\ num # 3 => n' = n /\ woff' = woff /\ num' = num + 1
  BY DEF Read, NextPart, Counted
<1>7. SplitTypeOK'
  <2>1. n' \in Nat \ {0} /\ woff' \in Nat /\ num' \in Nat
    BY <1>2, <1>6
  <2> QED
    BY <1>1, <1>3, <1>33, <1>4, <2>1 DEF SplitTypeOK, Parts
<1>8. Cursor'
  <2>1. n' <= rpos' + 1
    <3>1. n <= rpos + 1 /\ n' <= n + 1
      BY <1>2, <1>6 DEF Cursor
    <3>2. n' \in Nat
      BY <1>7 DEF SplitTypeOK
    <3>3. \A a, b, c, d \in Nat : a <= b + 1 /\ c <= a + 1 /\ b < d => c <= d + 1
      OBVIOUS
    <3> QED
      BY <1>2, <1>3, <3>1, <3>2, <3>3
  <2>2. Len(buf') <= rpos'
    <3>1. \A a, b \in Nat : b - a <= b
      OBVIOUS
    <3> QED
      BY <1>2, <1>3, <1>4, <3>1
  <2> QED
    BY <1>1, <1>3, <1>4, <1>5, <2>1, <2>2 DEF Cursor
<1>9. n' \in Parts /\ files[n'] \in Seq(Nat) /\ Len(files[n']) \in Nat
  <2>1. today <= Size /\ Size \in Nat
    BY SplitAssumption DEF SplitTypeOK
  <2>2. n' <= rpos' + 1 /\ n' \in Nat \ {0}
    BY <1>7, <1>8 DEF SplitTypeOK, Cursor
  <2>3. \A a \in Nat \ {0}, b \in Nat : a <= b + 1 /\ b <= today => a \in Parts
    BY <1>2, <2>1 DEF Parts
  <2>4. n' \in Parts
    BY <1>3, <2>2, <2>3
  <2> QED
    BY <2>4 DEF SplitTypeOK
<1>10. UnitsKept'
  <2>1. CASE num = 3
    <3>1. n' = n + 1 /\ woff' = 0
      BY <1>6, <2>1
    <3>2. \A u \in 1 .. Written : \E k \in 1 .. n : u \in Range(files[k])
      BY WrittenInParts
    <3>3. n' - 1 = n /\ Written' - woff' = Written /\ Written' \in Nat
      BY <1>2, <1>5, <3>1
    <3>4. woff' <= Written' /\ woff' <= Len(files[n'])
      BY <1>9, <3>1, <3>3
    <3>5. \A i \in 1 .. woff' : files[n'][i] = Written' - woff' + i
      BY <3>1
    <3>6. \A u \in 1 .. Written' - woff' : \E k \in 1 .. n' - 1 : u \in Range(files[k])
      BY <3>2, <3>3
    <3>7. files' = files
      BY <1>1
    <3> QED
      BY <3>4, <3>5, <3>6, <3>7 DEF UnitsKept
  <2>2. CASE num # 3
    <3>1. n' = n /\ woff' = woff /\ Written' = Written /\ files' = files
      BY <1>1, <1>5, <1>6, <2>2
    <3> QED
      BY <3>1 DEF UnitsKept
  <2> QED
    BY <2>1, <2>2
<1>11. PartsAligned'
  <2>0. ASSUME uneven' = 0
        PROVE  uneven = 0 /\ (rpos' < today => rpos' = rpos + Block)
    BY <1>31, <1>33, <2>0
  <2> SUFFICES ASSUME uneven' = 0
               PROVE  /\ num' <= 3 /\ woff' = Written' - Base(n')
                      /\ rpos' <= Base(n') + num' * Block
                      /\ rpos' < today => rpos' = Base(n') + num' * Block
    BY <1>1, <2>0 DEF PartsAligned, Base, Parts
  <2>1. /\ num <= 3 /\ woff = rpos - Base(n) /\ rpos = Base(n) + num * Block
        /\ Base(n) \in Nat
    BY <1>1, <1>2, <1>5, <2>0, BaseFacts DEF PartsAligned
  <2>2. CASE num = 3
    <3>1. n' = n + 1 /\ woff' = 0 /\ num' = 1
      BY <1>6, <2>2
    <3>2. Base(n') = rpos
      <4>1. Base(n') = Base(n) + 3 * Block
        BY <1>2, <3>1, BaseFacts
      <4> QED
        BY <2>1, <2>2, <4>1
    <3>3. num' * Block = Block
      BY <3>1, BlocksCounted
    <3> QED
      BY <1>2, <1>3, <2>0, <1>5, <3>1, <3>2, <3>3
  <2>3. CASE num # 3
    <3>1. n' = n /\ woff' = woff /\ num' = num + 1
      BY <1>6, <2>3
    <3>2. num' * Block = num * Block + Block /\ num * Block \in Nat
      BY <1>2, <3>1, BlocksCounted
    <3>3. Base(n) + num' * Block = rpos + Block
      BY <1>2, <2>1, <3>2
    <3> QED
      BY <1>2, <1>3, <2>0, <1>5, <2>1, <2>3, <3>1, <3>3
  <2> QED
    BY <2>2, <2>3
<1>12. PartsShort'
  <2> SUFFICES ASSUME interrupts = 0
               PROVE  num' <= 3 /\ woff' + Len(buf') <= num' * Block
    BY <1>1 DEF PartsShort, Parts
  <2>1. num <= 3 /\ woff <= num * Block /\ num * Block \in Nat
    <3>1. Len(buf) = 0
      BY <1>1
    <3>2. num <= 3 /\ woff + Len(buf) <= num * Block
      BY DEF PartsShort
    <3> QED
      BY <1>2, <3>1, <3>2, BlocksCounted
  <2>2. CASE num = 3
    <3>1. woff' = 0 /\ num' = 1 /\ num' * Block = Block
      BY <1>6, <2>2, BlocksCounted
    <3> QED
      BY <1>2, <1>3, <1>4, <3>1
  <2>3. CASE num # 3
    <3>1. woff' = woff /\ num' = num + 1 /\ num' * Block = num * Block + Block
      BY <1>2, <1>6, <2>3, BlocksCounted
    <3> QED
      BY <1>2, <1>3, <1>4, <2>1, <2>3, <3>1
  <2> QED
    BY <2>2, <2>3
<1>13. FirstRun'
  <2>0. splits # 0 /\ splits' = splits
    BY <1>1 DEF FirstRun
  <2> SUFFICES ASSUME splits <= 1
               PROVE  /\ woff' = Len(files[n'])
                      /\ \E at : JoinUp(at) /\ \A k \in Parts : n' <= k => at[k] = Written
    BY <1>1, <1>5, <2>0 DEF FirstRun, JoinUp, Parts
  <2>1. PICK at : JoinUp(at) /\ \A k \in Parts : n <= k => at[k] = Written
    BY DEF FirstRun
  <2>2. Parts \subseteq Nat /\ n \in Parts
    BY PartExists DEF Parts
  <2>3. \A k \in Parts : n' <= k => at[k] = Written
    BY <1>2, <1>6, <2>1, <2>2
  <2>4. woff' = Len(files[n'])
    <3>1. CASE num = 3
      <4>1. n' = n + 1 /\ woff' = 0 /\ n' - 1 = n
        BY <1>2, <1>6, <3>1
      <4>2. at[n'] = Written /\ at[n] = Written /\ at[n'] = at[n] + Len(files[n'])
        BY <1>2, <1>9, <2>1, <2>2, <4>1 DEF JoinUp
      <4> QED
        BY <1>2, <1>5, <1>9, <4>1, <4>2
    <3>2. CASE num # 3
      BY <1>6, <3>2 DEF FirstRun
    <3> QED
      BY <3>1, <3>2
  <2> QED
    BY <2>1, <2>3, <2>4
<1> QED
  BY <1>7, <1>8, <1>10, <1>11, <1>12, <1>13 DEF SplitIInv

(* A write puts units of the block at the offset; what a longer file of an *)
(* earlier run has behind them stays.                                      *)
LEMMA WriteStep == SplitIInv /\ Write => SplitIInv'
<1> SUFFICES ASSUME SplitTypeOK, Cursor, UnitsKept, PartsAligned, PartsShort, FirstRun, Write
             PROVE  SplitIInv'
  BY DEF SplitIInv
<1>1. PICK k \in 1 .. Len(buf) :
         /\ files' = [files EXCEPT ![n] = Overwritten(@, woff, SubSeq(buf, 1, k))]
         /\ woff' = woff + k /\ buf' = SubSeq(buf, k + 1, Len(buf))
  BY DEF Write
<1>2. /\ spc = "write" /\ spc' = IF buf' = <<>> THEN "read" ELSE "write"
      /\ UNCHANGED <<today, n, num, rpos, failed, splits, interrupts, uneven>>
  BY DEF Write
<1>3. /\ n \in Parts /\ files[n] \in Seq(Nat) /\ Len(files[n]) \in Nat
      /\ Len(buf) \in Nat /\ Written \in Nat /\ rpos = Written + Len(buf)
  BY PartExists
<1>4. /\ rpos \in Nat /\ today \in Nat /\ n \in Nat \ {0} /\ woff \in Nat /\ num \in Nat
      /\ buf \in Seq(Nat) /\ k \in Nat /\ 1 <= k /\ k <= Len(buf)
      /\ woff <= Written /\ woff <= Len(files[n])
  BY <1>3 DEF SplitTypeOK, UnitsKept
<1>5. \A i \in 1 .. Len(buf) : buf[i] \in Nat /\ buf[i] = Written + i
  BY <1>4 DEF Cursor
<1>6. PICK data : data = SubSeq(buf, 1, k)
  OBVIOUS
<1>7. data \in Seq(Nat) /\ Len(data) = k /\ \A i \in 1 .. k : data[i] = Written + i
  <2>1. \A i \in 1 .. k : buf[i] \in Nat /\ buf[i] = Written + i
    BY <1>3, <1>4, <1>5
  <2>2. /\ data \in Seq(Nat) /\ Len(data) = IF 1 <= k THEN k - 1 + 1 ELSE 0
        /\ \A i \in 1 .. k - 1 + 1 : data[i] = buf[1 + i - 1]
    BY <1>4, <1>6, <2>1, SubSeqProperties
  <2> QED
    BY <1>4, <2>1, <2>2
<1>8. /\ buf' \in Seq(Nat) /\ Len(buf') = Len(buf) - k
      /\ \A i \in 1 .. Len(buf) - k : buf'[i] = Written + k + i
  <2>1. \A i \in k + 1 .. Len(buf) : buf[i] \in Nat
    BY <1>4, <1>5
  <2>2. /\ buf' \in Seq(Nat)
        /\ Len(buf') = IF k + 1 <= Len(buf) THEN Len(buf) - (k + 1) + 1 ELSE 0
        /\ \A i \in 1 .. Len(buf) - (k + 1) + 1 : buf'[i] = buf[k + 1 + i - 1]
    <3>1. buf' = SubSeq(buf, k + 1, Len(buf)) /\ k + 1 \in Int /\ Len(buf) \in Int
      BY <1>1, <1>3, <1>4
    <3> QED
      BY <2>1, <3>1, SubSeqProperties
  <2>3. PICK length \in Nat : length = Len(buf)
    BY <1>3
  <2>4. Len(buf') = length - k
    BY <1>4, <2>2, <2>3
  <2>5. ASSUME NEW i \in 1 .. length - k PROVE buf'[i] = Written + k + i
    <3>1. i \in 1 .. length - (k + 1) + 1 /\ k + 1 + i - 1 = k + i /\ k + i \in 1 .. length
      BY <1>4, <2>3
    <3>2. buf'[i] = buf[k + i]
      BY <2>2, <2>3, <3>1
    <3>3. buf[k + i] = Written + (k + i)
      BY <1>5, <2>3, <3>1
    <3> QED
      BY <1>3, <1>4, <3>2, <3>3
  <2> QED
    BY <2>2, <2>3, <2>4, <2>5
<1>9. Written' = Written + k
  BY <1>2, <1>3, <1>4, <1>8 DEF Written
<1>10. PICK over : over = Overwritten(files[n], woff, data)
  OBVIOUS
<1>11. /\ over \in Seq(Nat)
       /\ Len(over) = IF Len(files[n]) < woff + k THEN woff + k ELSE Len(files[n])
       /\ \A i \in 1 .. woff : over[i] = files[n][i]
       /\ \A i \in 1 .. k : over[woff + i] = Written + i
       /\ \A i \in woff + k + 1 .. Len(files[n]) : over[i] = files[n][i]
  <2>1. woff \in 0 .. Len(files[n])
    BY <1>3, <1>4
  <2> QED
    BY <1>3, <1>7, <1>10, <2>1, OverwrittenFacts
<1>12. files' \in [Parts -> Seq(Nat)] /\ files'[n] = over /\ \A p \in Parts \ {n} : files'[p] = files[p]
  <2>1. files' = [files EXCEPT ![n] = over]
    BY <1>1, <1>6, <1>10
  <2> QED
    BY <1>3, <1>11, <2>1 DEF SplitTypeOK
<1>13. SplitTypeOK'
  <2>1. woff' \in Nat /\ spc' \in {"idle", "read", "write"}
    BY <1>1, <1>2, <1>4
  <2> QED
    BY <1>2, <1>8, <1>12, <2>1 DEF SplitTypeOK, Parts
<1>14. Cursor'
  <2>1. Len(buf') <= rpos
    BY <1>3, <1>4, <1>8
  <2>2. rpos' <= today' /\ n' <= rpos' + 1
    BY <1>2 DEF Cursor
  <2>3. spc' # "idle" /\ (spc' = "read" => buf' = <<>>)
    BY <1>2
  <2> QED
    BY <1>2, <1>8, <1>9, <2>1, <2>2, <2>3 DEF Cursor
<1>15. woff' <= Len(over) /\ woff' \in Nat
  BY <1>1, <1>3, <1>4, <1>11
<1>16. \A i \in 1 .. woff + k : over[i] = Written - woff + i
  <2> SUFFICES ASSUME NEW i \in 1 .. woff + k PROVE over[i] = Written - woff + i
    OBVIOUS
  <2>1. CASE i <= woff
    <3>1. i \in 1 .. woff
      BY <1>4, <2>1
    <3> QED
      BY <1>11, <3>1 DEF UnitsKept
  <2>2. CASE ~(i <= woff)
    <3>1. PICK j : j = i - woff
      OBVIOUS
    <3>2. j \in 1 .. k /\ woff + j = i /\ Written + j = Written - woff + i
      BY <1>3, <1>4, <2>2, <3>1
    <3> QED
      BY <1>11, <3>2
  <2> QED
    BY <2>1, <2>2
<1>17. UnitsKept'
  <2>1. Written' - woff' = Written - woff /\ woff' <= Written'
    BY <1>1, <1>3, <1>4, <1>9
  <2>2. ASSUME NEW u \in 1 .. Written - woff
        PROVE  \E p \in 1 .. n - 1 : u \in Range(files'[p])
    <3>1. PICK p \in 1 .. n - 1 : u \in Range(files[p])
      BY <2>2 DEF UnitsKept
    <3>2. p \in Parts \ {n}
      <4>1. Size \in Nat /\ n \in Nat /\ p \in Nat /\ 1 <= p /\ p < n /\ n <= Size + 1
        BY <1>3, <1>4, SplitAssumption DEF Parts
      <4> QED
        BY <4>1 DEF Parts
    <3> QED
      BY <1>12, <3>1, <3>2
  <2>3. \A i \in 1 .. woff' : files'[n'][i] = Written' - woff' + i
    BY <1>1, <1>2, <1>12, <1>16, <2>1
  <2> QED
    BY <1>2, <1>12, <1>15, <2>1, <2>2, <2>3 DEF UnitsKept
<1>18. PartsAligned'
  <2> SUFFICES ASSUME uneven = 0 PROVE PartsAligned'
    BY <1>2 DEF PartsAligned
  <2>1. /\ num <= 3 /\ woff = Written - Base(n) /\ rpos <= Base(n) + num * Block
        /\ rpos < today => rpos = Base(n) + num * Block
        /\ \A p \in Parts :
              /\ Len(files[p]) <= 3 * Block
              /\ \A i \in 1 .. Len(files[p]) : files[p][i] = Base(p) + i /\ Base(p) + i <= today
    BY DEF PartsAligned
  <2>2. Base(n) \in Nat /\ 3 * Block \in Nat /\ num * Block \in Nat /\ num * Block <= 3 * Block
    <3>1. num \in {0, 1, 2, 3} /\ Block \in Nat
      BY <1>4, <2>1, BaseFacts
    <3>2. /\ 0 * Block = 0 /\ 1 * Block = Block /\ 2 * Block = Block + Block
          /\ 3 * Block = Block + Block + Block
      BY <3>1
    <3>3. num * Block \in Nat /\ num * Block <= 3 * Block
      BY <3>1, <3>2
    <3> QED
      BY <1>4, <3>3, BaseFacts
  <2>3. woff' = Written' - Base(n)
    BY <1>1, <1>3, <1>4, <1>9, <2>1, <2>2
  <2>4. woff + k <= 3 * Block /\ Base(n) + (woff + k) <= today
    <3>1. Written + k <= rpos /\ rpos <= today
      BY <1>3, <1>4 DEF Cursor
    <3>2. /\ woff = Written - Base(n) /\ rpos <= Base(n) + num * Block
          /\ today \in Nat /\ rpos \in Nat
      BY <1>4, <2>1
    <3>3. PICK b \in Nat, c \in Nat, d \in Nat : b = Base(n) /\ c = num * Block /\ d = 3 * Block
      BY <2>2
    <3>4. c <= d /\ woff = Written - b /\ rpos <= b + c
      BY <2>2, <3>2, <3>3
    <3>5. woff + k <= d /\ b + (woff + k) <= today
      BY <1>3, <1>4, <3>1, <3>4
    <3> QED
      BY <3>3, <3>5
  <2>5. Len(over) <= 3 * Block
    BY <1>11, <2>1, <2>4, <1>3
  <2>6. ASSUME NEW i \in 1 .. Len(over) PROVE over[i] = Base(n) + i /\ Base(n) + i <= today
    <3>1. CASE i <= woff + k
      <4>1. i \in 1 .. woff + k
        BY <1>4, <3>1
      <4>2. over[i] = Written - woff + i /\ Written - woff = Base(n)
        BY <1>3, <1>4, <1>16, <2>1, <2>2, <4>1
      <4>3. Base(n) + i <= today
        BY <1>4, <2>2, <2>4, <4>1
      <4> QED
        BY <4>2, <4>3
    <3>2. CASE ~(i <= woff + k)
      <4>1. i \in woff + k + 1 .. Len(files[n]) /\ i \in 1 .. Len(files[n])
        BY <1>3, <1>4, <1>11, <3>2
      <4> QED
        BY <1>3, <1>11, <2>1, <4>1
    <3> QED
      BY <3>1, <3>2
  <2>7. \A p \in Parts :
           /\ Len(files'[p]) <= 3 * Block
           /\ \A i \in 1 .. Len(files'[p]) : files'[p][i] = Base(p) + i /\ Base(p) + i <= today
    BY <1>12, <2>1, <2>5, <2>6
  <2> QED
    BY <1>2, <2>1, <2>3, <2>7 DEF PartsAligned, Base, Parts
<1>19. PartsShort'
  <2> SUFFICES ASSUME interrupts = 0
               PROVE  /\ woff' + Len(buf') <= num * Block
                      /\ \A p \in Parts : Len(files'[p]) <= 3 * Block
    BY <1>2 DEF PartsShort, Parts
  <2>1. /\ num <= 3 /\ woff + Len(buf) <= num * Block
        /\ \A p \in Parts : Len(files[p]) <= 3 * Block
    BY DEF PartsShort
  <2>2. woff' + Len(buf') = woff + Len(buf)
    <3>1. woff' = woff + k /\ Len(buf') = Len(buf) - k
      BY <1>1, <1>8
    <3>2. \A a, b, c \in Nat : (a + c) + (b - c) = a + b
      OBVIOUS
    <3> QED
      BY <1>3, <1>4, <3>1, <3>2
  <2>3. num * Block <= 3 * Block /\ num * Block \in Nat /\ 3 * Block \in Nat
    <3>1. num \in {0, 1, 2, 3} /\ Block \in Nat
      BY <1>4, <2>1, BaseFacts
    <3>2. /\ 0 * Block = 0 /\ 1 * Block = Block /\ 2 * Block = Block + Block
          /\ 3 * Block = Block + Block + Block
      BY <3>1
    <3> QED
      BY <3>1, <3>2
  <2>4. woff + k <= 3 * Block
    <3>1. PICK c \in Nat, d \in Nat : c = num * Block /\ d = 3 * Block /\ c <= d
      BY <2>3
    <3>2. woff + Len(buf) <= c
      BY <2>1, <3>1
    <3>3. woff + k <= d
      BY <1>3, <1>4, <3>1, <3>2
    <3> QED
      BY <3>1, <3>3
  <2>5. Len(over) <= 3 * Block
    BY <1>11, <2>1, <2>4, <1>3
  <2> QED
    BY <1>12, <2>1, <2>2, <2>5
<1>20. FirstRun'
  <2>0. splits # 0 /\ splits' = splits
    BY <1>2 DEF FirstRun
  <2> SUFFICES ASSUME splits <= 1
               PROVE  /\ woff' = Len(files'[n])
                      /\ \E at : JoinUp(at)' /\ \A p \in Parts : n <= p => at[p] = Written'
    BY <1>2, <2>0 DEF FirstRun, Parts
  <2>1. PICK at : JoinUp(at) /\ \A p \in Parts : n <= p => at[p] = Written
    BY DEF FirstRun
  <2>2. woff = Len(files[n])
    BY DEF FirstRun
  <2>3. woff' = Len(over)
    BY <1>1, <1>3, <1>4, <1>11, <2>2
  <2>4. /\ Parts \subseteq Nat \ {0} /\ \A p \in Parts : p - 1 \in 0 .. Size + 1 /\ p \in 0 .. Size + 1
        /\ 0 \in 0 .. Size + 1 /\ at[0] = 0 /\ \A q \in 0 .. Size + 1 : at[q] \in Nat /\ q \in Nat
    BY <2>1, SplitAssumption DEF JoinUp, Parts
  <2>5. PICK then : then = [q \in 0 .. Size + 1 |-> IF n <= q THEN at[q] + k ELSE at[q]]
    OBVIOUS
  <2>6. then \in [0 .. Size + 1 -> Nat] /\ then[0] = 0
    BY <1>4, <2>4, <2>5
  <2>7. ASSUME NEW p \in Parts
        PROVE  /\ then[p] = then[p - 1] + Len(files'[p])
               /\ \A i \in 1 .. Len(files'[p]) : files'[p][i] = then[p - 1] + i
    <3>1. /\ p \in Nat \ {0} /\ at[p] \in Nat /\ at[p - 1] \in Nat
          /\ then[p] = (IF n <= p THEN at[p] + k ELSE at[p])
          /\ then[p - 1] = (IF n <= p - 1 THEN at[p - 1] + k ELSE at[p - 1])
      BY <2>4, <2>5
    <3>2. /\ at[p] = at[p - 1] + Len(files[p]) /\ Len(files[p]) \in Nat
          /\ \A i \in 1 .. Len(files[p]) : files[p][i] = at[p - 1] + i
      BY <2>1 DEF JoinUp, SplitTypeOK
    <3>3. CASE p < n
      <4>1. files'[p] = files[p] /\ then[p] = at[p] /\ then[p - 1] = at[p - 1]
        BY <1>4, <1>12, <3>1, <3>3
      <4> QED
        BY <3>2, <4>1
    <3>4. CASE p = n
      <4>1. files'[p] = over /\ then[p] = at[p] + k /\ then[p - 1] = at[p - 1]
        BY <1>4, <1>12, <3>1, <3>4
      <4>2. at[p - 1] = Written - woff
        <5>1. at[p] = Written /\ at[p] = at[p - 1] + woff
          BY <1>4, <2>1, <2>2, <3>2, <3>4
        <5> QED
          BY <1>3, <1>4, <3>1, <5>1
      <4>3. Len(over) = woff + k
        BY <1>1, <2>3
      <4>4. then[p] = then[p - 1] + Len(over)
        <5>1. then[p] = (at[p - 1] + woff) + k /\ then[p - 1] = at[p - 1]
          BY <2>2, <3>2, <3>4, <4>1
        <5>2. \A a, b, c \in Nat : (a + b) + c = a + (b + c)
          OBVIOUS
        <5> QED
          BY <1>4, <3>1, <4>3, <5>1, <5>2
      <4> QED
        BY <1>16, <4>1, <4>2, <4>3, <4>4
    <3>5. CASE n < p
      <4>1. files'[p] = files[p] /\ then[p] = at[p] + k /\ then[p - 1] = at[p - 1] + k
        BY <1>4, <1>12, <3>1, <3>5
      <4>2. p - 1 \in Parts /\ n <= p - 1 /\ n <= p
        <5>1. Size \in Nat /\ p <= Size + 1
          BY SplitAssumption DEF Parts
        <5> QED
          BY <1>4, <3>1, <3>5, <5>1 DEF Parts
      <4>3. at[p] = Written /\ at[p - 1] = Written
        BY <2>1, <4>2
      <4>4. Len(files[p]) = 0
        BY <1>3, <3>2, <4>3
      <4> QED
        BY <1>4, <3>1, <3>2, <4>1, <4>4
    <3> QED
      BY <1>4, <3>1, <3>3, <3>4, <3>5
  <2>8. JoinUp(then)'
    BY <2>6, <2>7 DEF JoinUp, Parts
  <2>9. \A p \in Parts : n <= p => then[p] = Written'
    BY <1>9, <2>1, <2>4, <2>5
  <2> QED
    BY <1>12, <2>3, <2>8, <2>9
<1> QED
  BY <1>13, <1>14, <1>17, <1>18, <1>19, <1>20 DEF SplitIInv

-----------------------------------------------------------------------------
LEMMA SplitInitOK == SplitInit => SplitIInv
<1> SUFFICES ASSUME SplitInit PROVE SplitIInv
  OBVIOUS
<1>1. /\ today = 0 /\ files = [k \in Parts |-> <<>>] /\ n = 1 /\ woff = 0 /\ num = 0 /\ rpos = 0
      /\ buf = <<>> /\ spc = "idle" /\ splits = 0 /\ interrupts = 0 /\ uneven = 0
  BY DEF SplitInit
<1>2. Size \in Nat /\ 1 \in Parts
  BY SplitAssumption DEF Parts
<1>3. files \in [Parts -> Seq(Nat)] /\ \A k \in Parts : Len(files[k]) = 0
  BY <1>1
<1>4. SplitTypeOK
  <2>1. failed \in BOOLEAN
    BY DEF SplitInit
  <2>2. buf \in Seq(Nat) /\ today \in 0 .. Size
    BY <1>1, <1>2
  <2> QED
    BY <1>1, <1>3, <2>1, <2>2 DEF SplitTypeOK
<1>5. Written = 0 /\ Len(buf) = 0
  <2>1. Len(buf) = 0 /\ rpos = 0
    BY <1>1
  <2> QED
    BY <2>1 DEF Written
<1>6. Cursor
  BY <1>1, <1>5 DEF Cursor
<1>7. UnitsKept
  <2>1. Len(files[n]) = 0
    BY <1>1, <1>2, <1>3
  <2> QED
    BY <1>1, <1>5, <2>1 DEF UnitsKept
<1>8. PartsAligned
  <2>1. Base(n) = 0 /\ num * Block = 0
    BY <1>1, BaseFacts, BlocksCounted
  <2>2. 3 * Block \in Nat
    BY BaseFacts
  <2>3. \A k \in Parts :
           /\ Len(files[k]) <= 3 * Block
           /\ \A i \in 1 .. Len(files[k]) : files[k][i] = Base(k) + i /\ Base(k) + i <= today
    BY <1>3, <2>2
  <2>4. num <= 3 /\ woff = Written - Base(n) /\ rpos <= Base(n) + num * Block /\ ~(rpos < today)
    BY <1>1, <1>5, <2>1
  <2> QED
    BY <2>3, <2>4 DEF PartsAligned
<1>9. PartsShort
  <2>1. num * Block = 0 /\ woff + Len(buf) = 0 /\ num <= 3 /\ 3 * Block \in Nat
    BY <1>1, <1>5, BaseFacts, BlocksCounted
  <2> QED
    BY <1>3, <2>1 DEF PartsShort
<1>10. FirstRun
  <2>1. PICK at : at = [k \in 0 .. Size + 1 |-> 0]
    OBVIOUS
  <2>2. \A k \in Parts : k - 1 \in 0 .. Size + 1 /\ k \in 0 .. Size + 1
    BY <1>2 DEF Parts
  <2>3. at \in [0 .. Size + 1 -> Nat] /\ \A k \in 0 .. Size + 1 : at[k] = 0
    BY <2>1
  <2>4. JoinUp(at)
    BY <1>2, <1>3, <2>2, <2>3 DEF JoinUp
  <2>5. \A k \in Parts : at[k] = Written
    BY <1>5, <2>2, <2>3
  <2> QED
    BY <1>1, <1>2, <1>3, <1>5, <2>4, <2>5 DEF FirstRun
<1> QED
  BY <1>4, <1>6, <1>7, <1>8, <1>9, <1>10 DEF SplitIInv

(* In every step of the eviction: part n begins with the last units        *)
(* written, and those before are in the parts before it (split.cc:37-69).  *)
(* The parts of the first run join up wherever its reads cut; when every   *)
(* read fills the block, part n holds the n-th three blocks; and while no  *)
(* read is interrupted, three reads fill a part.                           *)
THEOREM SplitSafe == Spec => []SplitIInv
<1>1. Init => SplitIInv
  BY SplitInitOK DEF Init
<1>2. SplitIInv /\ [Next]_vars => SplitIInv'
  <2> SUFFICES ASSUME SplitIInv, [Next]_vars PROVE SplitIInv'
    OBVIOUS
  <2>1. CASE SplitNext
    BY <2>1, OpenStep, ReadStep, WriteStep, SplitPauses DEF SplitNext
  <2>2. CASE UNCHANGED splitVars
    BY <2>2 DEF splitVars, SplitIInv, SplitTypeOK, Cursor, UnitsKept, PartsAligned, PartsShort,
                FirstRun, JoinUp, Written, Base, Parts
  <2> QED
    BY <2>1, <2>2 DEF Next, SplitStep, CleanPart, CleanStep, Stopped, vars
<1> QED
  BY <1>1, <1>2, PTL DEF Spec

(* No unit of the list is lost, whatever is interrupted, read and written  *)
(* in pieces, and whatever files of an earlier run are written over        *)
(* (split.cc:37, :43, :61): it is in a part, or still to be written.       *)
THEOREM ListIsKept == Spec => []SplitKeeps
<1>1. SplitIInv => SplitKeeps
  <2> SUFFICES ASSUME SplitTypeOK, Cursor, UnitsKept PROVE SplitKeeps
    BY DEF SplitIInv
  <2>1. \A u \in 1 .. Written : \E k \in 1 .. n : u \in Range(files[k])
    BY WrittenInParts
  <2>2. 1 .. n \subseteq Parts
    <3>1. n \in Parts /\ Size \in Nat
      BY PartExists, SplitAssumption
    <3> QED
      BY <3>1 DEF Parts
  <2> QED
    BY <2>1, <2>2 DEF SplitKeeps, Cursor, Written
<1> QED
  BY <1>1, SplitSafe, PTL

-----------------------------------------------------------------------------
(* FlattenSeq joins the sequences one by one: there is the function it is  *)
(* defined by.                                                             *)
LEMMA FlattenExists ==
    ASSUME NEW s, NEW m \in Nat
    PROVE  \E f : f = [k \in 1 .. m |-> IF k = 1 THEN s[k] ELSE f[k - 1] \o s[k]]
<1> DEFINE Flattens(f, k) == f = [j \in 1 .. k |-> IF j = 1 THEN s[j] ELSE f[j - 1] \o s[j]]
           Bad == {k \in Nat : ~ \E f : Flattens(f, k)}
<1>1. SUFFICES ASSUME Bad # {} PROVE FALSE
  OBVIOUS
<1>2. PICK k \in Bad : \A j \in Bad : k <= j
  <2> HIDE DEF Bad
  <2>1. Bad \subseteq Nat
    BY DEF Bad
  <2> QED
    BY <1>1, <2>1, LeastNat
<1>3. k # 0
  <2>1. Flattens([j \in 1 .. 0 |-> 0], 0)
    OBVIOUS
  <2> QED
    BY <2>1
<1>4. k \in Nat \ {0} /\ k - 1 \in Nat /\ k - 1 \notin Bad
  <2>1. k \in Nat \ {0}
    BY <1>3
  <2>2. k - 1 \in Nat /\ ~(k <= k - 1)
    BY <2>1
  <2> QED
    BY <1>2, <2>1, <2>2
<1>5. PICK g : Flattens(g, k - 1)
  BY <1>4
<1>6. PICK h : h = [j \in 1 .. k |-> IF j < k THEN g[j] ELSE IF j = 1 THEN s[j] ELSE g[j - 1] \o s[j]]
  OBVIOUS
<1>7. ASSUME NEW j \in 1 .. k PROVE h[j] = IF j = 1 THEN s[j] ELSE h[j - 1] \o s[j]
  <2>1. \A i \in 1 .. k : i < k => h[i] = g[i]
    BY <1>6
  <2>2. j # 1 => j - 1 \in 1 .. k /\ j - 1 < k
    BY <1>4
  <2>3. CASE j < k
    <3>1. j \in 1 .. k - 1
      BY <1>4, <2>3
    <3>2. g[j] = IF j = 1 THEN s[j] ELSE g[j - 1] \o s[j]
      BY <1>5, <3>1
    <3> QED
      BY <2>1, <2>2, <2>3, <3>2
  <2>4. CASE ~(j < k)
    <3>1. h[j] = IF j = 1 THEN s[j] ELSE g[j - 1] \o s[j]
      BY <1>6, <2>4
    <3> QED
      BY <2>1, <2>2, <3>1
  <2> QED
    BY <2>3, <2>4
<1>8. Flattens(h, k)
  BY <1>6, <1>7
<1> QED
  BY <1>8

LEMMA FlattenUnfolds ==
    ASSUME NEW s, Len(s) \in Nat \ {0}
    PROVE  \E f : /\ f = [k \in 1 .. Len(s) |-> IF k = 1 THEN s[k] ELSE f[k - 1] \o s[k]]
                  /\ FlattenSeq(s) = f[Len(s)]
<1> DEFINE Flattens(f) == f = [k \in 1 .. Len(s) |-> IF k = 1 THEN s[k] ELSE f[k - 1] \o s[k]]
           flat == CHOOSE f : Flattens(f)
<1>1. \E f : Flattens(f)
  BY FlattenExists
<1>2. Flattens(flat)
  BY <1>1
<1>3. FlattenSeq(s) = flat[Len(s)]
  BY DEF FlattenSeq
<1> QED
  BY <1>2, <1>3

(* Where the first k parts end, when there are no more than today units.   *)
EndOf(k) == IF Base(k + 1) <= today THEN Base(k + 1) ELSE today

(* A run that has read the whole list with full blocks has filled each     *)
(* part up to the next, or up to the end of the list.                      *)
LEMMA PartsExact ==
    ASSUME SplitIInv, SplitKeeps, ~failed, spc = "idle", splits > 0, uneven = 0, NEW k \in Parts
    PROVE  /\ k \in Nat \ {0} /\ files[k] \in Seq(Nat) /\ Len(files[k]) \in Nat
           /\ EndOf(k) \in Nat /\ EndOf(k - 1) \in Nat /\ EndOf(k) = EndOf(k - 1) + Len(files[k])
           /\ \A i \in 1 .. Len(files[k]) : files[k][i] = EndOf(k - 1) + i
<1>1. /\ today \in Nat /\ k \in Nat \ {0} /\ files[k] \in Seq(Nat) /\ Len(files[k]) \in Nat
      /\ Parts \subseteq Nat \ {0} /\ files \in [Parts -> Seq(Nat)]
  BY SplitAssumption DEF SplitIInv, SplitTypeOK, Parts
<1>2. /\ \A p \in Parts : Len(files[p]) <= 3 * Block
      /\ \A p \in Parts : \A i \in 1 .. Len(files[p]) : files[p][i] = Base(p) + i
      /\ \A p \in Parts : \A i \in 1 .. Len(files[p]) : Base(p) + i <= today
  BY DEF SplitIInv, PartsAligned
<1>3. PICK b \in Nat, d \in Nat \ {0} : b = Base(k) /\ d = 3 * Block
  BY <1>1, BaseFacts
<1>4. Base(k + 1) = b + d /\ Base((k - 1) + 1) = b
  BY <1>1, <1>3, BaseFacts
<1>5. PICK length \in Nat : length = Len(files[k])
  BY <1>1
<1>6. length <= d /\ \A i \in 1 .. length : files[k][i] = b + i /\ b + i <= today
  BY <1>2, <1>3, <1>5
<1>7. ASSUME NEW u \in 1 .. today, b < u, u <= b + d
      PROVE  u <= b + length
  <2>1. rpos = today /\ buf = <<>>
    BY DEF SplitKeeps
  <2>2. rpos - Len(buf) = today
    BY <1>1, <2>1
  <2>3. PICK p \in Parts : u \in Range(files[p])
    BY <2>2 DEF SplitKeeps
  <2>4. PICK i \in 1 .. Len(files[p]) : u = files[p][i]
    <3>1. files[p] \in Seq(Nat)
      BY <1>1
    <3> QED
      BY <2>3, <3>1 DEF Range
  <2>5. u = Base(p) + i /\ p \in Nat \ {0} /\ Base(p) \in Nat /\ i \in Nat /\ 1 <= i
    BY <1>1, <1>2, <2>4, BaseFacts
  <2>6. i <= d
    <3>1. Len(files[p]) \in Nat /\ Len(files[p]) <= d
      BY <1>1, <1>2, <1>3
    <3> QED
      BY <2>4, <3>1
  <2>7. CASE p = k
    <3>1. i \in 1 .. length /\ u = b + i
      BY <1>3, <1>5, <2>4, <2>5, <2>7
    <3> QED
      BY <3>1
  <2>8. CASE p < k
    <3>1. Base(p) + d <= b
      BY <1>1, <1>3, <2>5, <2>8, BaseFacts
    <3> QED
      BY <1>7, <2>5, <2>6, <3>1
  <2>9. CASE k < p
    <3>1. b + d <= Base(p)
      BY <1>1, <1>3, <2>5, <2>9, BaseFacts
    <3> QED
      BY <1>7, <2>5, <2>6, <3>1
  <2> QED
    BY <1>1, <2>5, <2>7, <2>8, <2>9
<1>8. PICK before \in Nat, after \in Nat :
         /\ before = EndOf(k - 1) /\ after = EndOf(k)
         /\ before = (IF b <= today THEN b ELSE today)
         /\ after = (IF b + d <= today THEN b + d ELSE today)
  <2>1. EndOf(k - 1) = (IF b <= today THEN b ELSE today)
    BY <1>4 DEF EndOf
  <2>2. EndOf(k) = (IF b + d <= today THEN b + d ELSE today)
    BY <1>4 DEF EndOf
  <2> QED
    BY <1>1, <2>1, <2>2
<1>9. CASE today <= b
  <2>1. before = today /\ after = today
    BY <1>1, <1>8, <1>9
  <2>2. length = 0
    <3>1. ~(1 <= length)
      BY <1>1, <1>6, <1>9
    <3> QED
      BY <3>1
  <2> QED
    BY <1>1, <1>5, <1>8, <2>1, <2>2
<1>10. CASE b < today
  <2>1. before = b
    BY <1>1, <1>8, <1>10
  <2>2. after <= today /\ after <= b + d /\ b < after
    BY <1>1, <1>8, <1>10
  <2>3. after <= b + length
    <3>1. after \in 1 .. today
      BY <1>1, <2>2
    <3> QED
      BY <1>7, <2>2, <3>1
  <2>4. b + length <= after
    <3>1. length = 0 \/ b + length <= today
      BY <1>6
    <3>2. b + length <= today
      BY <1>1, <1>10, <3>1
    <3>3. b + length <= b + d
      BY <1>6
    <3> QED
      BY <1>1, <1>8, <3>2, <3>3
  <2>5. after = before + length
    BY <2>1, <2>3, <2>4
  <2> QED
    BY <1>1, <1>5, <1>6, <1>8, <2>1, <2>5
<1> QED
  BY <1>1, <1>9, <1>10

(* When the parts join up, up to the last unit, they are the list.         *)
LEMMA JoinedUp ==
    ASSUME SplitTypeOK, NEW at, JoinUp(at), at[Size + 1] = today
    PROVE  FlattenSeq(files) = [u \in 1 .. today |-> u]
<1>2. PICK last \in Nat \ {0} : last = Size + 1 /\ Parts = 1 .. last
  BY SplitAssumption DEF Parts
<1>3. files \in Seq(Seq(Nat)) /\ Len(files) = last
  <2>1. files \in [1 .. last -> Seq(Nat)]
    BY <1>2 DEF SplitTypeOK
  <2> QED
    BY <1>2, <2>1
<1>4. PICK f : /\ f = [k \in 1 .. last |-> IF k = 1 THEN files[k] ELSE f[k - 1] \o files[k]]
               /\ FlattenSeq(files) = f[last]
  BY <1>3, FlattenUnfolds
<1>5. ASSUME NEW k \in 1 .. last
      PROVE  /\ at[k] \in Nat /\ at[k - 1] \in Nat /\ at[k] = at[k - 1] + Len(files[k])
             /\ files[k] \in Seq(Nat) /\ Len(files[k]) \in Nat
             /\ \A i \in 1 .. Len(files[k]) : files[k][i] = at[k - 1] + i
  <2>1. k \in 0 .. Size + 1 /\ k - 1 \in 0 .. Size + 1
    BY <1>2
  <2>2. files[k] \in Seq(Nat) /\ Len(files[k]) \in Nat
    <3>1. files[k] \in Seq(Nat)
      BY <1>2 DEF SplitTypeOK
    <3> QED
      BY <3>1
  <2>3. at[k] \in Nat /\ at[k - 1] \in Nat
    BY <2>1 DEF JoinUp
  <2> QED
    BY <1>2, <2>2, <2>3 DEF JoinUp
<1>6. at[0] = 0
  BY DEF JoinUp
<1> DEFINE Listed(k) == /\ f[k] \in Seq(Nat) /\ Len(f[k]) = at[k]
                        /\ \A u \in 1 .. at[k] : f[k][u] = u
           Bad == {k \in 1 .. last : ~Listed(k)}
<1>7. Bad = {}
  <2> SUFFICES ASSUME Bad # {} PROVE FALSE
    OBVIOUS
  <2>1. PICK k \in Bad : \A j \in Bad : k <= j
    <3> HIDE DEF Bad
    <3>1. Bad \subseteq Nat
      BY DEF Bad
    <3> QED
      BY <3>1, LeastNat
  <2>2. CASE k = 1
    <3>1. f[1] = files[1]
      BY <1>4
    <3>0. 1 \in 1 .. last /\ 1 - 1 = 0
      BY <1>2
    <3>2. \A i \in 1 .. at[1] : files[1][i] = i
      <4>1. at[1] = 0 + Len(files[1]) /\ Len(files[1]) \in Nat
        BY <1>5, <1>6, <3>0
      <4>2. \A i \in 1 .. Len(files[1]) : files[1][i] = 0 + i
        BY <1>5, <1>6, <3>0
      <4> QED
        BY <4>1, <4>2
    <3>3. Len(files[1]) = at[1]
      <4>1. PICK length \in Nat : length = Len(files[1])
        BY <1>5, <3>0
      <4>2. at[1] = at[0] + Len(files[1])
        <5>1. 1 \in 1 .. last /\ 1 - 1 = 0
          BY <1>2
        <5> QED
          BY <1>5, <5>1
      <4>3. at[1] = 0 + length
        BY <1>6, <4>1, <4>2
      <4>4. at[1] = length
        BY <4>3
      <4> QED
        BY <4>1, <4>4
    <3>4. Listed(1)
      BY <1>2, <1>5, <3>1, <3>2, <3>3
    <3> QED
      BY <2>1, <2>2, <3>4
  <2>3. CASE k # 1
    <3>1. k \in 1 .. last /\ k - 1 \in 1 .. last /\ k - 1 \notin Bad
      <4>1. k \in 1 .. last
        BY <2>1
      <4>2. k - 1 \in 1 .. last /\ ~(k <= k - 1)
        BY <1>2, <2>3, <4>1
      <4> QED
        BY <2>1, <4>1, <4>2
    <3>2. Listed(k - 1)
      BY <3>1
    <3>3. f[k] = f[k - 1] \o files[k]
      BY <1>4, <2>3, <3>1
    <3> DEFINE front == f[k - 1]
               back == files[k]
    <3>4. PICK a \in Nat, b \in Nat : a = at[k - 1] /\ b = Len(back)
      BY <1>5, <3>1
    <3>5. /\ front \in Seq(Nat) /\ Len(front) = a /\ \A u \in 1 .. a : front[u] = u
          /\ back \in Seq(Nat) /\ Len(back) = b /\ \A i \in 1 .. b : back[i] = a + i
          /\ at[k] = a + b
      BY <1>5, <3>1, <3>2, <3>4
    <3> HIDE DEF front, back
    <3>6. PICK joined : joined = front \o back
      OBVIOUS
    <3>7. /\ joined \in Seq(Nat) /\ Len(joined) = Len(front) + Len(back)
          /\ \A i \in 1 .. Len(front) + Len(back) :
                joined[i] = IF i <= Len(front) THEN front[i] ELSE back[i - Len(front)]
      BY <3>5, <3>6, ConcatProperties
    <3>8. \A i \in 1 .. a + b : joined[i] = IF i <= a THEN front[i] ELSE back[i - a]
      BY <3>5, <3>7
    <3>9. ASSUME NEW u \in 1 .. a + b PROVE joined[u] = u
      <4>1. CASE u <= a
        <5>1. u \in 1 .. a
          BY <4>1
        <5> QED
          BY <3>5, <3>8, <4>1, <5>1
      <4>2. CASE ~(u <= a)
        <5>1. u - a \in 1 .. b /\ a + (u - a) = u
          BY <4>2
        <5> QED
          BY <3>5, <3>8, <4>2, <5>1
      <4> QED
        BY <4>1, <4>2
    <3>10. Len(joined) = a + b
      BY <3>5, <3>7
    <3>11. Listed(k)
      BY <3>3, <3>4, <3>5, <3>6, <3>7, <3>9, <3>10 DEF front, back
    <3> QED
      BY <2>1, <3>11
  <2> QED
    BY <2>2, <2>3
<1>9. last \in 1 .. last
  BY <1>2
<1>10. Listed(last)
  BY <1>7, <1>9
<1> HIDE DEF Bad
<1>11. /\ f[last] \in Seq(Nat) /\ Len(f[last]) = today /\ \A u \in 1 .. today : f[last][u] = u
  BY <1>2, <1>10
<1>12. f[last] = [u \in 1 .. today |-> u]
  BY <1>11
<1> QED
  BY <1>4, <1>12

(* The parts of a run that has ended are the list, one after the other:    *)
(* those of the first run of the day wherever its reads cut, and those of  *)
(* a later one when every read filled the block, for then what an earlier  *)
(* run has left in the files, which are not truncated (split.cc:49), is    *)
(* never more than what is written over it.  As long as no read is         *)
(* interrupted, none is longer than three blocks.                          *)
THEOREM PartsAreTheList == Spec => []SplitOnce
<1>1. ASSUME SplitIInv, SplitKeeps, ~failed, spc = "idle", splits > 0, splits = 1
      PROVE  FlattenSeq(files) = [u \in 1 .. today |-> u]
  <2>1. PICK at : JoinUp(at) /\ \A k \in Parts : n <= k => at[k] = Written
    BY <1>1 DEF SplitIInv, FirstRun
  <2>2. n \in Parts /\ SplitTypeOK
    BY <1>1, PartExists DEF SplitIInv
  <2>3. Size + 1 \in Parts /\ n <= Size + 1
    BY <2>2, SplitAssumption DEF Parts
  <2>4. Written = today
    <3>1. rpos = today /\ Len(buf) = 0 /\ today \in Nat
      BY <1>1, <2>2 DEF SplitKeeps, SplitTypeOK
    <3> QED
      BY <3>1 DEF Written
  <2>5. at[Size + 1] = today
    BY <2>1, <2>3, <2>4
  <2> QED
    BY <2>1, <2>2, <2>5, JoinedUp
<1>2. ASSUME SplitIInv, SplitKeeps, ~failed, spc = "idle", splits > 0, uneven = 0
      PROVE  FlattenSeq(files) = [u \in 1 .. today |-> u]
  <2>1. PICK last \in Nat \ {0} : last = Size + 1 /\ Parts = 1 .. last
    BY SplitAssumption DEF Parts
  <2>2. PICK at : at = [k \in 0 .. Size + 1 |-> EndOf(k)]
    OBVIOUS
  <2>3. EndOf(0) = 0
    <3>1. today \in Nat /\ Base(0 + 1) = 0
      BY <1>2, BaseFacts DEF SplitIInv, SplitTypeOK
    <3> QED
      BY <3>1 DEF EndOf
  <2>4. ASSUME NEW k \in Parts
        PROVE  /\ at[k] = EndOf(k) /\ at[k - 1] = EndOf(k - 1) /\ EndOf(k) \in Nat
               /\ EndOf(k) = EndOf(k - 1) + Len(files[k])
               /\ \A i \in 1 .. Len(files[k]) : files[k][i] = EndOf(k - 1) + i
    <3>1. k \in 0 .. Size + 1 /\ k - 1 \in 0 .. Size + 1
      BY <2>1
    <3> QED
      BY <1>2, <2>2, <3>1, PartsExact
  <2>5. JoinUp(at)
    <3>1. \A k \in 0 .. Size + 1 : k = 0 \/ k \in Parts
      BY <2>1
    <3>2. \A k \in 0 .. Size + 1 : EndOf(k) \in Nat
      BY <2>3, <2>4, <3>1
    <3>3. at \in [0 .. Size + 1 -> Nat] /\ at[0] = 0
      BY <2>1, <2>2, <2>3, <3>2
    <3> QED
      BY <2>4, <3>3 DEF JoinUp
  <2>6. EndOf(last) = today
    <3>1. today \in Nat /\ today <= Size /\ Size \in Nat
      BY <1>2, SplitAssumption DEF SplitIInv, SplitTypeOK
    <3>2. Base(last + 1) = last * (3 * Block)
      BY <2>1, BaseFacts DEF Base
    <3>3. PICK d \in Nat \ {0} : d = 3 * Block
      BY BaseFacts
    <3>4. last <= last * d
      <4>1. PICK e \in Nat : d = 1 + e
        <5>1. d - 1 \in Nat /\ d = 1 + (d - 1)
          OBVIOUS
        <5> QED
          BY <5>1
      <4>2. last * d = last + last * e /\ last * e \in Nat
        <5>1. \A x, y \in Nat : x * (1 + y) = x + x * y /\ x * y \in Nat
          OBVIOUS
        <5> QED
          BY <4>1, <5>1
      <4> QED
        BY <4>2
    <3>5. today <= Base(last + 1) /\ Base(last + 1) \in Nat
      BY <2>1, <3>1, <3>2, <3>3, <3>4
    <3> QED
      BY <3>1, <3>5 DEF EndOf
  <2>7. at[Size + 1] = today /\ SplitTypeOK
    BY <1>2, <2>1, <2>4, <2>6 DEF SplitIInv
  <2> QED
    BY <2>5, <2>7, JoinedUp
<1>3. SplitIInv /\ interrupts = 0 => \A k \in Parts : Len(files[k]) <= 3 * Block
  BY DEF SplitIInv, PartsShort
<1>4. SplitIInv /\ SplitKeeps => SplitOnce
  BY <1>1, <1>2, <1>3 DEF SplitOnce
<1> QED
  BY <1>4, SplitSafe, ListIsKept, PTL

-----------------------------------------------------------------------------
(***************************************************************************)
(* The lines of a part                                                     *)

(* A line of a part begins at its beginning, or after the end of a line.   *)
LineStarts(p) == {0} \cup {q \in 1 .. Len(p) - 1 : p[q] \in Range(LineEnd)}

InHand == cpc \in {"get", "unlink", "remove"}

Dealt(k) == tair[k] = None \/ k \in undone \cup excused \/ (InHand /\ k = key)

(* clean_cache reads whole lines, as the part has them; the keys of those  *)
(* behind it are dealt with, and the file in hand is the key's own, unless *)
(* the key was put meanwhile.                                              *)
LinesCleaned ==
    /\ part \in Seq(Nat) /\ pos \in Nat /\ pos <= Len(part)
    /\ pos < Len(part) => pos \in LineStarts(part)
    /\ cpc \in {"unlink", "remove"} => tair[key] = name \/ key \in excused
    /\ \A a \in LineStarts(part) : a < pos =>
          \A k \in KeysOfLine(SubSeq(part, a + 1, LineTo(part, a))) : Dealt(k)

(* The lines of the list are in the order of the keys.                     *)
LEMMA LinesInOrder ==
    ASSUME NEW j \in Keys, NEW k \in Keys, j < k
    PROVE  LineEnd[j] < LineEnd[k]
<1> DEFINE Bad == {i \in Keys : \E h \in Keys : h < i /\ ~(LineEnd[h] < LineEnd[i])}
<1>1. LineEnd \in Seq(Nat \ {0}) /\ Keys = 1 .. Len(LineEnd) /\ Len(LineEnd) \in Nat
  BY CleanCacheAssumption DEF Keys
<1>2. \A i \in Keys : LineEnd[i] \in Nat /\ i \in Nat \ {0}
  BY <1>1
<1>3. Bad = {}
  <2> SUFFICES ASSUME Bad # {} PROVE FALSE
    OBVIOUS
  <2>1. PICK i \in Bad : \A b \in Bad : i <= b
    <3> HIDE DEF Bad
    <3>1. Bad \subseteq Nat
      BY <1>2 DEF Bad
    <3> QED
      BY <3>1, LeastNat
  <2>2. PICK h \in Keys : h < i /\ ~(LineEnd[h] < LineEnd[i])
    BY <2>1
  <2>3. i \in Keys /\ i - 1 \in Keys /\ i - 1 < i /\ i > 1 /\ (h = i - 1 \/ h < i - 1)
    <3>1. i \in Keys
      BY <2>1
    <3>2. PICK m \in Nat : Keys = 1 .. m
      BY <1>1
    <3>3. i \in 1 .. m /\ h \in 1 .. m /\ h < i
      BY <2>2, <3>1, <3>2
    <3>4. i - 1 \in 1 .. m /\ i - 1 < i /\ i > 1 /\ (h = i - 1 \/ h < i - 1)
      BY <3>3
    <3> QED
      BY <3>1, <3>2, <3>4
  <2>4. LineEnd[i - 1] < LineEnd[i]
    BY <2>3, CleanCacheAssumption
  <2>5. i - 1 \notin Bad
    <3>1. ~(i <= i - 1)
      BY <1>2, <2>3
    <3> HIDE DEF Bad
    <3> QED
      BY <2>1, <3>1
  <2>6. LineEnd[h] <= LineEnd[i - 1]
    <3>1. h < i - 1 => LineEnd[h] < LineEnd[i - 1]
      BY <2>3, <2>5
    <3> QED
      BY <1>2, <2>3, <3>1
  <2> QED
    BY <1>2, <2>2, <2>3, <2>4, <2>6
<1> QED
  BY <1>3

(* A line is at most one key's, and it is not empty.                       *)
LEMMA OneKey ==
    ASSUME NEW line, NEW j \in KeysOfLine(line), NEW k \in KeysOfLine(line)
    PROVE  j = k /\ line # <<>>
<1> DEFINE length(i) == LineEnd[i] - LineStart(i) + 1
<1>1. LineEnd \in Seq(Nat \ {0}) /\ Keys = 1 .. Len(LineEnd) /\ Len(LineEnd) \in Nat
  BY CleanCacheAssumption DEF Keys
<1>2. ASSUME NEW i \in Keys
      PROVE  LineStart(i) \in Nat /\ LineEnd[i] \in Nat /\ LineStart(i) <= LineEnd[i]
  <2>1. i \in Nat \ {0} /\ LineEnd[i] \in Nat \ {0}
    BY <1>1
  <2>2. CASE i = 1
    BY <2>1, <2>2 DEF LineStart
  <2>3. CASE i # 1
    <3>1. i - 1 \in Keys /\ i > 1
      BY <1>1, <2>1, <2>3
    <3>2. LineEnd[i - 1] \in Nat /\ LineEnd[i - 1] < LineEnd[i]
      BY <1>1, <3>1, CleanCacheAssumption
    <3> QED
      BY <2>1, <2>3, <3>2 DEF LineStart
  <2> QED
    BY <2>2, <2>3
<1>3. ASSUME NEW i \in KeysOfLine(line)
      PROVE  /\ i \in Keys /\ length(i) \in Nat \ {0}
             /\ line = [u \in 1 .. length(i) |-> LineStart(i) + u - 1]
  <2>1. i \in Keys
    BY DEF KeysOfLine
  <2> QED
    BY <1>2, <2>1 DEF KeysOfLine
<1>4. ASSUME NEW i \in KeysOfLine(line)
      PROVE  Len(line) = length(i) /\ line[1] = LineStart(i) /\ line # <<>>
  <2>1. PICK m \in Nat \ {0} : m = length(i)
    BY <1>3
  <2>2. line = [u \in 1 .. m |-> LineStart(i) + u - 1]
    BY <1>3, <2>1
  <2>3. Len(line) = m
    BY <2>2
  <2>4. line[1] = LineStart(i) + 1 - 1 /\ LineStart(i) \in Nat
    BY <1>2, <1>3, <2>2
  <2> HIDE DEF length
  <2> QED
    BY <2>1, <2>3, <2>4
<1>5. LineEnd[j] = LineEnd[k]
  <2>1. length(j) = length(k) /\ LineStart(j) = LineStart(k)
    BY <1>4
  <2>2. /\ LineStart(j) \in Nat /\ LineEnd[j] \in Nat
        /\ LineStart(k) \in Nat /\ LineEnd[k] \in Nat
    BY <1>2, <1>3
  <2> QED
    BY <2>1, <2>2
<1>6. j \in Keys /\ k \in Keys /\ j \in Nat /\ k \in Nat /\ LineEnd[j] \in Nat
  BY <1>1, <1>3
<1>7. ~(LineEnd[j] < LineEnd[k]) /\ ~(LineEnd[k] < LineEnd[j])
  BY <1>5, <1>6
<1>8. ~(j < k) /\ ~(k < j)
  BY <1>6, <1>7, LinesInOrder
<1> QED
  BY <1>4, <1>6, <1>8

(* Where the line ends that begins at a unit, and that it is the only one  *)
(* that begins there.                                                      *)
LEMMA LineToFacts ==
    ASSUME NEW p \in Seq(Nat), NEW from \in Nat, from < Len(p)
    PROVE  /\ LineTo(p, from) \in from + 1 .. Len(p)
           /\ LineTo(p, from) < Len(p) => LineTo(p, from) \in LineStarts(p)
           /\ \A a \in LineStarts(p) : a < LineTo(p, from) => a <= from
<1> DEFINE Ends == {q \in from + 1 .. Len(p) : p[q] \in Range(LineEnd)} \cup {Len(p)}
<1>1. Len(p) \in Nat /\ Ends \in SUBSET Nat /\ Ends # {} /\ LineTo(p, from) = Min(Ends)
  BY DEF LineTo
<1>2. PICK to \in Nat : to = LineTo(p, from) /\ to \in Ends /\ \A q \in Ends : to <= q
  <2> HIDE DEF Ends
  <2>1. Min(Ends) \in Ends /\ \A q \in Ends : Min(Ends) <= q
    BY <1>1, MinFacts
  <2> QED
    BY <1>1, <2>1
<1>3. to \in from + 1 .. Len(p)
  BY <1>1, <1>2
<1>4. to < Len(p) => to \in LineStarts(p)
  BY <1>1, <1>2, <1>3 DEF LineStarts
<1>5. ASSUME NEW a \in LineStarts(p), a < to
      PROVE  a <= from
  <2>1. SUFFICES ASSUME from < a PROVE FALSE
    BY <1>1 DEF LineStarts
  <2>2. a \in Nat /\ a \in from + 1 .. Len(p) /\ p[a] \in Range(LineEnd)
    BY <1>1, <2>1 DEF LineStarts
  <2>3. to <= a
    BY <1>2, <2>2
  <2> QED
    BY <1>5, <2>2, <2>3
<1> QED
  BY <1>2, <1>3, <1>4, <1>5

(* Steps at the line in hand: every key that was dealt with still is, and  *)
(* the one in hand is not left before it is.                               *)
LEMMA LineStays ==
    ASSUME LinesCleaned, UNCHANGED <<part, pos>>,
           \A k \in Keys : Dealt(k) => Dealt(k)',
           cpc' \in {"unlink", "remove"} => tair'[key'] = name' \/ key' \in excused'
    PROVE  LinesCleaned'
<1>1. /\ LineStarts(part)' = LineStarts(part)
      /\ \A a : SubSeq(part', a + 1, LineTo(part', a)) = SubSeq(part, a + 1, LineTo(part, a))
  BY DEF LineStarts
<1>2. ASSUME NEW a \in LineStarts(part), a < pos,
             NEW k \in KeysOfLine(SubSeq(part, a + 1, LineTo(part, a)))
      PROVE  Dealt(k)'
  <2>1. Dealt(k)
    BY <1>2 DEF LinesCleaned
  <2> QED
    BY <2>1, LinesAreKeys
<1>3. /\ part' \in Seq(Nat) /\ pos' \in Nat /\ pos' <= Len(part')
      /\ pos' < Len(part') => pos' \in LineStarts(part)'
  BY <1>1 DEF LinesCleaned
<1> QED
  BY <1>1, <1>2, <1>3 DEF LinesCleaned

-----------------------------------------------------------------------------
(* fgets: the line that begins at pos is now behind it; if it is a key's,  *)
(* that key is in hand.                                                    *)
LEMMA FgetsStep == LinesCleaned /\ Fgets => LinesCleaned'
<1> SUFFICES ASSUME LinesCleaned, Fgets PROVE LinesCleaned'
  OBVIOUS
<1>1. /\ cpc = "fgets" /\ pos < Len(part) /\ pos' = LineTo(part, pos)
      /\ part' = part /\ tair' = tair /\ undone' = undone /\ excused' = excused
  BY DEF Fgets, stores, history
<1> DEFINE Line(a) == SubSeq(part, a + 1, LineTo(part, a))
<1>2. \/ key' \in KeysOfLine(Line(pos)) /\ cpc' = "get"
      \/ KeysOfLine(Line(pos)) = {} /\ cpc' = "fgets"
  BY <1>1 DEF Fgets
<1>3. part \in Seq(Nat) /\ pos \in Nat /\ Len(part) \in Nat
  BY DEF LinesCleaned
<1>4. /\ pos' \in pos + 1 .. Len(part)
      /\ pos' < Len(part) => pos' \in LineStarts(part)
      /\ \A a \in LineStarts(part) : a < pos' => a <= pos
  BY <1>1, <1>3, LineToFacts
<1>5. LineStarts(part)' = LineStarts(part)
  BY <1>1 DEF LineStarts
<1>6. ASSUME NEW a \in LineStarts(part), a < pos', NEW k \in KeysOfLine(Line(a))
      PROVE  Dealt(k)'
  <2>1. a <= pos /\ a \in Nat
    BY <1>3, <1>4, <1>6 DEF LineStarts
  <2>2. CASE a = pos
    <3>1. k \in KeysOfLine(Line(pos))
      BY <2>2
    <3>2. key' \in KeysOfLine(Line(pos)) /\ cpc' = "get"
      BY <1>2, <3>1
    <3>3. k = key'
      BY <3>1, <3>2, OneKey
    <3> QED
      BY <3>2, <3>3 DEF Dealt, InHand
  <2>3. CASE a < pos
    <3>1. Dealt(k)
      BY <2>3 DEF LinesCleaned
    <3> QED
      BY <1>1, <3>1 DEF Dealt, InHand
  <2> QED
    BY <1>3, <2>1, <2>2, <2>3
<1>7. \A a : SubSeq(part', a + 1, LineTo(part', a)) = Line(a)
  BY <1>1
<1>8. pos' \in Nat /\ pos' <= Len(part) /\ cpc' \notin {"unlink", "remove"}
  BY <1>2, <1>3, <1>4
<1> QED
  BY <1>1, <1>3, <1>4, <1>5, <1>6, <1>7, <1>8 DEF LinesCleaned

(* The calls for the key in hand, failures, and puts of other programs.    *)
LEMMA CleanLineStep == CleanIInv /\ LinesCleaned /\ CleanNext => LinesCleaned'
<1> SUFFICES ASSUME CleanIInv, LinesCleaned, CleanNext PROVE LinesCleaned'
  OBVIOUS
<1>1. CASE Fgets
  BY <1>1, FgetsStep
<1>2. CASE Finish
  <2>1. \A k \in Keys : Dealt(k) => Dealt(k)'
    BY <1>2 DEF Finish, stores, history, Dealt, InHand
  <2> QED
    BY <1>2, <2>1, LineStays DEF Finish
<1>3. CASE Get
  <2>1. \A k \in Keys : Dealt(k) => Dealt(k)'
    BY <1>3 DEF Get, stores, history, Dealt, InHand
  <2> QED
    BY <1>3, <2>1, LineStays DEF Get, stores
<1>4. CASE Unlink
  <2>1. cpc = "unlink" /\ UNCHANGED <<tair, part, pos, key, name, undone, excused>>
    BY <1>4 DEF Unlink, history
  <2>2. tair[key] = name \/ key \in excused
    BY <2>1 DEF LinesCleaned
  <2>3. CASE name \in tfs
    <3>1. cpc' = "remove"
      BY <1>4, <2>3 DEF Unlink
    <3>2. \A k \in Keys : Dealt(k) => Dealt(k)'
      BY <2>1, <3>1 DEF Dealt, InHand
    <3> QED
      BY <2>1, <2>2, <3>1, <3>2, LineStays
  <2>4. CASE name \notin tfs
    <3>1. cpc' = "fgets"
      BY <1>4, <2>4 DEF Unlink
    <3>2. key \in Keys /\ name # None
      BY <2>1, CleanCacheAssumption DEF CleanIInv, StoresAgree
    <3>3. tair[key] = name => key \in undone
      BY <2>1, <2>4, <3>2 DEF CleanIInv, DanglingExplained
    <3>4. \A k \in Keys : Dealt(k) => Dealt(k)'
      BY <2>1, <2>2, <3>1, <3>3 DEF Dealt, InHand
    <3> QED
      BY <2>1, <3>1, <3>4, LineStays
  <2> QED
    BY <2>3, <2>4
<1>5. ASSUME RemovedKey, cpc = "remove", cpc' = "fgets", UNCHANGED <<part, pos, key>>,
             undone \subseteq undone', excused \subseteq excused'
      PROVE  LinesCleaned'
  <2>1. \A k \in Keys : tair'[k] = IF k = key THEN None ELSE tair[k]
    BY <1>5 DEF RemovedKey, CleanIInv, StoresAgree
  <2>2. \A k \in Keys : Dealt(k) => Dealt(k)'
    BY <1>5, <2>1 DEF Dealt, InHand
  <2> QED
    BY <1>5, <2>2, LineStays
<1>6. CASE RemoveKey
  BY <1>5, <1>6 DEF RemoveKey, history
<1>7. ASSUME Fault, UNCHANGED tair, cpc' \in {"idle", "fgets"}
      PROVE  LinesCleaned'
  <2>1. \A k \in Keys : Dealt(k) => Dealt(k)'
    BY <1>7 DEF Fault, Dealt, InHand
  <2> QED
    BY <1>7, <2>1, LineStays DEF Fault
<1>8. CASE CallFails
  <2>1. Fault /\ cpc' = "fgets"
    BY <1>8 DEF CallFails, AfterFailure
  <2>2. CASE cpc = "remove" /\ RemovedKey
    BY <1>5, <2>1, <2>2 DEF Fault
  <2>3. CASE UNCHANGED tair
    BY <1>7, <2>1, <2>3
  <2> QED
    BY <1>8, <2>2, <2>3 DEF CallFails
<1>9. CASE Crash
  BY <1>7, <1>9 DEF Crash
<1>10. ASSUME NEW k \in Keys, NEW f \in Files, Put(k, f)
       PROVE  LinesCleaned'
  <2>1. \A j \in Keys : tair'[j] = IF j = k THEN f ELSE tair[j]
    BY <1>10 DEF Put, CleanIInv, StoresAgree
  <2>2. \A j \in Keys : Dealt(j) => Dealt(j)'
    BY <1>10, <2>1 DEF Put, Dealt, InHand
  <2>3. cpc' \in {"unlink", "remove"} => tair'[key'] = name' \/ key' \in excused'
    <3>1. cpc \in {"unlink", "remove"} => key \in Keys
      BY DEF CleanIInv, StoresAgree
    <3> QED
      BY <1>10, <2>1, <3>1 DEF Put, LinesCleaned
  <2> QED
    BY <1>10, <2>2, <2>3, LineStays DEF Put
<1> QED
  BY <1>1, <1>2, <1>3, <1>4, <1>6, <1>8, <1>9, <1>10 DEF CleanNext

(* Every step of the eviction; a part that clean_cache begins is one that  *)
(* split has written.                                                      *)
LEMMA LinesStep == SplitIInv /\ CleanIInv /\ LinesCleaned /\ [Next]_vars => LinesCleaned'
<1> SUFFICES ASSUME SplitIInv, CleanIInv, LinesCleaned, [Next]_vars PROVE LinesCleaned'
  OBVIOUS
<1>1. ASSUME UNCHANGED cleanVars
      PROVE  LinesCleaned'
  <2>1. \A k \in Keys : Dealt(k) => Dealt(k)'
    BY <1>1 DEF cleanVars, stores, history, Dealt, InHand
  <2> QED
    BY <1>1, <2>1, LineStays DEF cleanVars, stores, history, LinesCleaned
<1>2. CASE SplitStep
  BY <1>1, <1>2 DEF SplitStep
<1>3. CASE CleanPart
  <2>1. PICK k \in Parts : Begin(files[k])
    BY <1>3 DEF CleanPart
  <2>2. part' \in Seq(Nat) /\ pos' = 0 /\ cpc' = "fgets"
    BY <2>1 DEF Begin, SplitIInv, SplitTypeOK
  <2>3. /\ Len(part') \in Nat
        /\ \A a \in LineStarts(part') : a \in Nat
        /\ 0 \in LineStarts(part')
    BY <2>2 DEF LineStarts
  <2>4. \A a \in LineStarts(part') : ~(a < pos')
    BY <2>2, <2>3
  <2>5. pos' \in Nat /\ pos' <= Len(part') /\ pos' \in LineStarts(part')
    BY <2>2, <2>3
  <2> QED
    BY <2>2, <2>4, <2>5 DEF LinesCleaned
<1>4. CASE CleanStep
  BY <1>4, CleanLineStep DEF CleanStep
<1>5. CASE Stopped
  BY <1>1, <1>5 DEF Stopped, vars
<1>6. CASE UNCHANGED vars
  BY <1>1, <1>6 DEF vars
<1> QED
  BY <1>2, <1>3, <1>4, <1>5, <1>6 DEF Next

(* When clean_cache is through with a part, the keys of its whole lines    *)
(* are gone from tair, but those that a call has failed on or that were    *)
(* put meanwhile: no line is skipped or read in two pieces                 *)
(* (clean_cache.cc:70, fgets), whatever failed before.                     *)
THEOREM PartsAreCleaned == Spec => []PartCleaned
<1>1. Init => LinesCleaned
  <2> SUFFICES ASSUME CleanInit PROVE LinesCleaned
    BY DEF Init
  <2>1. part = <<>> /\ pos = 0 /\ cpc = "idle"
    BY DEF CleanInit
  <2>2. part \in Seq(Nat) /\ Len(part) = 0 /\ LineStarts(part) \subseteq Nat
    BY <2>1 DEF LineStarts
  <2>3. \A a \in LineStarts(part) : ~(a < pos)
    BY <2>1, <2>2
  <2>4. pos \in Nat /\ pos <= Len(part) /\ ~(pos < Len(part))
    BY <2>1, <2>2
  <2> QED
    BY <2>1, <2>2, <2>3, <2>4 DEF LinesCleaned
<1>2. SplitIInv /\ CleanIInv /\ LinesCleaned /\ [Next]_vars => LinesCleaned'
  BY LinesStep
<1>3. LinesCleaned => PartCleaned
  <2> SUFFICES ASSUME LinesCleaned, cpc = "idle", pos = Len(part), NEW k \in KeysOf(part)
               PROVE  tair[k] = None \/ k \in undone \cup excused
    BY DEF PartCleaned
  <2>1. PICK a \in LineStarts(part) : k \in KeysOfLine(SubSeq(part, a + 1, LineTo(part, a)))
    BY DEF KeysOf, LineStarts
  <2>2. part \in Seq(Nat) /\ pos \in Nat
    BY DEF LinesCleaned
  <2>3. CASE pos = 0
    <3>1. a = 0 /\ part = <<>>
      <4>1. Len(part) = 0
        BY <2>3
      <4> QED
        BY <2>1, <2>2, <4>1 DEF LineStarts
    <3>2. LineTo(part, a) = 0
      <4>1. {q \in a + 1 .. Len(part) : part[q] \in Range(LineEnd)} \cup {Len(part)} = {0}
        BY <3>1
      <4>2. Min({0}) \in {0}
        BY MinFacts
      <4> QED
        BY <4>1, <4>2 DEF LineTo
    <3>3. SubSeq(part, a + 1, LineTo(part, a)) = <<>>
      BY <3>1, <3>2
    <3> QED
      BY <2>1, <3>3, OneKey
  <2>4. CASE pos # 0
    <3>1. a < pos
      BY <2>2, <2>4 DEF LineStarts
    <3> QED
      BY <2>1, <3>1 DEF LinesCleaned, Dealt, InHand
  <2> QED
    BY <2>3, <2>4
<1> QED
  BY <1>1, <1>2, <1>3, SplitSafe, EvictionSafe, PTL DEF Spec
=============================================================================
