------------------------------- MODULE Split -------------------------------
(***************************************************************************)
(* split.cc: cuts the list of the keys evicted today into parts of three   *)
(* blocks, for clean_cache to work on.  A run may break off, and may be    *)
(* repeated on the same day, when the list has grown: it then writes over  *)
(* the files of the run before, which it does not truncate.                *)
(*                                                                         *)
(* The list is the units 1 .. today, pieces of lines; a unit stands for    *)
(* the bytes that no block and no short read or write divides.  today is   *)
(* the list as the run finds it in the end: a read that comes before all   *)
(* of it is written returns less.                                          *)
(*                                                                         *)
(* This is spilt_files, called with the path of a list.  As main calls it, *)
(* with a '/' behind the path (split.cc:97), open of a plain file fails    *)
(* and so does read of a directory: every run breaks off.                  *)
(***************************************************************************)
EXTENDS Naturals, Sequences, FiniteSetsExt, SequencesExt

CONSTANTS Size,           \* units of the list at the end of the day
          Block,          \* READ_BUF, in units
          MaxSplits,      \* bound: runs of split
          MaxInterrupts,  \* bound: calls interrupted by a signal
          MaxUneven       \* bound: reads that are short or interrupted

ASSUME SplitAssumption ==
    /\ Size \in Nat /\ Block \in Nat \ {0}
    /\ MaxSplits \in Nat /\ MaxInterrupts \in Nat /\ MaxUneven \in Nat

VARIABLES
    today,      \* units in the list, when this run has come to its end
    files,      \* files[k]: the part with number 99 + k, <<>> if there is none
    n, woff,    \* the part being written, and the offset in it
    num,        \* reads counted for this part
    rpos,       \* units read
    buf,        \* from ptr on: what is still to be written of the block
    spc,        \* where split is
    failed,     \* this run broke off
    splits, interrupts,
    uneven      \* history: reads that were short or interrupted, of all runs

splitVars == <<today, files, n, woff, num, rpos, buf, spc, failed, splits, interrupts, uneven>>

Parts == 1 .. Size + 1

SplitInit ==
    /\ today = 0 /\ files = [k \in Parts |-> <<>>]
    /\ n = 1 /\ woff = 0 /\ num = 0 /\ rpos = 0 /\ buf = <<>>
    /\ spc = "idle" /\ failed = FALSE /\ splits = 0 /\ interrupts = 0
    /\ uneven = 0

(* The mutant begins with the part it has written last, and not at 100.   *)
OpenLast ==
    /\ spc = "idle" /\ splits < MaxSplits
    /\ today' \in today .. Size
    /\ woff' = 0 /\ num' = 0 /\ rpos' = 0 /\ buf' = <<>>
    /\ spc' = "read" /\ failed' = FALSE /\ splits' = splits + 1
    /\ UNCHANGED <<files, n, interrupts, uneven>>

(* The list has grown, or not; split opens it and the first part. *)
Open ==
    /\ spc = "idle" /\ splits < MaxSplits
    /\ today' \in today .. Size
    /\ n' = 1 /\ woff' = 0 /\ num' = 0 /\ rpos' = 0 /\ buf' = <<>>
    /\ spc' = "read" /\ failed' = FALSE /\ splits' = splits + 1
    /\ UNCHANGED <<files, interrupts, uneven>>

(* After three reads, the next part is opened.                             *)
NextPart == IF num = 3 THEN n' = n + 1 /\ woff' = 0 ELSE UNCHANGED <<n, woff>>

Counted == IF num = 3 THEN 1 ELSE num + 1

(* What a read returns at most: a block, or the rest of the list. *)
Rest == Min({Block, today - rpos})

(* read takes k units. *)
Read ==
    /\ spc = "read" /\ rpos < today
    /\ \E k \in 1 .. Rest :
          /\ rpos' = rpos + k
          /\ buf' = [u \in 1 .. k |-> rpos + u]
          /\ \/ k = Rest /\ UNCHANGED uneven
             \/ k < Rest /\ uneven < MaxUneven /\ uneven' = uneven + 1
    /\ NextPart /\ num' = Counted
    /\ spc' = "write"
    /\ UNCHANGED <<today, files, failed, splits, interrupts>>

(* A read interrupted by a signal is counted as well. *)
ReadInterrupted ==
    /\ spc = "read" /\ interrupts < MaxInterrupts
    /\ interrupts' = interrupts + 1 /\ num' = num + 1
    /\ uneven < MaxUneven /\ uneven' = uneven + 1
    /\ UNCHANGED <<today, files, n, woff, rpos, buf, spc, failed, splits>>

ReadEnd ==
    /\ spc = "read" /\ rpos = today
    /\ spc' = "idle"
    /\ UNCHANGED <<today, files, n, woff, num, rpos, buf, failed, splits, interrupts, uneven>>

(* What is in a file when data is written over it at an offset. *)
Overwritten(file, off, data) ==
    SubSeq(file, 1, off) \o data \o SubSeq(file, off + Len(data) + 1, Len(file))

(* write takes k units; the mutant goes on from where this write began.    *)
WriteFromStart ==
    /\ spc = "write"
    /\ \E k \in 1 .. Len(buf) :
          /\ files' = [files EXCEPT ![n] = Overwritten(@, woff, SubSeq(buf, 1, k))]
          /\ woff' = woff + k
          /\ buf' = SubSeq(buf, 1, Len(buf) - k)
    /\ spc' = IF buf' = <<>> THEN "read" ELSE "write"
    /\ UNCHANGED <<today, n, num, rpos, failed, splits, interrupts, uneven>>

Write ==
    /\ spc = "write"
    /\ \E k \in 1 .. Len(buf) :
          /\ files' = [files EXCEPT ![n] = Overwritten(@, woff, SubSeq(buf, 1, k))]
          /\ woff' = woff + k
          /\ buf' = SubSeq(buf, k + 1, Len(buf))
    /\ spc' = IF buf' = <<>> THEN "read" ELSE "write"
    /\ UNCHANGED <<today, n, num, rpos, failed, splits, interrupts, uneven>>

WriteInterrupted ==
    /\ spc = "write" /\ interrupts < MaxInterrupts
    /\ interrupts' = interrupts + 1
    /\ UNCHANGED <<today, files, n, woff, num, rpos, buf, spc, failed, splits, uneven>>

(* An open, a read or a write fails: split returns. *)
BreakOff ==
    /\ spc # "idle"
    /\ spc' = "idle" /\ failed' = TRUE
    /\ UNCHANGED <<today, files, n, woff, num, rpos, buf, splits, interrupts, uneven>>

SplitNext == \/ Open \/ Read \/ ReadInterrupted \/ ReadEnd
             \/ Write \/ WriteInterrupted \/ BreakOff

SplitSpec == SplitInit /\ [][SplitNext]_splitVars

-----------------------------------------------------------------------------
(* No unit of the list is lost, whatever reads and writes are short or     *)
(* interrupted (split.cc:37, :61): what has been read is in some part, or  *)
(* still to be written; and a run that does not break off has read all.    *)
SplitKeeps ==
    ~failed /\ splits > 0 =>
        /\ \A u \in 1 .. rpos - Len(buf) : \E k \in Parts : u \in Range(files[k])
        /\ spc = "idle" => rpos = today /\ buf = <<>>

(* The parts of a run that has come to its end are the list, in order and  *)
(* once: those of the first run of the day always, and those of a later    *)
(* one as long as every read has filled the block or taken the rest.  Then *)
(* every run cuts at the same units, and leaves nothing of an earlier one  *)
(* (split.cc:49 does not truncate); a read that was short (the list was    *)
(* still being written) or interrupted moves the cuts, and units that the  *)
(* earlier run has left behind the offset are in two parts.                *)
(* And no part is longer than three blocks, unless a read was interrupted, *)
(* which is counted and may step over the 3 of split.cc:43.                *)
SplitOnce ==
    ~failed /\ spc = "idle" /\ splits > 0 =>
        /\ splits = 1 \/ uneven = 0 => FlattenSeq(files) = [u \in 1 .. today |-> u]
        /\ interrupts = 0 => \A k \in Parts : Len(files[k]) <= 3 * Block
=============================================================================
