------------------------------ MODULE TairCtl ------------------------------
(***************************************************************************)
(* The control script tair.sh: one run after the other starts or stops     *)
(* servers and says whether it worked.  start_cs, start_mem, start_ds and  *)
(* start_ssd go through the same two looks at the process table, with      *)
(* seconds in between: start what is not running, then look what runs.     *)
(* The stop commands likewise.  start_all and stop_all do so for ds, for   *)
(* ssd and for mem, one after the other: three runs of this model.         *)
(*                                                                         *)
(* The servers (not part of the repository) come up, or do not; they exit  *)
(* some time after SIGTERM; they may crash.                                *)
(***************************************************************************)
EXTENDS Naturals, Sequences, Functions

CONSTANTS Indices,    \* servers with an index: those of ds and ssd
          Cs, Mem,    \* the config server and the mem server
          Requests,   \* lists of indices that get_index may return
          Match,      \* server -> servers whose command line its grep finds
          MaxRuns     \* bound: runs of the script

Servers == Indices \cup {Cs, Mem}

ASSUME TairCtlAssumption ==
    /\ Cs \notin Indices /\ Mem \notin Indices /\ Cs # Mem
    /\ Requests \subseteq Seq(Indices)
    /\ Match \in [Servers -> SUBSET Servers]
    /\ \A s \in Servers : s \in Match[s]

VARIABLES
    running,    \* processes of each server in the process table
    leaving,    \* those of them that have got a SIGTERM
    cmd, index, \* the command and the servers it is about
    pc,         \* where the script is
    i,          \* the position of the loop in index
    array,      \* start: servers found running; stop: found not running
    target,     \* stop: the server whose process the look has found
    flag,       \* the result to be returned is a failure
    runs,       \* runs so far
    crashed,    \* history: a server crashed since the second look began
    killed      \* history: servers that got a SIGTERM from this run

procs == <<running, leaving>>
vars == <<procs, cmd, index, pc, i, array, target, flag, runs, crashed, killed>>

Init == /\ running = [s \in Servers |-> 0] /\ leaving = [s \in Servers |-> 0]
        /\ cmd = "stop" /\ index = <<>> /\ pc = "idle" /\ i = 1
        /\ array = {} /\ target = Cs /\ flag = FALSE
        /\ runs = 0 /\ crashed = FALSE /\ killed = {}

(* check_run: ps, filtered by grep with the name of the configuration.     *)
(* The mutant greps for the directory of the configurations.               *)
GrepDirectory(s) == Servers
Grep(s) == Match[s]

(* [ $ret_pid -gt 0 ]: with more than one pid, the test has too many       *)
(* arguments, which is an error and no success.                            *)
OnlyProcess(s, t) == /\ t \in Grep(s) /\ running[t] = 1
                     /\ \A u \in Grep(s) : u # t => running[u] = 0
IsRunning(s) == \E t \in Servers : OnlyProcess(s, t)

(* The server whose turn it is. *)
Turn(from) == pc = from /\ i <= Len(index)
Step(to) == pc' = to /\ i' = i + 1
StayAt(to) == pc' = to /\ UNCHANGED i

Command(c, list) ==
    /\ pc = "idle" /\ runs < MaxRuns
    /\ cmd' = c /\ index' = list /\ pc' = "first" /\ i' = 1
    /\ array' = {} /\ flag' = FALSE /\ runs' = runs + 1
    /\ crashed' = FALSE /\ killed' = {}
    /\ UNCHANGED <<procs, target>>

-----------------------------------------------------------------------------
(* start_dataserver, start_cs, start_mem                                   *)

(* The mutant starts without looking.                                      *)
StartUnseen ==
    /\ cmd = "start" /\ Turn("first") /\ StayAt("launch")
    /\ UNCHANGED <<procs, cmd, index, array, target, flag, runs, crashed, killed>>

StartLook ==
    /\ cmd = "start" /\ Turn("first")
    /\ \/ IsRunning(index[i]) /\ array' = array \cup {index[i]} /\ Step("first")
       \/ ~IsRunning(index[i]) /\ UNCHANGED array /\ StayAt("launch")
    /\ UNCHANGED <<procs, cmd, index, target, flag, runs, crashed, killed>>

(* check_shm_size fails, or there is no such configuration file.           *)
ShmTooSmall ==
    /\ Turn("launch") /\ Step("first")
    /\ index[i] # Cs
    /\ flag' = TRUE
    /\ UNCHANGED <<procs, cmd, index, array, target, runs, crashed, killed>>

Launch ==
    /\ Turn("launch") /\ Step("first")
    /\ running' = [running EXCEPT ![index[i]] = @ + 1]
    /\ UNCHANGED <<leaving, cmd, index, array, target, flag, runs, crashed, killed>>

(* sleep, then the second loop. *)
Sleep ==
    /\ pc = "first" /\ i > Len(index)
    /\ pc' = "second" /\ i' = 1 /\ crashed' = FALSE
    /\ UNCHANGED <<procs, cmd, index, array, target, flag, runs, killed>>

CameUp(s) == IsRunning(s) /\ s \notin array

(* The mutant returns what it found of the last server.                    *)
StartLastVerdict ==
    /\ cmd = "start" /\ Turn("second") /\ Step("second")
    /\ flag' = ~CameUp(index[i])
    /\ UNCHANGED <<procs, cmd, index, array, target, runs, crashed, killed>>

StartVerdict ==
    /\ cmd = "start" /\ Turn("second") /\ Step("second")
    /\ flag' = (flag \/ ~CameUp(index[i]))
    /\ UNCHANGED <<procs, cmd, index, array, target, runs, crashed, killed>>

-----------------------------------------------------------------------------
(* stop_dataserver, stop_cs, stop_mem                                      *)

StopLook ==
    /\ cmd = "stop" /\ Turn("first")
    /\ \/ /\ target' \in Servers /\ OnlyProcess(index[i], target')
          /\ StayAt("kill") /\ UNCHANGED array
       \/ /\ ~IsRunning(index[i]) /\ Step("first")
          /\ array' = array \cup {index[i]} /\ UNCHANGED target
    /\ UNCHANGED <<procs, cmd, index, flag, runs, crashed, killed>>

(* kill -15: the process may have exited since the look, or have got a     *)
(* SIGTERM before.                                                         *)
Kill ==
    /\ Turn("kill") /\ Step("first")
    /\ \/ /\ leaving[target] < running[target]
          /\ leaving' = [leaving EXCEPT ![target] = @ + 1]
          /\ killed' = killed \cup {target}
       \/ /\ leaving[target] = running[target]
          /\ UNCHANGED <<leaving, killed>>
    /\ UNCHANGED <<running, cmd, index, array, target, flag, runs, crashed>>

(* stop_cs and stop_mem return a failure.  stop_dataserver notes it in     *)
(* falg, and returns what flag says.  The mutant does the same in all.     *)
StopFalg ==
    /\ cmd = "stop" /\ Turn("second") /\ Step("second")
    /\ flag' = (flag \/ (index[i] \in {Cs, Mem} /\ index[i] \in array))
    /\ UNCHANGED <<procs, cmd, index, array, target, runs, crashed, killed>>

StopVerdict ==
    /\ cmd = "stop" /\ Turn("second") /\ Step("second")
    /\ flag' = (flag \/ (index[i] \in {Cs, Mem} /\ (IsRunning(index[i]) \/ index[i] \in array)))
    /\ UNCHANGED <<procs, cmd, index, array, target, runs, crashed, killed>>

Return ==
    /\ pc = "second" /\ i > Len(index)
    /\ pc' = "idle" /\ UNCHANGED i
    /\ UNCHANGED <<procs, cmd, index, array, target, flag, runs, crashed, killed>>

-----------------------------------------------------------------------------
(* The servers                                                             *)

Exit(s) ==
    /\ leaving[s] > 0
    /\ leaving' = [leaving EXCEPT ![s] = @ - 1]
    /\ running' = [running EXCEPT ![s] = @ - 1]
    /\ UNCHANGED <<cmd, index, pc, i, array, target, flag, runs, crashed, killed>>

Crash(s) ==
    /\ running[s] > leaving[s]
    /\ running' = [running EXCEPT ![s] = @ - 1]
    /\ crashed' = TRUE
    /\ UNCHANGED <<leaving, cmd, index, pc, i, array, target, flag, runs, killed>>

Script == \/ StartLook \/ ShmTooSmall \/ Launch \/ StartVerdict
          \/ StopLook \/ Kill \/ StopVerdict
          \/ Sleep \/ Return

Lists == Requests \cup {<<Cs>>, <<Mem>>}

Next == \/ \E c \in {"start", "stop"}, list \in Lists : Command(c, list)
        \/ Script
        \/ \E s \in Servers : Exit(s) \/ Crash(s)
        \/ pc = "idle" /\ runs = MaxRuns /\ UNCHANGED vars

Spec == Init /\ [][Next]_vars

-----------------------------------------------------------------------------
TypeOK ==
    /\ running \in [Servers -> Nat] /\ leaving \in [Servers -> Nat]
    /\ \A s \in Servers : leaving[s] <= running[s]
    /\ cmd \in {"start", "stop"} /\ index \in Lists \cup {<<>>}
    /\ pc \in {"idle", "first", "launch", "kill", "second"}
    /\ i \in 1 .. Len(index) + 1
    /\ array \subseteq Range(index) /\ target \in Servers
    /\ flag \in BOOLEAN /\ crashed \in BOOLEAN

(* A server runs once, even if it is named twice, if an earlier process is *)
(* slow to exit, or if a server crashes between the look and the start     *)
(* (tair.sh:197): two processes on one configuration would share data.     *)
OneProcess == \A s \in Servers : running[s] <= 1

(* stop_ds and stop_ssd stop the servers they are given ("stop_ds          *)
(* ds_index", tair.sh:508), and no other server.                           *)
OnlyNamedKilled == killed \subseteq Range(index)

(* When a start reports success, every server it was given runs, unless    *)
(* one crashed after the second look began: one that does not come up, or  *)
(* is about to exit, is noticed, and its failure is not covered by the     *)
(* success of another (tair.sh:223).                                       *)
StartedRuns ==
    pc = "idle" /\ cmd = "start" /\ ~flag /\ ~crashed
        => \A s \in Range(index) : running[s] = 1 /\ leaving[s] = 0

(* When a stop of cs or mem reports success, it no longer runs             *)
(* (tair.sh:242).  Of ds and ssd the result says nothing: :302 notes the   *)
(* failure in a variable that :309 does not look at.                       *)
StoppedIsGone ==
    pc = "idle" /\ cmd = "stop" /\ ~flag
        => \A s \in Range(index) \cap {Cs, Mem} : running[s] = 0

-----------------------------------------------------------------------------
(* What makes these invariants inductive, where a grep for a server finds  *)
(* that server only.                                                       *)
ExactMatch == \A s \in Servers : Match[s] = {s}

(* The server in hand: launched only if none runs, killed only if named.   *)
InHand ==
    /\ pc \in {"launch", "kill"} => i <= Len(index)
    /\ pc = "launch" => cmd = "start" /\ running[index[i]] = 0
    /\ pc = "kill" => cmd = "stop" /\ target = index[i]

(* A server that a start passes over was running, or is not being stopped. *)
Passed ==
    cmd = "start" /\ pc # "idle" =>
        \A j \in 1 .. Len(index) :
            j < i \/ pc = "second" => index[j] \in array \/ leaving[index[j]] = 0

(* What a verdict so far says of the servers it has seen.                  *)
Judged ==
    pc = "second" /\ ~flag =>
        \A j \in 1 .. Len(index) : j < i =>
            /\ cmd = "start" /\ ~crashed => running[index[j]] = 1 /\ leaving[index[j]] = 0
            /\ cmd = "stop" /\ index[j] \in {Cs, Mem} => running[index[j]] = 0

CtlIInv == /\ TypeOK /\ OneProcess /\ OnlyNamedKilled
           /\ InHand /\ Passed /\ Judged
           /\ StartedRuns /\ StoppedIsGone
=============================================================================
