# TLA+ models of tair_test

The repository is a collection of programs around the key-value store *tair*: a
multi-threaded load generator (`TAIR/tair_test`), a thread pool (`Thread`), a log system
(`log_sys`), a configuration reader (`config`), the control script of the servers
(`TAIR/tair.sh`), tools that evict data from tair and tfs (`TAIR/tair_tfs`), and small
exercises.  This directory models the parts whose correctness depends on order: what
threads, signals, descriptors and files do to each other.

Paths below are relative to `src/`.

## 1. Inventory

### tair_test: the load generator (`TAIR/tair_test/`)

| part | state | operations |
|---|---|---|
| `MY_Queue` (`my_queue.h`) | `_start`, `_end`, `_buff`, `_size` | `isFull`, `isEmpty`, `push`, `pop`; no lock, no atomics |
| `TestWork` (`Thread_work.cpp`) | its queue, `_can_over`, its thread, a tair client | `start`, `run` (poll, pop, `doWork`, delete), `offerJob`, `~TestWork` (flag, join, close) |
| `TairTest` (`tair_test.cpp`) | the workers, `_worker_selected`, the key file | `do_work` (put, get, delete jobs in turn), `PostJob` (round robin, retry), `execute`, `~TairTest` |
| `OpJob` (`Opjob.cpp`) | operation, keys | filled by the main thread, executed and deleted by a worker |

One main thread prepares jobs and deals them to `-n` workers, each with a ring of its
own.  The main thread is the only producer of every ring and each worker the only
consumer of its own.  Put jobs append their keys to `./keyfile`; get and delete jobs
read keys back at two cursors that wrap at the end of the file.

*Hard:* the ring is shared without synchronization; the worker looks at its queue and at
`_can_over` in two steps; the keys of a put are in the file before the put job is in a
queue; preparing a get or delete may be given up half-way; workers may have no thread at
all (`start` failed).

*Correct means:* the ring is a bounded FIFO queue; a job has one owner; an operation is
reported if and only if it is made; a key is put before it is used (the code sees to
that only among the jobs of one worker); a worker is destroyed after its thread has
left; the run ends.

### CThreadPool (`Thread/`)

State: `m_TaskList`, `shutdown`, `m_pthreadMutex`, `m_pthreadCond`, the thread ids.
Operations: the constructor (`Create`), `ThreadFunc`, `AddTask`, `StopAll`,
`getTaskSize`; `main.cpp` adds tasks, polls the size without the mutex, and calls
`StopAll` until it is refused.

*Hard:* wakeups that are lost, spurious or meant for another thread; `shutdown` is
stored and broadcast without the mutex; a poll that reads the list unlocked.

*Correct means:* a thread that takes finds a task; no task is lost or run twice; every
task runs; `StopAll` ends, and nothing uses the pool afterwards.

### CLogger (`log_sys/`)

State: `_fd`, `_flag`, `_check`, `_name`, `_fileList`, two mutexes; outside, the
process's descriptors and the directory.  Operations: `setFileName`, `logMessage` (with
`checkFile`, and `rotateLog` under `_fileSizeMutex`).

*Hard:* `checkFile` and `rotateLog` both replace the descriptor, only one of them under
the mutex; `_fd` is read unlocked; rotated files are named by the second; the log may be
moved away from outside.

*Correct means:* a message reaches the log; only full files are rotated, and full ones
are; the last `_maxFileIndex` files are kept; no descriptor leaks.

### The rest

* `TAIR/tair.sh` starts and stops configserver, dataservers (by index), ssd and mem
  servers: it greps `ps` for a configuration name, starts or kills, sleeps, and looks
  again.  *Hard:* servers start and exit at their own speed, a grep matches prefixes,
  results of several servers go into one flag. *Correct means:* a server runs once; only
  the servers named are stopped; the result is true.
* `TAIR/tair_tfs/split.cc` cuts the list of evicted keys into parts; `clean_cache.cc`
  reads a part, looks each key up in tair, unlinks the file in tfs, and removes the key.
  *Hard:* a block may end in the middle of a line, reads and writes are interrupted or
  short, a run is repeated over the files of the last one; a call may fail with or
  without effect, a crash falls between the two, another program puts the key meanwhile.
  *Correct means:* every evicted key is in one part; no file is left without a key, and
  no key without its file, but for failures that can be named.
* `config/` reads sections of `key = value` into maps.  `parseValue` cuts the line in
  place, with pointers that walk back; repeated keys collect values behind NULs; a
  second `load` goes on where the first ended, and one that meets a bad line ends there.
  *Correct means:* key and value are what the line says; a list holds the values in
  their order; what `toString` writes loads to the same.
* `config/stringutil.cpp`, `murmurhash2.cc`: pure functions on bytes, some of them
  signed.  *Correct means:* they agree with what their names say.
* `c_thread.cpp`: threads run in turn by one counter, one mutex and one condition.
  *Correct means:* nobody runs out of turn, nobody sleeps through its turn.
* `signal_test.cpp`: two signals raise and lower a level, and one handler may interrupt
  the other.  *Correct means:* the level follows the signals.
* `c_mkdir.cpp`: `mkdir -p` by `access` and `mkdir`, level by level, possibly by several
  programs at once.  *Correct means:* what it returns is true.
* `clean_data.cpp` lists the regular files of a directory that others change;
  `server_client/`: one line per connection through one buffer.  *Correct means:* only
  what is there is listed, and only what was received is printed.
* `clean_ssd_cache.cc` is unfinished (the work itself is an empty method); the tools
  that make one call of a client library, and the other files, are exercises.

Every part is listed in `PROJECT.json` under `components`, with what is left out and
why, and every hazard with its line under `hazards`.

## 2. Modules

| module | what it is |
|---|---|
| `BoundedFifo` | abstract: what `offerJob` and `run` may rely on, a FIFO queue of bounded length |
| `MyQueue` | the ring, its two threads and the store buffers of their cores |
| `MyQueueProofs` | invariance and refinement, for every size of the ring and set of jobs |
| `TairTest` | the whole load generator over queues as `BoundedFifo` gives them |
| `TairTestProofs` | invariance, for every number of workers, jobs and keys, and every capacity |
| `ThreadPool` | the pool, its threads and its main program |
| `ThreadPoolProofs` | invariance, for every number of threads and tasks |
| `Logger` | the logger over descriptors, names and inodes |
| `LoggerProofs` | invariance, mostly while the file is named once, for every number of threads, messages, rotations and moves |
| `TairCtl` | the start and stop commands of `tair.sh` over a process table |
| `Split` | `split.cc`: the list of evicted keys and its parts |
| `CleanCache` | `clean_cache.cc`: the keys of a part, tair and tfs |
| `Eviction` | composes `Split` and `CleanCache` |
| `TairCtlProofs` | invariance, for every set of servers and lists of them, and number of runs and crashes |
| `EvictionProofs` | invariance of both programs, for every list of keys and size of blocks, and number of runs and failures |
| `StringUtil`, `MurmurHash` | the string helpers and hashes as operators, and what each must agree with |
| `Config` | `CConfig`: the cutting of a line, `load` over several files, getters and `toString` |
| `Turns` | `c_thread.cpp` |
| `SignalLevel` | `signal_test.cpp` |
| `MakeDirs` | `mkdirs` of `c_mkdir.cpp`, run by several programs |
| `ServerClient`, `CleanData` | `server_client/`, `clean_data.cpp` |
| `Programs` | puts the small programs side by side: a behaviour belongs to one of them |
| `ProgramsProofs` | invariance of `Turns`, `SignalLevel`, `CleanData`, `ServerClient` and `MakeDirs`, each by itself, for every number of threads, signals, entries and clients, every set of programs, paths and file system |
| `ConfigProofs` | what `Config` stores, how it reads a line, and that it loads what `toString` writes, for every sequence of files and lines of any length |
| `MCMyQueue`, `MCTairTest`, `MCThreadPool`, `MCLogger`, `MCTairCtl`, `MCEviction`, `MCPrograms` | constants for TLC |

Operators named `...NoSpare`, `...Twice`, `...AfterClose` and the like, placed before
the definition they vary, are mutants: plausible bugs of the code.  No behaviour uses
them; `PROJECT.json` (`mutants`) says which property each must break.

### MyQueue

`start`, `end`, `buff` are the ring in the program order of the thread that stores them;
`seenStart`, `seenEnd`, `seenBuff` are what is in memory.  The makefile compiles with
`-g` and no optimization, so each access in the source is one aligned load or store,
made in program order, and x86 keeps the stores of one core in order: the data race of
the source can only show as *lag*.  The actions `DrainSlot`, `DrainEnd` and `DrainStart`
move one store to memory, a slot before the `_end` that publishes it.  `OfferJob` is
`offerJob` up to its answer, `StoreSlot` and `StoreEnd` are `push`, `Poll` is the test
of `run`, `LoadSlot` and `StoreStart` are `pop`, and `FinishJob` is `doWork` with the
delete.

`OfferJob` chooses any job that is not in use: after `delete`, the allocator may hand
out the same address again.

`StoreOver` is the store of `_can_over` by `~TestWork`, which drains after those of
every push (`DrainOver`).  A worker that finds the ring empty (`PollEmpty`) looks at
`_can_over` as a step of its own (`AskOver`) and leaves or polls again.

### TairTest

Worker rings are sequences of length at most `capacity`, as `MyQueue` shows they may be.
(A stale `isFull` or `isEmpty` is the answer of a moment just past.  The two threads
share nothing else except `_can_over`, which is stored after the last push and drains
after it, so no thread can tell.)  A key is its line in the key file; the bytes of keys
and values and the answers of the tair servers do not change what the program does next.
That takes two things for granted which the code does not ensure: that a put sends the
key its line shows (the job's copy has no NUL of its own, `Opjob.cpp:72`, and
`Thread_work.cpp:122` takes it up to the next NUL in memory), and that the newline
behind a key is written (`tair_test.cpp:144`).  The main thread's actions are the stages
of `do_work` (`PreparePut`, `PrepareFetch` and the ways they fail), of `PostJob`
(`PostJob`, `RetryNext`, `PostToNobody`) and of `~TairTest`; a worker's are the steps of
`run` with `doWork` key by key.

### ThreadPool

One action per step between two accesses of shared state.  `Wait` releases the mutex and
blocks at once, `Reacquire` takes it back, `SpuriousWakeup` lets the condition return
for no reason.  `getTaskSize` is a load without the mutex. Creation of a thread may fail
without anybody noticing (`CreateThread`); joining its id is an error or a crash
(`JoinNobody`).

### Logger

`fds` maps descriptors to inodes and `dir` names to inodes, so that a rename or an
unlink leaves open what is open.  `open` takes the lowest free number. `OpenFile`,
`Dup2Err`, `Dup2Out`, `CloseNew`, `CloseOld` and `AssignFd` are the lines that
`setFileName`, `rotateLog` and `checkFile` have in common, one system call each.  `Tick`
advances the second, `MoveLog` is somebody's `mv` of the log. A message is one unit of
size.  `overlapped` remembers that two threads closed `_fd` before either had assigned
it.  Left out: the level filter, formatting, failing `open`, short writes, and the
destructor.

### TairCtl

The process table is `running`, the number of processes of each server, of which
`leaving` have got a SIGTERM and have not exited yet.  The script makes two passes over
the servers it was given.  Start: `StartLook` notes in `array` what runs already;
otherwise `ShmTooSmall` or `Launch`; after `Sleep`, `StartVerdict`.  Stop: `StopLook`,
`Kill`, and after `Sleep`, `StopVerdict`.  Between any two of these servers exit and
crash; one that does not come up is one that crashes at once. `cs` and `mem` are lists
of one server.  What the script does when a server is found running, or two processes
are found (an error of the test in `[ ]`), comes to the same verdict in `start_cs`,
`start_mem` and `start_dataserver`, though the first two return at once.  `start_all`
and `stop_all` are runs for ds, ssd and mem, one after the other; their own result is
that of the last.  The constant `Match` says which servers' command lines a grep for a
server finds: the server alone, or, for a name that is a prefix, another one too.

### Eviction

`Split`: a read takes any number of units up to a block or the rest of the list
(`Read`); one that takes fewer has come before all of today's list was written.
`NextPart` is the change of files after three, `Write` stores any number of units of the
block, `BreakOff` is any failing call.  `files` outlives a run, and `Overwritten` leaves
what lies behind the data written, as nothing truncates.  `uneven` counts the reads that
were short or interrupted.  The model is `spilt_files` called with the path of a list.
`main` puts a `/` behind the path (`split.cc:97`): of a plain file the `open` then fails
with ENOTDIR, of a directory the `read` with EISDIR, so that as the program stands every
run is an `Open` and a `BreakOff`.  `CleanCache`: `Fgets` takes the next line of the
part, which may be a piece of a line, `Get`, `Unlink` and `RemoveKey` are the three
calls, `CallFails` and `Crash` what can happen to each, `Put` another program. That an
`unlink` of a missing file fails is read from the code, which treats a failure as "leave
the key".  A piece of a line is no key; that `clean_cache.cc:71` cuts a byte off it,
where a whole line loses its newline, does not make it one.  In `Eviction`,
`clean_cache` works on any part in any order, but not while `split` runs: they are two
steps of a daily job.

### Programs

The small programs share no state.  `Programs` extends their modules, chooses one in
`Init` (`program`), and gives only that one its inputs and steps.

`StringUtil`, `MurmurHash`: a text is a sequence of signed bytes, a wide character two
of them.  Words have `Bits` bits and bytes of keys `ByteBits`; multiplication wraps and
the sign of a byte is extended as in the code.  `strToUpper` reads the byte behind a
wide one unasked: `RunsPastEnd` says when that is the NUL.

`Config`: `ParseValue` gives the three places where the code writes a NUL (`end`, `cut`,
`stop`) as maxima over the places a pointer walks back over; one of them may lie before
the line, where `StrayBytes` says what there is.  `LoadOpen`, `LoadNext` and `LoadEnd`
are `load`, one line per step.  The order of the maps is left open. Limits of buffers
(128 for a key, 4096 for a line) are left out.

`Turns`: one action per lock, wait, step behind it, unlock and broadcast.  A thread
sleeps first, so any order at the mutex is possible.  `exit` in main ends all.

`SignalLevel`: `handlers` is the stack of handlers that run; the top one goes on.
`log_level++` is a load and a store, or one step: the source leaves it to the compiler.

`MakeDirs`: a path is a sequence of names and a string cut at a `/` its prefix; `Access`
and `Mkdir` are the two calls, which another program may come between; `AccessRefused`
and `MkdirRefused` are the same calls when they fail for a reason outside of the model
(permission, space, a read-only file system, a link that leads nowhere). `madeBy`
remembers who made what, `refused` whose call was refused.

`ServerClient`: the server's buffer survives from one connection to the next, `Recv`
returns any part of what came, nothing, or -1.  `CleanData`: the pointers of the list
are places in one block; `st` keeps what it had when `stat` fails.

## 3. Runs

| run | bounds | shows |
|---|---|---|
| `ring` | ring of 3 slots, 4 jobs | order, publication, ownership, the refinement, that every refusal ends, and that a worker leaves a job behind only if it became visible between its look at the ring and its look at `_can_over` |
| `tairtest` | up to 2 workers, queues of 1 or 2, 3 jobs of 1 or 5 keys, 0 or 2 old lines | ownership, order of put and use, `total_op`, destruction, termination |
| `tairtest_lost` | the same | **violated**: operations reported and not made |
| `pool` | 3 threads, 4 tasks | mutual exclusion, no task lost or run twice, a quiet end, every task runs, `StopAll` ends unless a thread was about to wait |
| `pool_stop` | the same | **violated**: `StopAll` waits for ever |
| `logger` | 2 threads, 3 messages, files of 1, 2 files kept, 3 seconds, 1 move, both modes, with and without check | messages reach the log, rotation, retention, descriptors |
| `logger_kept` | no check, no move | **violated**: a recent file is lost when two rotations share a second |
| `logger_naming` | one thread, two `setFileName` | **violated**: the log is closed |
| `tairctl` | 2 servers with index, cs and mem, 3 commands; lists empty, of one, of two and with one twice | one process per server, only those named are killed, results are true |
| `tairctl_prefix` | the same, the first's name a prefix of the second's | **violated**: stopping one kills the other |
| `eviction` | 7 units in blocks of 2, 3 lines, 2 runs of each program, 2 short or interrupted reads, 1 interrupted call, 1 failure or crash, 1 put | nothing is lost or doubled in the parts; files and keys go together |
| `programs` | all texts of up to 4 characters over 9 (5 bytes), keys of up to 11 bytes of 3 bits, all lines of up to 4 bytes over 8 and 6 over 4, two files of 3 and 2 or 4 lines; 4 threads, 1 spurious wakeup; 3 makers, paths of up to 3 names; 3 clients, buffers of 3, 1 broken connection; 3 directory entries; 3 signals of each kind | helpers, hashes, lines, lists and `toString` agree with references; threads run in turn and all of them; `mkdirs` tells the truth; prints, lists and the level are what they should be |

*Why the bounds are enough.*  A ring of 3 holds 2 jobs: it is empty, half full, full,
and wraps, with another job in each thread's hands, which takes 4.  `TestCases` is the 3
of the code: one put, one get, one delete; two workers are needed for the round robin
and the retry; a queue of 1 fills up, in one of 2 jobs wait for each other; jobs of 5
keys wrap the cursors round a file of 2 old lines several times.  In the pool, 3 threads
and 4 tasks let a wakeup go to the wrong thread while two others compete.  In the
logger, 3 messages into files of 1 rotate three times, past the list's maximum of 2, in
the same second or in different ones.  In `tairctl`, three commands are a start, a stop
that comes too late, and a start over the process that is still leaving.  In `eviction`,
7 units are one more than the three blocks of a part, a short read moves the cut between
the parts, the third line is cut by the end of the first part, the list may grow between
the two runs, and the second run of `clean_cache` may be of the same part, after a
crash, or of the next. In `programs`, lines of four bytes over blank, tab, `=`, `#`,
both brackets, a letter and a wide byte let every pointer of `parseValue` pass every
mark, and those of six over four of them put blanks on both sides of a key and of a
value; the model of the cut was also compared with the compiled code on all those lines
of four.  Words of 26 bits keep the products within TLC's integers while they still
wrap; keys have every remainder by 4 behind one and two whole words.  Four threads are
the code's.  With three makers one may fail at a directory of the second, which fails at
one of the third.  Three signals of each kind let two be lost in one handler.

*Deadlock* is checked in every run.  The finished states of the programs stutter
explicitly (`Over`, `Done`, `Stopped`, `Ended`; of the ring `Ended`, when the worker has
left and `pthread_join` returns), so that any other state without a step is reported.

*Fairness.*  Each thread is scheduled (`WF` of the thread's own actions).  A store
leaves the store buffer sooner or later (`WF` of the drains).  A thread that waits for a
mutex which is released again and again gets it (`SF`). Nothing is assumed of spurious
wakeups or of the failure of calls, but that a thread of `c_thread` wakes up for no
reason only finitely often (`MaxSpurious`). Calls of the tair client return, as they
have a time limit; `Run` of a task returns.  Without weak fairness of the worker the
busy waits of `PostJob` and of `run` could spin for ever, which no operating system
does.

*Type invariants* are part of the invariants proved in section 4 and are not repeated in
the runs.

### What the violated properties say

* `AllOperationsMade`: `run` finds its queue empty (`Thread_work.cpp:77`), the main
  thread posts its last job and stores `_can_over`, `run` reads it and leaves.  The job
  is never executed, though the total was printed.
* `StopEnds`: `StopAll` stores `shutdown` and broadcasts without the mutex.  A thread
  that tested the flag and has not blocked yet misses both; `pthread_join` waits for it
  for ever.  `StopEndsWithoutRace` shows that this is the only way.
* `LastFilesKept`: two rotations in one second rename to one name;
  `KeptUnlessSameSecond` shows that this is the only way.
* `MessagesReachLog` with a second `setFileName`: `close(_fd)` frees descriptor 2,
  `open` returns 2, `dup2(2, 2)` does nothing, and `close(fd)` closes the log.
* `OnlyNamedKilled` where 1 and 10 are servers: the grep for `dataserver.conf.1` finds
  the process of `dataserver.conf.10`, and `stop_ds 1` kills it.

Some properties hold with exceptions that their definitions state:

* `ParsedAsWritten`: a comment behind an empty value is taken for the value, as the
  pointer walks back past the `#` (`config.cpp:57`); a line without a key may be stored
  under one that begins with `=` (`:51`).  `RoundTrip` leaves such keys out, and tabs
  and wide bytes.
* `EveryJobExecuted`: a job is left behind when its index reaches memory between the
  worker's look at the ring and its look at `_can_over`; this is `AllOperationsMade`
  seen from the ring, and the property says that it is the only way.
* `NothingLeaks`: descriptors do leak with `_flag` and `_check` both set, when the log
  was moved away and two threads replace it at once.  Both see in `checkFile` that it is
  gone.  `_fd` is 3.  One opens 4 and closes 3; the other's `open` now returns 3.  It
  closes `_fd`, which is still 3: the file it has just opened.  The first assigns 4, the
  second 3: 4 is open and nobody's, `_fd` is closed, and the next messages miss the log.
  Neither `close` nor assignment (`tblog.cpp:192-199`) is under the mutex, which
  `rotateLog` (`:165-172`) holds in vain. The property excludes just this, a second
  thread that closes `_fd` before the first has assigned it (`overlapped`); in the three
  other modes, and in this one without the overlap, it holds.
* `SplitOnce`: the parts of a repeated run hold a unit twice if a read of the day was
  short or interrupted: the runs then cut the list at different units, and what the
  earlier one wrote behind the offset of the later one stays (`split.cc:49`).  Parts are
  longer than three blocks only if a read was interrupted.
* `MkdirsOutcome`: `mkdirs` returns -1 although the path is there, when another program
  made a directory between `access` and `mkdir` or the system refuses a call, and 0 when
  the last name is a plain file.
* `PrintedIsOwn`: after a failed `recv` the text of an earlier client is printed again.
* `ListedRegular`: a name removed before `stat` is listed if the one before it was a
  file.
* `LevelFollowsSignals`: a signal handled in the middle of the other's handler may be
  lost.

`DanglingExplained` and `NamedUntilGone` hold with exceptions worth knowing: a crash
between `unlink` and `remove` leaves a key that no later run of `clean_cache` removes,
as `unlink` then fails; and `remove` takes away whatever the key names by then, so a
file put in between is lost.

## 4. Proofs

TLAPS checks every theorem, for all values of the constants.

*The ring* (`MyQueueProofs`).  The invariant `IInv` says: both views of both indexes lie
on the ring in the order `start`, `seenEnd`, `end`, with `seenStart` behind `start` and
`end` never more than `Size - 1` ahead of `seenStart` (`RingOrder`); what the worker may
read is what was pushed (`Published`); between `pop`'s two steps the slot is still its
own (`PopHoldsOldest`); a job has one owner (`SingleOwner`).  None of these is inductive
alone: publication needs the order of the two drains, for which `HalfPushed` remembers
that a slot already drained is the one the next `_end` publishes.  `RingSafe` proves
`Spec => []IInv`, `RingImplementsFifo` that each step maps to a step of `BoundedFifo` or
a stutter: a push takes effect when `_end` is stored, a pop when `_start` is.  The
lemmas on `Dist`, `Ahead` and `Window` (arithmetic on the ring without `%`) are stated
once. Assumed: `Size >= 2`, and that no job is the null job.

*The load generator* (`TairTestProofs`).  A worker's `Line` is its current job and its
queue.  A step leaves a line as it is, takes its first job out, or puts the job in hand
at its end (`LinesStep`); that a pop leaves it alone needs that a worker works exactly
while it has a job (`WorkersKept`).  `JobOwnership` then follows from the numbers, as
the job in hand has a number no posted job has (`HandKept`).  `PutBeforeUse` is not
inductive: a put is newer than *every* job posted before it on any line, got and deleted
ones included (`PutsNewer`), because their keys are lines of the file (`Written`) and a
put's lie behind its end.  `DestroyedQuiet` needs, beyond these, that all workers have
been started when the destruction begins.  `LoadKept` proves `Spec => []IInv`; no worker
at all, workers whose start failed and every early end of the process are included.

`TotalOpIsRight` is about a sum of sums: of the keys of each job of a line, and of those
over the lines.  `KeysCounted` adds to `TotalOpAccounts` that a worker without a job is
at no key of it, and the main thread outside of `PostJob` has no job in hand; then every
step changes one line's sum (`LeftChange`), and `total_op`, `executed` or the hand by as
much.  `Total` is a recursive function.  That it exists and is unique (`SumsExist`,
`SumsUnique`) is induction, done by a least counterexample (the library's `WFMin`), as
its induction theorems cannot be used; that it grows by what is appended
(`TotalAppend`), shrinks by what is taken (`TotalFront`) and follows the change of one
number (`TotalChange`) comes from that.  Assumed in all of these: queues hold a job,
jobs have a key, the other numbers are natural.

*The logger* (`LoggerProofs`).  `LoggerKept` proves an invariant that holds while the
file has been named at most once; `logger_naming` shows what a second call of
`setFileName` does.  `MessagesReachLog`: `_fd` stays stderr, which is never closed,
because what a replacement closes is what its own `open` returned, and no two threads
hold the same descriptor (`Redirects`); `dup2` puts the new file there in one step.
`RotatedIsFull`: without `checkFile` only the holder of the mutex compares, renames and
replaces (`MutexHeld`), the file it found full is the log unless it was moved away
(`LogIsFd`), and files only grow.  Before the first message only the thread that names
the file runs (`NamedFirst`).

`FullLogsAreReplaced` proves `LogBelowMax` from `FullIsCompared`: while the log is full,
some thread is on its way to compare or rename it.  Without the mutex from the
comparison to the rename this would not be kept, and with `checkFile` it is not: a
thread that looked before a rotation may put the rotated file back, another one writes
to the new log and compares the old file, and the full log stays until the next message;
so the property is stated without `checkFile`.  `NoFdLeaks` proves `NothingLeaks` from
`FdsOwned`: as long as no overlap with flag and check has happened (`Apart`), what is
open is, but for stdin, which nothing touches, stdout, stderr, `_fd` and what threads
that replace the file hold, each its own (`OwnFd`).  `RotatedAreKept` holds in every
mode and however often the file is named: the names in `_fileList` are the last ones
renamed to (`FilesListed`), except between `unlink` and `rename`, where only the holder
of the mutex is; so the name removed is `_maxFileIndex` rotations old.  Assumed: the
file size and the numbers of descriptors and seconds are positive; a descriptor is free
when `open` is called.

*The pool* (`ThreadPoolProofs`).  `PoolSafe` proves `Spec => []IInv`, where `MutexHeld`
makes the list private to the holder, `Phases` ties program counters to the list and the
flag, and `TaskAccounted` and `StoppedQuiet` follow.  Assumed: numbers of threads and
tasks are natural.  Zero threads are allowed: tasks then wait for ever, which the
invariant does not exclude.

*The script* (`TairCtlProofs`).  All theorems assume `ExactMatch`: a grep for a server
finds that server only, which is what `tairctl_prefix` violates.  Then a process found
is that of the server in hand, and a server not found has none (`InHand`), so that
`Launch` starts the first and `Kill` hits the one named. `StartedRuns` needs more: a
start could report a process of before that is about to exit.  `Passed` excludes it:
what was running before is in `array`, and what was not has been launched by this run,
after any SIGTERM.  `Judged` carries the verdicts from one position to the next, and to
the result: `StartsAreTrue` and `StopsAreTrue`.

*The eviction* (`EvictionProofs`).  `StoresAgree` says that no two keys name one file,
names are given once, and the file in hand is the one its key names, unless the key was
put meanwhile.  From it `FilesAreNamed` and `KeysDangleOnlyByFailure` follow for every
list of lines and any parts, runs and faults; nothing is assumed there of what `split`
makes of the list.

`SplitSafe` proves the invariant of `split`.  The block in hand is what was read last
(`Cursor`), and what was written before it lies in the parts, in the current one just
before the offset (`UnitsKept`): hence `ListIsKept`.  `PartsAreTheList` also needs what
*earlier* runs left behind the offset, as the files are never truncated.  In the first
run nothing lies there, and the parts joined are what was read up to the cursor,
wherever the reads ended (`FirstRun`).  In a later one, as long as no read was short or
interrupted, part `n` holds nothing but units of its own three blocks (`PartsAligned`),
also of runs of a shorter list.  That the parts joined are 1, 2, ... `today` is
induction over their number, by a least counterexample (`JoinedUp`, `PartsExact`).  A
part grows by three reads of at most a block (`PartsShort`). `PartsAreCleaned` needs
`LinesCleaned`: every line before the cursor is cleaned, failed on, put again or in
hand, and the cursor is at the beginning of a line.  Assumed: blocks and lines are not
empty, the numbers are natural, and no two keys name one file at first.

*The small programs* (`ProgramsProofs`).  `ThreadsRunInTurn`: what was printed is 0, 1,
... up to `num`.  `NobodyMissesItsTurn`: when the thread whose number is `num` waits,
some thread that has passed the turn on still owes its broadcast; it needs that threads
not yet created have not begun (`NotBegun`).  Assumed: the numbers are natural.

`LevelFollows`: at most two handlers run, of different signals (`Nested`), and the
outermost one either has loaded what the signals make of the level, or that is the level
(`LevelKept`); what the inner one stores is lost only in the first case.
`ListIsRegular`, for any directory and any content of the memory: no name is read twice
(`ReadOnce`), which makes the list as long as the set of what it names (`ListedOnce`).
`OwnTextIsPrinted`: the buffer holds, up to its NUL, the text of the last good `recv`
(`Texts`), which a failed one does not touch.  Assumed: the buffer holds a byte, and the
lines have natural lengths.

*The directories* (`ProgramsProofs` too).  `DirsIInv` says: what a program has passed is
there (`Passed`), what it made lies behind it (`Made`), and a failure has its reason
(`Failed`; a refused call is one), in a file system where everything lies in a directory
(`IsTree`).  That not all programs fail, if none was refused a call, follows from
`FurthestWins`: whoever made the name at which a program failed is further than it, and
no path is longer than `MaxNames`; this takes a minimal element, the library's `WFMin`.
Assumed: there is a program, paths have at most `MaxNames` names, and the file systems
found are trees.

*The configuration* (`ConfigProofs`).  `StoreKeepsOrder`: `Stored` says that the parts
of what a key holds are the values it was accepted with, in their order.  An insertion
keeps it as the joined text `a NUL b` has the parts of `a` and then the one of `b`, if
`b` holds no NUL (`PartsAppend`): the starts of the parts of `a` stay the first ones
from below (`NthBehind`), and the new one is the last.  Values hold no NUL because
`parseValue` cuts a line that holds none.  Assumed: lines hold no NUL, as `fgets` gives
them to C strings, and what lies before a line is a byte.

`LinesAreRead` is about one line of any length: from where the marks of a plain line lie
(`Eq`, `End`, `CommentAt`) follows where the pointers stop (`Cut`, `ValueAt`, `Stop`),
case by case of what stands behind the `=`; the text between them is what `Trim` leaves
of the text between the marks (`BareIs`).  The invariant gives it only that the lines
are texts.

`StoreIsReloaded` needs one invariant more, `Legible`: the names of sections are what
`isSectionName` lets through, keys are not empty, and neither keys nor values have a
space around them or a NUL in them, because `parseValue` leaves them so (`ParsedTexts`);
without it a store might hold a value that is trimmed when it is read back.  Then the
line written for a key and a value is read as these two (`KeyLineRead`, by
`LinesAreRead`'s lemma `PlainRead`), and the one of a section as its name
(`SectionLineRead`).  The text of a list up to its k-th string is the one up to the
string before, a NUL and that string (`PartBetween`), so the lines of a key rebuild its
text; the keys rebuild a section and the sections the store, in whatever order they are
written.  Lines are followed one by one (`MakesByLines`), and pieces of lines piece by
piece (`MakesByParts`), through sets of stores they can lead to; both are inductions by
the least counterexample (`LeastNat`).

*Model-checked only.*  Liveness (`EveryJobExecuted`, `RefusalEnds`, `Terminates`,
`EveryTaskRuns`, `StopEndsWithoutRace`, `AllRun`), which this prover does not do.  And
one property of pure functions: `HelpersAgree` rests on exclusive ors bit by bit, on
hashes that multiply modulo a power of two and on recursion over the characters of a
text: induction over data.

## 5. Plan

1. `Logger`: how much of `LogBelowMax` is left with `checkFile` (the log is full only if
   some file was put back).

### Not modelled

* A short write of the logger (`tblog.cpp:107`), which would write the beginning of the
  message again: a message is one unit of size.
* Limits of buffers on the stack (`config.cpp`, `c_mkdir.cpp`, `clean_data.cpp`), which
  longer input overruns; inputs are taken to fit.
* `formatByteSize`; the level filter of the logger; the inval server and the valgrind
  variants of `tair.sh`.
* `clean_ssd_cache.cc`, the tools of one call, the exercises and the build files:
  straight lines of calls without state to relate, as listed in `components`.
