# Verification of the sem_25 course programs

The repository holds the homework of an operating-systems course: small C
programs that move data between processes with signals, shared memory,
semaphores, message queues, pipes and sockets. This directory holds TLA+
specifications of the programs whose correctness depends on the order in which
processes, threads, signal handlers and messages act, TLC configurations that
check them, and TLAPS proofs.

## 1. Inventory

| part | state | operations | interaction |
|---|---|---|---|
| `task_5/homework` copy with signals | eight chunks of shared memory, end flags, pid, pending signals | two signal handlers, two main programs | `sigqueue()` back and forth |
| `sem_3/homework` `shm_run` | one buffer, its flag, two semaphores | parent reads, child writes | semaphores |
| `sem_3/homework` `mq_run` | a message queue and a flag, both outlive the program | parent sends, child receives | messages |
| `sem_3/homework` `fifo_run` | a FIFO in the file system | parent writes, child reads | byte stream |
| `sem_2/homework` duplex pipe | two pipes | child echoes each block | byte streams |
| `sem_1/homework` shell | command table, pipes, children | parse, run a pipeline, reap | `fork`, `exec`, `waitpid` |
| `sem_4/homework` Monte Carlo | a counter under a mutex | threads count points | shared memory |
| `task_6/homework` backup daemon | samples, diffs, inotify watches, settings | daemon loop, commands, restore | inotify, FIFO commands, file system |
| `task_7/homework` file server | client table, descriptors, pipes, transfer threads | event loop, registration, GET, DISCONNECT, periodic check | named pipes, epoll, threads |
| `task_8/homework` distributed integral | server list, strips, partial results | discovery, split, exchange, sum | UDP, TCP, threads |
| loggers, `examples/`, lectures, scripts | – | – | not part of what is verified |

What is hard in each part, with the line where it bites, is the list `hazards`
of `PROJECT.json`; the properties that make the parts correct are:

* every copying program: the output is a prefix of the input, in order, each
  block once, and complete when the program reports success and ends; shared
  buffers have one user at a time; both processes end;
* shell: the commands are those of the line, each process holds exactly the pipe
  ends it needs, every child is reaped;
* Monte Carlo and the distributed integral: every point is counted once and the
  divisor is the number of points counted; no strip is left out or added twice;
* backup daemon: a restored file is the file as it was at that sample, what has
  been saved stays what it was, and no change in the watched tree is missed;
* file server: a client gets its own file, slots and descriptors are accounted
  for and come back, and clients end.

## 2. Modules

| module | models |
|---|---|
| `OrderedCopy` | what a copying program promises: blocks are taken in order, written in order, and skipped only when lost |
| `SignalCopy` | `task_5`: `main.c`, `handler.c`, `shm.h` |
| `ShmCopy`, `MqCopy`, `FifoCopy` | `sem_3`: `shm_main.c`, `mq_main.c`, `fifo_main.c` |
| `DuplexPipe` | `sem_2`: `duplex_pipe.c`, `main.c` |
| `ShellPipeline` | `sem_1`: `command_parser.c`, `run_cmd.c` |
| `MonteCarlo` | `sem_4`: `calculate.c`, `main.c` |
| `Seminars` | which of the programs of the seminars is started, and the properties of all of them |
| `FifoServer` | `task_7`: server, clients and transfer threads |
| `VersionStore` | what a backup promises: what has been kept stays what it was |
| `BackupDaemon` | `task_6`: `backup.c`, `daemon.c`, `ipc.c`, `file.c`, `main.c` |
| `Integral` | `task_8`: the client, `udp_discovery.c`, `tcp_client.c`, `tcp_server.c` |
| `OrderedCopyProofs`, `SignalCopyProofs`, `CopyProofs` | theorems about the copying programs and their TLAPS proofs; `CopyProofs` has `ShmCopy` and `MqCopy` |
| `SeminarsProofs` | the same for `FifoCopy`, `DuplexPipe`, `ShellPipeline` and `MonteCarlo` |
| `FifoServerProofs`, `BackupDaemonProofs`, `IntegralProofs` | the same for the three tasks |
| `FoldTheorems` | sums over finite sets and concatenation of sequences, for `MonteCarlo`, `Integral` and `ShellPipeline` |
| `MC…` | the constants of the TLC runs |

`SignalCopy` and `ShmCopy` instantiate `OrderedCopy` with a refinement mapping
(`Copy`), and the property `CopiesInOrder` says that they implement it;
`Seminars` does the same for `MqCopy` (`MqCopiesInOrder`). `BackupDaemon`
implements `VersionStore` (`KeepsVersions`). In all copies a block of the file is
its number.

Definitions named `X_Something` next to a definition `X` are variants of it with
a plausible mistake; no specification uses them. They serve to see that a
property notices the mistake (`mutants` in `PROJECT.json`).

**SignalCopy.** The variables `pid`, `producer_ended`, `consumer_ended`,
`bytes_read`, `attempts` and `chunk` are the fields of `SharedData`; `prodQ` and
`consQ` the signals pending at parent and child. Real-time signals are queued and
delivered in order. A handler preempts the main program of its own process
(`ParentRuns`, `ChildWaits`) and runs concurrently with the other process, one
action per system call. `ppc` and `cpc` are the positions of the main programs,
`ph` and `ch` those of the handlers. `unsent` and `dropped` are history: the
blocks whose signal failed, and those discarded after they were sent. `Prompt`
chooses between signals that are delivered before the next step of the target's
main program and signals that may come any time later.

**ShmCopy.** `sem` holds both semaphores; `sem_wait` and `sem_signal` fail once
the parent has `removed` them. The segment may be left over from a killed run, so
its flag is arbitrary at the start. `cpc = "failed"` is the child's `exit(1)`.

**MqCopy.** A message carries the number of the run that sent it, so that the
queue left behind by a failed or killed run can be told from the next run's. The
queue holds `QueueSize` messages. `EofLike` are the blocks of the file that begin
with the letters of the end message. `Restart` is the next start of the program.
There is one output file for all runs: the child of each run empties it when it
opens it (`O_TRUNC`, `mq_main.c:75`) and writes it at an `offset` of its own. The
child of a failed run lives on, so that its blocks and those of the next run may
overwrite each other, tear each other (the end message of a run, received with
the flag of the next one, is three letters long and is written like data) or leave
holes. The file is therefore a sequence of places of the size of that message, of
which a block has `MQ_SIZE`, here two, which is enough for a block to be torn. A
place says what is in it, and `by` which child wrote it.

**FifoCopy.** `open()` of a FIFO is where the two processes meet: the parent
leaves `"open"` only when the child has come to its own `open()`. `named` says
that the FIFO is in the file system, where it outlives a run that does not remove
it; `mknod()` then fails. The FIFO holds `Capacity` blocks; `P_Broken` is SIGPIPE.

**DuplexPipe.** The point of this module is the descriptor table: `files[p]` says
what each number of process `p` stands for, `pipe()` and `open()` take the lowest
free numbers, and `fd_direct` and `fd_back` are the numbers that the structure
keeps. Since `CloseParentPipes` closes two of them just before the parent opens
its files, `snd` and `rcv` in the parent act on these files. `Inherited` are the
descriptors the program may start with. A block is its place in the file, and
`size` its length, of which only the last may be short.

**ShellPipeline.** A token is a sequence of words and bars, so that bars with and
without blanks around them are distinguished (`IsLine`: no token is empty, and
what is between two bars of a token is one word). `ParseToken` follows the parser.
What it should do is said without it: `Written` writes commands as one sequence of
words and bars, which must be the line again, and a line is to be refused if and
only if it is `TooLong`, has more bars than there is room for commands or more
words between two bars than for arguments. `open` are the
pipe ends of every process, `S_Fork` and `S_Close` one round of the loop in
`RunCmd`, `children` the processes, which exist as zombies until `S_Wait`. The
programs that are run (`gen`, `cat`, `head`, and one that does not exist) stand
for a writer, a filter, a reader that stops early and a failing `execvp()`.

**MonteCarlo.** A thread is a record with its position, the processor it is bound
to, the result of binding it (`err`) and its local count; `counter += local_count`
is a read and a write. `set_this_thread_to_core` fails for a processor with too high
a number, and the kernel may refuse any other (`EINVAL`: the processors online need
not be the first ones, nor all be in the cpuset of the process); in both cases the
thread ends without counting. How many points of a thread lie below the curve is
arbitrary.

**Seminars.** These programs have nothing to do with each other, so `program`
says which one is started, the others' variables stay empty, and the modules that
use the same kinds of variables (`pp`, `cp`, `blocks`, `out`, `run`) share them.
`mq_run` and `mq_runs` are the same program with other constants: one run without
faults, and several runs with all of them.

**FifoServer.** `spc` is the position of the server's only main thread, with one
action per system call that another process can notice: `epoll_wait`, the
handling of one event, one `read` of the periodic check, and each of `open(tx)`,
`open(rx)`, ACK and first read of a registration. `ready` holds the events of one
`epoll_wait` by their tags, where tag 0 stands for the server's FIFO and, as in
the code, also for slot 0. `fds` is the descriptor table: `open()` takes the
lowest free number, so a number is used again as it is by the kernel, and the
threads' own files take numbers too. A transfer thread is a record of `tasks`
with the number it was given. A command in `rx` is the index of a requested file,
or 0 for DISCONNECT; a token in `tx` says whose file it is a part of. A client's
`pc` follows `main_client.c` and `register_client`; `preopen_fd`, which the client
never closes, is why `HasReader` holds until its process is gone. A client may be
killed or interrupted (`Unruly`), may give up waiting for the ACK, and the server
may be sent SIGTERM (`MayStop`).

**BackupDaemon.** `state` is `MonitorState` with the watches and the queue of
inotify; `full` and `diffs` are the files of the backup directory, which outlive
the program. A file's content is a number: absent, empty (which libmagic does not
call text), or a version; beside it `stat` says what `stat()` tells apart, since
two changes within a second and with the same size look alike. `Touch` is what a
user does to a file, with the event that inotify queues if the directory is
watched; moving a file is a deletion and a new version. The program takes one
action per file when it copies (`CopyFull`, `SaveBase`) and when it runs `diff`
(`save_diff`), so that users may change a file in between.
`search_files_in_dir` gives every result its recursion may have: the count
restarts in a subdirectory, and what is found there overwrites what was found
before (`file.c:58`). `life` counts starts of the program. `mode` is the daemon,
with its command FIFO, or the interactive loop. `D_NoSample` stands for the
sleep. `signal_handler` merges the signal and the test of the flag at the head
of the loop. A command read together with others hides them (`ipc.c:45`).

**Integral.** `args` is a command line as its options and the arguments after
them; `cfg` is `ClientConfig`, `jobs` the `TaskJobs` with the position of each
thread, `socks` each thread's connection, `requests` and `answers` the datagrams
on their way. A server's two sockets (`udp`, `tcp`) become ready separately, in
whatever order its threads run. Servers crash (their connections are closed) or
stop (their kernel still accepts connections and answers nothing). `total` is
the sequence of the results that were added, not their sum. `config.c` holds the
marks of an unresolved merge (lines 65-87 and 146-162); the model follows the
side that matches the rest of `task_8`.

## 3. Runs

| run | instance | shows |
|---|---|---|
| `signal_copy_faults` | 3 chunks, 4 blocks, every fault, late signals | a chunk has one holder, no block vanishes, a chunk keeps its block until it is written, refinement of the ordered copy |
| `signal_copy_prompt` | the same without faults, prompt signals | only blocks sent before the pid was stored can be missing; the cycle reaches the end of the file |
| `signal_copy_md5` | 2 chunks, 3 blocks | *violated*: success reported, a block missing |
| `signal_copy_hang` | 2 chunks, 2 blocks | *violated*: the program may wait for ever |
| `seminars` | all programs of the seminars, see below | the properties of each |
| `duplex_echo` | `sem_2` alone | *violated*: what is copied has never been sent to the child |
| `fifo_server` | 2 slots, 2 clients, kills, SIGTERM | slots come back, that of the server's own tag and the other |
| `fifo_server_full` | 1 slot, 2 clients, several files, one missing, kills, SIGTERM | the table is full, registrations are refused, and the slot and its descriptors are used again: data reach their own client, files in order, descriptors accounted for, clients that were served end |
| `fifo_server_hang` | 1 client, a file that exists | *violated*: the client hangs |
| `backup_daemon` | both modes, 3 files in 3 directories, 2 changes, 2 samples, one command or restart, SIGTERM, SIGKILL | diffs belong to their copies, no reported change is forgotten, what `stat()` remembers is saved, refinement of the version store; a program that runs on saves every reported change |
| `backup_restore` | 2 files, a daemon, restores | *violated*: a restore gives another version |
| `integral` | 3 servers on 3 hosts, one with its own port, 6 command lines, crashes, stops, datagrams lost and repeated | the tasks cut up region and points, the sum has each strip once and only strips of servers that were not ready are missing, no server is found twice, the client ends |

In `seminars`: `shm_run` copies 8 blocks with every fault; `mq_run` 9 blocks
through a queue of 2, with blocks like the end message early and among the last;
`mq_runs` 3 blocks, two runs, every fault and kills; `fifo_run` 4 blocks through a
FIFO of 2, two runs, every fault and kills; `duplex_pipe` all files of up to four
blocks with a full or a short one at the end, and three sets of inherited
descriptors; `shell` ten lines with bars in every position, three blocks of data,
a `fork()` that may fail; `monte_carlo` the numbers of threads 0, 1, 4, a negative
one and none at all, on up to five processors.

**Bounds.** The chunks of `SignalCopy` are used in turn, so three chunks and one
block more show the first reuse of a chunk, with an empty, a half full and a full
pipeline; the number of attempts is one the run can reach. In `ShmCopy` the
buffer changes hands at every block, and a longer file only repeats the cycle.
The queue of `MqCopy` and the FIFO of `FifoCopy` are shorter than the files, so
that the writer sleeps at a full one. In `DuplexPipe` two blocks are moved in a
round, and files of up to four show an odd and an even end after a complete round.
A pipeline of three commands has a first, a middle and a last one, and the pipes
hold less than is written. `FifoServer` has the two kinds of slots there are, slot
0 and another; the pipe takes one or two blocks, so that threads block in
`write()`; two clients are enough for the reuse of a slot and its descriptors.
`PERIOD` is 1 or 2 in place of 5, which only makes the periodic check more
frequent; the run `fifo_server_hang` uses the 5 of the code. In `BackupDaemon` a
second sample shows what becomes of the files of the first, and two changes are a
change before a sample and one during it; `MaxIncidents` bounds commands and
restarts together, so that a run has a command, or a second life. `Integral` has
as many servers as the list has places, one address more than that on a command
line, a number of points that the number of servers does not divide, and one that
is smaller; `MaxChanges` bounds the starts and failures of servers.

**Fairness.** Every process is given weak fairness: the kernel schedules each of
them, and a call that can return does return. No strong fairness is assumed. In
`FifoServer` one condition for all transfer threads and one per client suffice,
since each has finitely many steps; in `MonteCarlo` and `Integral` one for all
threads, since a thread that is left behind has finitely many steps too. In
`BackupDaemon` the program alone is fair, not its users. Kills, signals of the
user, starts and failures of servers carry no fairness. Faults are alternatives of
a call, so fairness never forces a call to fail, except a timeout that nothing
else can end. `ChangesRecorded` excepts a program that was stopped, and one that
has used up the samples the bound allows.

Where a run may stop (a failed child leaves its parent waiting, a program is
over) its configuration turns the deadlock check off and the liveness properties
say what must be reached instead.

## 4. What the violated runs show

1. `signal_copy_md5`: the child may send `SIG_PRODUCER` before the parent has
   stored the child's pid (`task_5/homework/src/main.c:145`); the block read for
   it cannot be handed over, and the run may still end with `PROD_END_SUCC`.
2. `signal_copy_hang`: the child tests `producer_ended` and then calls `pause()`
   (`main.c:132`); if the flag is set in between no signal will follow.
3. `duplex_echo`: the parent closes two ends of the pipes and then opens its
   files, which get the same numbers; `snd` and `rcv` (`duplex_pipe.c:23`) use
   these numbers, so the parent writes and reads its own files, and nothing goes
   through the child.
4. `fifo_server_hang`: the periodic check (`main_server.c:180`) takes the empty
   `rx` pipe of a client that has just been registered and has not opened it yet
   for a disconnected one; the client then sleeps in `open()`.
5. `backup_restore`: a restore applies the diff of exactly the sample asked for
   (`backup.c:481`); a file that changed in an earlier sample only is restored as
   its first copy.

Other defects are visible as exceptions inside properties that hold:

* `MqCutOnlyAtEofLike`: a data block like the end message (`mq_main.c:89`);
  `MqEachMessageOnce` says "sent before", not "of this run", since a run after a
  failed one finds that one's messages and its child in the queue (`mq_main.c:52`),
  and says nothing of what lies between the places that one child has written, since
  two children write the one file over each other (`mq_main.c:75`): the program may
  return 0 with a file that is torn, has holes or lacks blocks;
* `DuplexLosesOnlyShortEnd`: a short block at an even place is not copied;
* `NearlyAllDrawn`: with more threads than processors the threads in excess count
  nothing, nor does a thread that the kernel refuses its processor
  (`calculate.c:123`), but the divisor stays (`calculate.c:24`); the property says
  that nothing beyond the shares of the refused threads, and fewer points than there
  are threads, is missing;
* `DiffsFit`: only diffs made since the last start of the program. A new start
  replaces the copies and counts samples from 1, but the diffs of the earlier start
  stay on disk; if a file has not changed in the sample of that number, a restore
  applies the old diff to the new copy (`backup.c:513`). What `patch` makes of that
  is nothing (it refuses) or a mixture (`Mixed`), as when an old diff adds a line to
  a file with repeated lines;
* `OwnData`: a transfer thread of a killed client may write to the pipe of the
  client that was given the same descriptor (`server.c:225`), which may make that
  one give up early, and so on; `OwnData` and `FileInOrder` therefore suppose that
  no client was killed. `ServedClientEnds`
  excepts clients that ask for a missing file, which the server does not answer
  (`server.c:210`), and a server that sleeps in `open()` for a client that was
  killed before it was registered (`server.c:258`);
* `NothingForgotten` and `ChangesRecorded` speak of changes that inotify reports:
  a file made in a new directory before that is watched is not among them
  (`daemon.c:298`); `set_period` has no effect on the daemon, which reads the
  period once (`daemon.c:411`);
* `SumOfStrips`: with fewer points than servers the sum is not a number
  (`tcp_server.c:60`), and a failed strip is left out of a sum that is returned
  all the same; `ClientEnds`: a server that stops without closing the connection
  keeps the client in `read()` (`tcp_client.c:56`).

## 5. Proofs

The theorems hold for every value of the constants that the named assumptions
allow: `ConstantsAssumption` in `SignalCopy`, `ShmCopy`, `FifoServer`,
`BackupDaemon` and `Integral`, `FaultsAssumption` in `SignalCopy`, and
`SeminarsAssumption`; those about `OrderedCopy` state theirs, `Total \in Nat`,
themselves. `ShellReadsLine` also uses `LinesAssumption`: every line is one that
`strtok_r` can have cut (`IsLine`). The assumptions say of what kind a constant is and, but for the
smallest values, nothing about its size. Each invariant below that a run checks
is stated by a theorem of its own, `Spec => []Inv`, which follows from an
inductive invariant; preservation is proved with one lemma or step per action.

* `OrderedCopyProofs`: `OutputIsPrefix`, `OutputInOrder`. The two properties are
  not inductive by themselves: `NoneSkipped` adds that every block before a block
  of the output is settled. Every program that implements `OrderedCopy` has them.
* `SignalCopyProofs`: `TypeCorrect`, `ChunksExclusive`, `NoneVanishes`,
  `OutputOrdered`, `ChunkUntouched`, and `ImplementsOrderedCopy`. The inductive
  invariant `IInv` joins the type invariant, `OneHolder`, `NothingVanishes`,
  `PipelineOrder` and `OutputInOrder`: that the output is in order follows only
  from the order of the blocks still in the pipeline, and that order only from
  the fact that a chunk has one holder and keeps its block. The preservation is
  proved in four lemmas (`TypeStep`, `HolderStep`, `FlowStep`, `OrderStep`).
  `NoneMissing` is about a run in which signals are prompt, nothing fails and no
  block was sent too early (`Undisturbed`): then neither process leaves the cycle
  of signals before the last block (`Orderly`), and with `NothingVanishes` a run
  that has ended has copied the whole file.
* `CopyProofs`, first part: `BufferExclusive`, `ReturnsComplete` and
  `ImplementsOrderedCopy` of `ShmCopy`. The invariant says at each pair of
  positions what the semaphores are and how far the output lags behind the blocks
  read.
* `CopyProofs`, second part: `MessagesOnce`, `CutOnlyAtTheQueue` and
  `MqImplementsOrderedCopy` of `MqCopy`, and `SeminarsTyped`. For the runs that
  may be killed, `MqRunsInv` orders messages by run and block: the queue is sorted
  and comes after the messages that the children hold and after all that is in the
  file (`QueueInOrder`, `HeldInOrder`, `PlacesInOrder`); what a child has written
  lies in front of its offset, and the message it holds comes after that; no two
  children have the same message, in the file or in hand (`PairsInOrder`). That
  survives whatever `O_TRUNC` and the other child's offset do to the file, since a
  place that is overwritten, emptied or skipped only takes something away.
  `SeminarsTyped` is about the variables of `ShmCopy` and `MqCopy` only; the types
  that the proofs about the other programs need are parts of their invariants
  (`FifoInv` and so on). For the single run, `MqInv` says that output,
  held message and queue together are what has been sent, and that a child that
  has left early did so at a block like the end message.
* `SeminarsProofs`: `FifoComplete` and `FifoNameGone`, with `FifoInv`, of the same
  kind. `ShellClosesEnds` and `ShellReapsEachOnce`: which pipe ends the shell and
  its children have is a function of how far the loop has come; the theorems hold
  whatever commands the parser made. `ShellReadsLine` is about the parser itself:
  for lines of any length and any limits, the commands are those of the line, and
  a line is refused only if it is too long. `ReadSoFar` says what the parser's
  state is after any number of tokens: the commands that a bar has ended and the
  arguments since then, written one after the other, are what has been read, the
  number of commands is that of the bars, the last words are the arguments of the
  last command, and what has been read is not too long; or there is an error, and it
  is. `AddArgument`, `InitCommand` and with them `ParseToken` keep it (`ReadWord`,
  `ReadBar`, `ReadToken`; `TokenShape` says what tokens there are), and `ReadAll` is
  the induction over the line, through the fold of the community modules.
  `MonteCarloDrawsNearlyAll`, and
  `NoUpdateLost`: what the holder of the mutex has read is the counter, and the
  counter is the sum of the counts of the threads that have added theirs.
  `DuplexLosesOnlyEnd`: `DuplexDescriptors` says which number stands for what,
  namely that the parent's files have the numbers that `snd` and `rcv` use, for
  any inherited descriptors; `DuplexRounds` what is moved in one round.
* `FifoServerProofs`: `TypeCorrectness` and `DescriptorsAccounted`, with
  `DescriptorsInv`, where `SlotsHold` and `ThreadsHold` say that two holders never
  have the same number in the table open for each of them. `DataReachOwner` and
  `FilesArriveInOrder`: `TransferInv` is `NoneKilled => FlowInv`, and `FlowInv`
  says of each client, by its position, what its two pipes hold and which threads
  work for it; what is still to be sent by the one that is active continues what is
  in the pipe and has been received. It is inductive only because a killed client
  stays killed.
* `BackupDaemonProofs`: `TypeCorrectness` and `DiffsBelongToCopies`, with
  `StoreInv`, whose `SamplesInOrder` says that the diffs of this life are of past
  samples, or of files that the present one has already saved.
  `NoChangeForgotten` and `RememberedIsSaved`, with `SavedInv` (a change that was
  reported is in a diff or still in inotify's queue, the daemon's queue or the
  list of files to save), and `BackupKeepsVersions`, the refinement of
  `VersionStore`, suppose `NamesDistinct`: no two files have the same name in the
  backup directory. The code does not ensure it, since `backup.c:53-57` replaces
  every `/` by `_` and `d/x` and `d_x` become the same; without it one
  file overwrites the other's copies, and TLC refutes the three claims. The run's
  files have distinct names.
* `IntegralProofs`: `TypeCorrectness`, `EachFoundOnce`, `StripsCutUp`,
  `SumHasEachStrip`. `IInv` says how the list, the jobs and the threads grow
  together (`Stage`, `JobsAre`), that what a connection carries is its job's task
  and that task's answer, and that a connection which was closed without an answer
  is one of a server that was not ready (`Connections`), and that `total` has the
  results of the finished jobs (`Added`). That strips meet and that their points
  add up, for every number of servers, is arithmetic about `/` and `%` and a sum
  over the servers.
* `FoldTheorems` has lemmas that the others rest on, which say nothing about the
  programs: the community modules' fold over a finite domain is the sum
  `SumOf` (`SumIs`), and one more element adds its value (`SumOfOneMore`); their
  `FlattenSeq` is `Concat`, which appends one sequence more to what there is
  (`ConcatAppend`). The inductions, over the subsets of a finite set and over the
  numbers, are stated with a set in the place of an operator, which the provers
  can instantiate.

`MonteCarloDrawsNearlyAll` holds for any set of threads that the kernel refuses their
processors. `DiffsBelongToCopies` is about the diffs made since the last start of the
program, because for older ones it is false.

None of the programs of the seminars gets stuck: `ShmNeverStuck`, `MqNeverStuck`
(`CopyProofs`), `FifoNeverStuck`, `ShellNeverStuck`, `DuplexNeverStuck` and
`MonteCarloNeverStuck` (`SeminarsProofs`) say that in every state some process can
take a step, or the program has ended as `Ended` of its module says. They are what
`ProgramsEnd` needs besides fairness and a measure that falls. Since ENABLED is out
of the prover's reach, the guards of each process' actions are written out
(`ShellChildMoves` and so on); an error of `read` in the parent of `FifoCopy` does not
count as a step. The arguments differ:

* the two semaphores of `ShmCopy` are never both at zero outside a turn (`Turn`);
  when the parent and the child of `MqCopy` would both sleep, the queue would be
  empty and its message for the end sent, so that the child has received it;
* in a pipeline, the command behind one that waits at a full pipe also waits at a
  full pipe, since an end between two commands is open only in the process that
  uses it, and a command that has ended has none open (`NextWaitsToWrite`). So the
  last one could go on. Likewise the command before one that waits at an empty pipe
  waits at an empty pipe (`LastWaitsToRead`), and the first could go on. The shell,
  in `waitpid`, has printed fewer children than there are, so one is not reaped
  (`NotAllReaped`). The invariant for this is `ShellMore`; it rests on the fact that
  the parser makes a sequence of commands of every line, also of one with two bars in
  a token (`ParsedCommands`);
* in `DuplexPipe` the parent reads its own file where it seems to read the pipe,
  and when it waits nobody has the writing end of the child's pipe
  (`DuplexWriters`);
* in `MonteCarlo` the mutex has an owner, who is between `lock` and `unlock`.

What stays with TLC: the liveness properties (`CopyGoesOn`, `ProgramsEnd`,
`SlotsReclaimed`, `ServedClientEnds`, `ChangesRecorded`, `ClientEnds`), whose
proof needs ENABLED, which the prover does not handle. Everything else that a
passing run checks is also a theorem.

## 6. Not modelled

* The set-up of each program before it forks or enters its loop, when it fails:
  the program prints a message and returns. Failing `malloc`, `calloc`,
  `pthread_create` and `epoll_ctl`.
* Short writes and reads inside a block: the copying programs loop until a block
  is written, and a block is the unit of the models. In `Integral` one `read` or
  `write` moves a whole message.
* In `ShellPipeline`: lines of more than 1023 characters. The shell prints the
  k-th status it gets with the name of the k-th command, in whatever order
  children end; nothing is claimed about it.
* In `MonteCarlo`: where the points lie.
* In `SignalCopy`: what an access to shared memory does after `shmdt()`
  (`main.c:153`).
* In `FifoServer`: a registration line cut by the 1023-byte buffer
  (`server.c:336`); files that change while they are sent; what a client makes of
  the bytes of another client's block, beyond counting it (`C_Size`, `C_Data`).
* In `BackupDaemon`: the text of diffs and answers; names that coincide when `/`
  becomes `_` (no two of the run's do, and three theorems suppose it as
  `NamesDistinct`); paths that are cut; an overflowing inotify queue; the files a
  restore writes, which are new files of the directory; the interactive loop at
  the end of its input, where it spins (`daemon.c:501`).
* In `Integral`: the formulas; the same random seed in several threads; a port
  that is in use.
* Loggers, which no property depends on; the examples and lecture notes, which are
  not part of the programs; build files and scripts.

## 7. Plan

Every safety and action property that a passing run checks is proved. What is
left is a model of the files that a restore writes: they are new files of the
watched directory, and the daemon would sample its own restores.
