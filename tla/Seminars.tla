------------------------------ MODULE Seminars ------------------------------
(***************************************************************************)
(* The programs of the seminars, which have nothing to do with each other: *)
(* one of them is started.  ShmCopy has its own variables; the others share*)
(* what they have in common.                                               *)
(***************************************************************************)
EXTENDS ShmCopy, FiniteSets

CONSTANTS
  Programs,                                              \* which programs may be started
  MqBlocks, MqEofLike, QueueSize, MqRunsBlocks, MqFaults,\* MqCopy, one run and several
  FifoBlocks, Capacity, FifoFaults, NRuns,               \* FifoCopy
  Files, Full, Inherited, DuplexFaults,                  \* DuplexPipe
  Lines, MAX_ARGS, MAX_COMMANDS, Blocks, ShellFaults,    \* ShellPipeline
  Entered, TOTAL_POINTS, MaxCores                        \* MonteCarlo

ASSUME SeminarsAssumption ==
  /\ Programs \subseteq {"shm_run", "mq_run", "mq_runs", "fifo_run", "duplex_pipe", "shell", "monte_carlo"}
  /\ {MqBlocks, MqRunsBlocks, FifoBlocks, Blocks} \subseteq Nat
  /\ {QueueSize, Capacity, NRuns, Full, MaxCores, TOTAL_POINTS} \subseteq Nat \ {0}
  /\ {MAX_ARGS, MAX_COMMANDS} \subseteq Nat \ {0, 1}
  /\ MqEofLike \subseteq 1..MqBlocks /\ MqFaults \subseteq {"open", "read", "send", "write", "kill"}
  /\ FifoFaults \subseteq {"open", "read", "write", "kill"}
  /\ Files \subseteq Seq(1..Full) /\ \A f \in Files : \A i \in 1..Len(f) - 1 : f[i] = Full
  /\ \A fds \in Inherited : IsFiniteSet(fds) /\ fds \subseteq Nat
  /\ Entered \subseteq Int
  /\ DuplexFaults \subseteq {"open", "create"} /\ ShellFaults \subseteq {"fork"}

VARIABLES
  program,                                               \* the program that runs
  pp, cp, blocks, out, run,                              \* MqCopy, FifoCopy, DuplexPipe
  queue, eof_flag, msg, offset,                          \* MqCopy
  named, fifo, ok,                                       \* FifoCopy
  size, fd_direct, fd_back, files, pipes, data, echoed,  \* DuplexPipe
  line, spc, cmds, children, open, content, held, printed,          \* ShellPipeline
  mpc, num_threads_sqrt, num_cores, threads, mutex, counter         \* MonteCarlo

copy       == <<pp, cp, blocks, out, run>>
mq         == <<queue, eof_flag, msg, offset>>
fifo_vars  == <<named, fifo, ok>>
duplex     == <<size, fd_direct, fd_back, files, pipes, data, echoed>>
shell      == <<line, spc, cmds, children, open, content, held, printed>>
montecarlo == <<mpc, num_threads_sqrt, num_cores, threads, mutex, counter>>
all        == <<vars, program, copy, mq, fifo_vars, duplex, shell, montecarlo>>

Mq == INSTANCE MqCopy WITH
  FileBlocks <- MqBlocks, EofLike <- MqEofLike, NRuns <- 1, Faults <- {},
  ppc <- pp, cpc <- cp, bytes_read <- blocks, output <- out

MqRuns == INSTANCE MqCopy WITH
  FileBlocks <- MqRunsBlocks, EofLike <- MqEofLike \cap 1..MqRunsBlocks, Faults <- MqFaults,
  ppc <- pp, cpc <- cp, bytes_read <- blocks, output <- out

Fifo == INSTANCE FifoCopy WITH
  FileBlocks <- FifoBlocks, Faults <- FifoFaults, ppc <- pp, cpc <- cp, bytes_read <- blocks, output <- out

Duplex == INSTANCE DuplexPipe WITH
  Faults <- DuplexFaults, ppc <- pp, cpc <- cp, bytes_read <- blocks, output <- out

Shell == INSTANCE ShellPipeline WITH Faults <- ShellFaults
ASSUME LinesAssumption == \A tokens \in Lines : Shell!IsLine(tokens)

MonteCarlo == INSTANCE MonteCarlo

Unused(v) == v = <<>>

SharedUnused == Unused(pp) /\ Unused(cp) /\ Unused(blocks) /\ Unused(out)
MqUnused     == Unused(queue) /\ Unused(eof_flag) /\ Unused(msg) /\ Unused(offset)
FifoUnused   == Unused(named) /\ Unused(fifo) /\ Unused(ok)
DuplexUnused ==
  Unused(size) /\ Unused(fd_direct) /\ Unused(fd_back) /\ Unused(files) /\ Unused(pipes) /\ Unused(data) /\ Unused(echoed)
ShellUnused  ==
  /\ Unused(line) /\ Unused(spc) /\ Unused(cmds) /\ Unused(children)
  /\ Unused(open) /\ Unused(content) /\ Unused(held) /\ Unused(printed)
MonteCarloUnused ==
  Unused(mpc) /\ Unused(num_threads_sqrt) /\ Unused(num_cores) /\ Unused(threads) /\ Unused(mutex) /\ Unused(counter)

Runs(p) == program = p

InitAll ==
  /\ program \in Programs
  /\ Init /\ (eof => Runs("shm_run"))
  /\ CASE Runs("mq_run")   -> Mq!Init
       [] Runs("mq_runs")  -> MqRuns!Init
       [] Runs("fifo_run") -> Fifo!Init
       [] Runs("duplex_pipe") -> Duplex!Init /\ Unused(run)
       [] OTHER -> SharedUnused /\ Unused(run)
  /\ IF Runs("mq_run") \/ Runs("mq_runs") THEN TRUE ELSE MqUnused
  /\ IF Runs("fifo_run") THEN TRUE ELSE FifoUnused
  /\ IF Runs("duplex_pipe") THEN TRUE ELSE DuplexUnused
  /\ IF Runs("shell") THEN Shell!Init ELSE ShellUnused
  /\ IF Runs("monte_carlo") THEN MonteCarlo!Init ELSE MonteCarloUnused

ShmStep    == Runs("shm_run") /\ Next /\ UNCHANGED <<program, copy, mq, fifo_vars, duplex, shell, montecarlo>>
MqStep     == Runs("mq_run") /\ Mq!Next /\ UNCHANGED <<program, vars, fifo_vars, duplex, shell, montecarlo>>
MqRunsStep == Runs("mq_runs") /\ MqRuns!Next /\ UNCHANGED <<program, vars, fifo_vars, duplex, shell, montecarlo>>
FifoStep   == Runs("fifo_run") /\ Fifo!Next /\ UNCHANGED <<program, vars, mq, duplex, shell, montecarlo>>
DuplexStep == Runs("duplex_pipe") /\ Duplex!Next /\ UNCHANGED <<program, vars, run, mq, fifo_vars, shell, montecarlo>>
ShellStep  == Runs("shell") /\ Shell!Next /\ UNCHANGED <<program, vars, copy, mq, fifo_vars, duplex, montecarlo>>
MonteCarloStep ==
  Runs("monte_carlo") /\ MonteCarlo!Next /\ UNCHANGED <<program, vars, copy, mq, fifo_vars, duplex, shell>>

NextAll == ShmStep \/ MqStep \/ MqRunsStep \/ FifoStep \/ DuplexStep \/ ShellStep \/ MonteCarloStep

\* The kernel runs every process, and every thread.
SeminarsSpec ==
  /\ InitAll /\ [][NextAll]_all
  /\ WF_all(ShmStep /\ ParentProc) /\ WF_all(ShmStep /\ ChildProc)
  /\ WF_all(MqStep /\ Mq!Parent) /\ WF_all(MqStep /\ Mq!Child(1))
  /\ WF_all(FifoStep /\ Fifo!ParentProc) /\ WF_all(FifoStep /\ Fifo!ChildProc)
  /\ WF_all(DuplexStep /\ Duplex!ParentProc) /\ WF_all(DuplexStep /\ Duplex!ChildProc)
  /\ WF_all(ShellStep /\ Shell!ShellProc)
  /\ \A i \in 1..MAX_COMMANDS : WF_all(ShellStep /\ i \in DOMAIN children /\ Shell!ChildProc(i))
  /\ WF_all(MonteCarloStep)

-----------------------------------------------------------------------------
(* The properties of each program, as its module states and explains them. *)

\* Values the variables of the copies with a buffer or a queue may have; the queue
\* is never longer than the kernel allows.
SeminarsTypeOK == TypeOK /\ (Runs("mq_run") => Mq!TypeOK) /\ (Runs("mq_runs") => MqRuns!TypeOK)

\* MqCopy: the output stops early only in front of a block that looks like the end.
MqCutOnlyAtEofLike == Runs("mq_run") => Mq!CutOnlyAtEofLike
\* MqCopy: each message goes to one child once, and what a child has written is in
\* the order of sending, also where the children of several runs write one file.
MqEachMessageOnce == Runs("mq_runs") => MqRuns!EachMessageOnce
\* FifoCopy: a parent that returns without an error has a complete copy.
FifoCompleteWhenDone == Runs("fifo_run") => Fifo!CompleteWhenDone
\* FifoCopy: runs that succeed remove the name of the FIFO.
FifoNameRemoved == Runs("fifo_run") => Fifo!NameRemoved
\* DuplexPipe: the copy lacks at most a short block at the end.
DuplexLosesOnlyShortEnd == Runs("duplex_pipe") => Duplex!LosesOnlyShortEnd
\* DuplexPipe: what is copied has been sent to the child and back.
DuplexEchoed == Runs("duplex_pipe") => Duplex!Echoed
\* ShellPipeline: the commands that run are those of the line.
ShellCommandsAsWritten == Runs("shell") => Shell!CommandsAsWritten
\* ShellPipeline: no process keeps a pipe end that would keep another one waiting.
ShellEndsClosed == Runs("shell") => Shell!EndsClosed
\* ShellPipeline: each child is reaped once.
ShellEachReapedOnce == Runs("shell") => Shell!EachReapedOnce
\* MonteCarlo: no update of the shared counter is lost.
CounterIsSum == Runs("monte_carlo") => MonteCarlo!CounterIsSum
\* MonteCarlo: with enough processors, beyond the shares of the threads that the
\* kernel refuses theirs, fewer points are missing than there are threads.
NearlyAllDrawn == Runs("monte_carlo") => MonteCarlo!NearlyAllDrawn

\* All processes and threads of a program end, and the only ones that wait for
\* ever are parents whose child has failed or has taken a block for the end: each
\* module says under Ended, or BothEnd, which these are.
ProgramsEnd ==
  /\ Runs("shm_run") => BothEnd
  /\ <>[](Runs("mq_run") => Mq!Ended)
  /\ <>[](Runs("fifo_run") => Fifo!Ended)
  /\ <>[](Runs("duplex_pipe") => Duplex!Ended)
  /\ <>[](Runs("shell") => Shell!Ended)
  /\ <>[](Runs("monte_carlo") => MonteCarlo!Ended)

\* MqCopy: one run is an ordered copy that loses nothing in between.
Of(p, v, other) == IF Runs(p) THEN v ELSE other
MqWritten == [k \in 1..Len(out) \div Mq!MQ_SIZE |-> out[k * Mq!MQ_SIZE].msg.block]
MqOrdered == INSTANCE OrderedCopy WITH
  Total <- MqBlocks, taken <- Of("mq_run", blocks, 0), output <- Of("mq_run", MqWritten, <<>>), lost <- {}
MqCopiesInOrder == MqOrdered!Spec

=============================================================================
