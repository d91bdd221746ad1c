----------------------------- MODULE SignalCopy -----------------------------
(***************************************************************************)
(* task_5/homework: a parent copies input.txt to output.txt with the help  *)
(* of a forked child.  The parent's handler of SIG_PRODUCER reads a block  *)
(* into the chunk of shared memory the signal names and hands the chunk to *)
(* the child with SIG_CONSUMER; the child's handler writes the chunk and   *)
(* hands it back with SIG_PRODUCER.  The main programs of both processes   *)
(* only start the cycle, pause, look at the end flags and clean up.        *)
(*                                                                         *)
(* A handler preempts the main program of its own process and runs         *)
(* concurrently with the other process.  Both signals are real-time        *)
(* signals: the kernel queues every one and delivers them in sending       *)
(* order.  A block of the file is its number, and a size is a number of    *)
(* blocks.                                                                 *)
(***************************************************************************)
EXTENDS Integers, Sequences, Functions

CONSTANTS
  NChunks,       \* CHUNKS
  FileBlocks,    \* file_size: the blocks input.txt had when stat() looked
  MaxAttempts,   \* MAX_ATTEMPTS
  Faults,        \* the system calls that may fail, see below
  Prompt         \* TRUE: a pending signal is delivered before the main
                 \* program of the target takes its next step.  FALSE: it
                 \* may arrive any number of steps later.

ASSUME ConstantsAssumption ==
  /\ NChunks \in Nat \ {0}
  /\ FileBlocks \in Nat \ {0}
  /\ MaxAttempts \in Nat
  /\ Prompt \in BOOLEAN

\* open: the child's open() fails.  read: read() returns -1.  short: read()
\* returns 0 although file_size says there is more.  write: write() returns -1.
\* queue: sigqueue() finds the limit of queued signals reached.
ASSUME FaultsAssumption == Faults \subseteq {"open", "read", "short", "write", "queue"}

Chunks == 0..(NChunks - 1)
NoPid  == 0        \* what the fresh segment holds in its pid field
Child  == 1        \* the process id fork() returned to the parent

NOT_ENDED     == "NOT_ENDED"
PROD_END_SUCC == "PROD_END_SUCC"
PROD_END_FAIL == "PROD_END_FAIL"
CONS_END_FAIL == "CONS_END_FAIL"

VARIABLES
  pid,             \* SharedData.pid, where producer_handler sends
  producer_ended, consumer_ended, bytes_read, attempts,    \* SharedData
  chunk,           \* chunk[c]: the block that chunk c holds
  prodQ, consQ,    \* pending SIG_PRODUCER at the parent, SIG_CONSUMER at the child
  prodIgn, consIgn,\* the signal's disposition is SIG_IGN
  ppc, cpc,        \* where the main programs of parent and child are
  queued,          \* the child's i: the initial signals it has sent
  ph, phc,         \* producer_handler: its next step, its chunk_num
  ch, chc,         \* consumer_handler: its next step, its chunk_num
  output,          \* output.txt
  unsent,          \* history: blocks whose sigqueue to the child failed
  dropped          \* history: blocks discarded after they were sent

shm      == <<pid, producer_ended, consumer_ended, bytes_read, attempts, chunk>>
signals  == <<prodQ, consQ, prodIgn, consIgn>>
mains    == <<ppc, cpc, queued>>
handlers == <<ph, phc, ch, chc>>
history  == <<unsent, dropped>>
vars == <<pid, producer_ended, consumer_ended, bytes_read, attempts, chunk,
          prodQ, consQ, prodIgn, consIgn, ppc, cpc, queued, ph, phc, ch, chc,
          output, unsent, dropped>>

ParentGone == ppc \in {"done", "crashed"}
ChildGone  == cpc \in {"exited", "crashed"}

\* The blocks that SIG_CONSUMER signals still pending stand for.
PendingBlocks == {chunk[c] : c \in Range(consQ)}

Init ==
  /\ pid = NoPid
  /\ producer_ended = NOT_ENDED /\ consumer_ended = NOT_ENDED
  /\ bytes_read = 0 /\ attempts = 0
  /\ chunk = [c \in Chunks |-> 0]
  /\ prodQ = <<>> /\ consQ = <<>>
  /\ prodIgn = FALSE /\ consIgn = FALSE
  /\ ppc = "store" /\ cpc = "open" /\ queued = 0
  /\ ph = "none" /\ phc = 0
  /\ ch = "none" /\ chc = 0
  /\ output = <<>> /\ unsent = {} /\ dropped = {}

-----------------------------------------------------------------------------
(* The parent's main program. *)

\* A handler runs to its end before the main program goes on.
ParentRuns == ph = "none" /\ (Prompt => prodQ = <<>>)

P_Step(from, to) ==
  /\ ParentRuns
  /\ ppc = from
  /\ ppc' = to

StorePid ==
  /\ P_Step("store", "check")
  /\ pid' = Child
  /\ UNCHANGED <<producer_ended, consumer_ended, bytes_read, attempts, chunk,
                 signals, cpc, queued, handlers, output, history>>

BothRunning == producer_ended = NOT_ENDED /\ consumer_ended = NOT_ENDED

P_Check ==
  /\ P_Step("check", IF BothRunning THEN "pause" ELSE "waitpid")
  /\ UNCHANGED <<shm, signals, cpc, queued, handlers, output, history>>

\* pause() begins; only the delivery of a signal ends it.
P_Pause ==
  /\ P_Step("pause", "paused")
  /\ UNCHANGED <<shm, signals, cpc, queued, handlers, output, history>>

P_Reap ==
  /\ ChildGone
  /\ P_Step("waitpid", "ended")
  /\ UNCHANGED <<shm, signals, cpc, queued, handlers, output, history>>

\* close(fd_in), shmdt and return, in this order; a handler may run between.
P_Leave ==
  /\ \/ P_Step("ended", "closed")
     \/ P_Step("closed", "detached")
     \/ P_Step("detached", "done")
  /\ UNCHANGED <<shm, signals, cpc, queued, handlers, output, history>>

(* The parent's handler. *)

\* pause() and waitpid() return when a handler returns: SA_RESTART is not set.
ProducerSignal ==
  /\ ph = "none" /\ prodQ # <<>> /\ ~ParentGone
  /\ prodQ' = Tail(prodQ)
  /\ IF ppc = "detached"
     THEN /\ ppc' = "crashed"     \* sh_data points at memory already unmapped
          /\ UNCHANGED <<ph, phc>>
     ELSE /\ ppc' = CASE ppc = "paused"  -> "check"
                      [] ppc = "waitpid" -> "ended"
                      [] OTHER           -> ppc
          /\ ph' = "read" /\ phc' = Head(prodQ)
  /\ UNCHANGED <<shm, consQ, prodIgn, consIgn, cpc, queued, ch, chc, output, history>>

P_Read ==
  /\ ph = "read" /\ ppc # "closed"
  /\ bytes_read < FileBlocks
  /\ chunk' = [chunk EXCEPT ![phc] = bytes_read + 1]
  /\ bytes_read' = bytes_read + 1
  /\ attempts' = attempts + 1
  /\ ph' = "send"
  /\ UNCHANGED <<pid, producer_ended, consumer_ended, signals, mains, phc, ch, chc,
                 output, history>>

P_ReadRetry ==
  /\ ph = "read" /\ ppc # "closed"
  /\ "short" \in Faults
  /\ bytes_read < FileBlocks
  /\ attempts + 1 < MaxAttempts - 1
  /\ attempts' = attempts + 1
  /\ UNCHANGED <<pid, producer_ended, consumer_ended, bytes_read, chunk, signals, mains,
                 handlers, output, history>>

P_ReadStop ==
  /\ ph = "read"
  /\ \/ bytes_read = FileBlocks
     \/ ppc = "closed"
     \/ "read" \in Faults
     \/ "short" \in Faults /\ attempts + 1 >= MaxAttempts - 1
  /\ attempts' = attempts + 1
  /\ producer_ended' = IF bytes_read = FileBlocks THEN PROD_END_SUCC ELSE PROD_END_FAIL
  /\ prodIgn' = TRUE /\ prodQ' = <<>>
  /\ ph' = "none"
  /\ UNCHANGED <<pid, consumer_ended, bytes_read, chunk, consQ, consIgn, mains, phc, ch, chc,
                 output, history>>

\* A signal sent to a process that ignores it, or to a zombie, is discarded.
P_Send ==
  /\ ph = "send" /\ ph' = "none"
  /\ pid # NoPid
  /\ IF consIgn \/ ChildGone
     THEN dropped' = dropped \cup {chunk[phc]} /\ consQ' = consQ
     ELSE consQ' = Append(consQ, phc) /\ UNCHANGED dropped
  /\ UNCHANGED <<shm, prodQ, prodIgn, consIgn, mains, phc, ch, chc, output, unsent>>

\* sigqueue() fails: no process 0, no room, or the child has been reaped.
P_SendFail ==
  /\ ph = "send" /\ ph' = "none"
  /\ \/ pid = NoPid
     \/ "queue" \in Faults
     \/ ChildGone /\ ppc \in {"ended", "closed"}
  /\ producer_ended' = PROD_END_FAIL
  /\ unsent' = unsent \cup {chunk[phc]}
  /\ UNCHANGED <<pid, consumer_ended, bytes_read, attempts, chunk, signals, mains, phc, ch, chc,
                 output, dropped>>

-----------------------------------------------------------------------------
(* The child's main program. *)

ChildRuns == ch = "none" /\ (Prompt => consQ = <<>>)

C_Step(from, to) ==
  /\ ChildRuns
  /\ cpc = from
  /\ cpc' = to

C_Open ==
  /\ C_Step("open", "queue")
  /\ UNCHANGED <<shm, signals, ppc, queued, handlers, output, history>>

\* Variants of the hand-back: twice, and naming the wrong chunk.
SendToParent_Twice(c) == prodQ' = IF prodIgn THEN prodQ ELSE prodQ \o <<c, c>>
SendToParent_Next(c)  == prodQ' = IF prodIgn THEN prodQ ELSE Append(prodQ, c + 1)

SendToParent(c) ==
  prodQ' = IF prodIgn \/ ParentGone THEN prodQ ELSE Append(prodQ, c)

C_Queue ==
  /\ C_Step("queue", IF queued + 1 < NChunks THEN "queue" ELSE "check")
  /\ SendToParent(queued)
  /\ queued' = queued + 1
  /\ UNCHANGED <<shm, consQ, prodIgn, consIgn, ppc, handlers, output, history>>

ChildWaits_UntilRead == bytes_read < FileBlocks     \* a variant: leaves too early

ChildWaits == producer_ended = NOT_ENDED

C_Check ==
  /\ C_Step("check", IF ChildWaits THEN "pause" ELSE "ended")
  /\ UNCHANGED <<shm, signals, ppc, queued, handlers, output, history>>

C_Pause ==
  /\ C_Step("pause", "paused")
  /\ UNCHANGED <<shm, signals, ppc, queued, handlers, output, history>>

\* close(fd_out), then shmdt; a handler may run between.
C_Leave ==
  /\ \/ C_Step("ended", "closed")
     \/ C_Step("closed", "detached")
  /\ UNCHANGED <<shm, signals, ppc, queued, handlers, output, history>>

\* exit(), at the end or because open() or an initial sigqueue() failed.  The
\* kernel drops the signals still pending.
C_Exit ==
  /\ \/ C_Step("detached", "exited")
     \/ "open" \in Faults /\ C_Step("open", "exited")
     \/ ("queue" \in Faults \/ ParentGone) /\ C_Step("queue", "exited")
  /\ consQ' = <<>>
  /\ dropped' = dropped \cup PendingBlocks
  /\ UNCHANGED <<shm, prodQ, prodIgn, consIgn, ppc, queued, handlers, output, unsent>>

(* The child's handler. *)

ConsumerSignal ==
  /\ ch = "none" /\ consQ # <<>> /\ ~ChildGone
  /\ IF cpc = "detached"
     THEN /\ cpc' = "crashed"     \* sh_data points at memory already unmapped
          /\ consQ' = <<>>
          /\ dropped' = dropped \cup PendingBlocks
          /\ UNCHANGED <<ch, chc>>
     ELSE /\ cpc' = IF cpc = "paused" THEN "check" ELSE cpc
          /\ consQ' = Tail(consQ)
          /\ ch' = "write" /\ chc' = Head(consQ)
          /\ UNCHANGED dropped
  /\ UNCHANGED <<shm, prodQ, prodIgn, consIgn, ppc, queued, ph, phc, output, unsent>>

C_Write ==
  /\ ch = "write" /\ cpc # "closed"
  /\ output' = Append(output, chunk[chc])
  /\ ch' = "send"
  /\ UNCHANGED <<shm, signals, mains, ph, phc, chc, history>>

C_WriteFail ==
  /\ ch = "write"
  /\ "write" \in Faults \/ cpc = "closed"
  /\ consumer_ended' = CONS_END_FAIL
  /\ consIgn' = TRUE /\ consQ' = <<>>
  /\ dropped' = dropped \cup PendingBlocks \cup {chunk[chc]}
  /\ ch' = "none"
  /\ UNCHANGED <<pid, producer_ended, bytes_read, attempts, chunk, prodQ, prodIgn, mains,
                 ph, phc, chc, output, unsent>>

C_Send ==
  /\ ch = "send" /\ ch' = "none"
  /\ SendToParent(chc)
  /\ UNCHANGED <<shm, consQ, prodIgn, consIgn, mains, ph, phc, chc, output, history>>

C_SendFail ==
  /\ ch = "send" /\ ch' = "none"
  /\ "queue" \in Faults \/ ParentGone
  /\ consumer_ended' = CONS_END_FAIL
  /\ UNCHANGED <<pid, producer_ended, bytes_read, attempts, chunk, signals, mains, ph, phc, chc,
                 output, history>>

-----------------------------------------------------------------------------
ParentMain    == StorePid \/ P_Check \/ P_Pause \/ P_Reap \/ P_Leave
ParentHandler == ProducerSignal \/ P_Read \/ P_ReadRetry \/ P_ReadStop \/ P_Send \/ P_SendFail
ChildMain     == C_Open \/ C_Queue \/ C_Check \/ C_Pause \/ C_Leave \/ C_Exit
ChildHandler  == ConsumerSignal \/ C_Write \/ C_WriteFail \/ C_Send \/ C_SendFail

Next == ParentMain \/ ParentHandler \/ ChildMain \/ ChildHandler

Spec == Init /\ [][Next]_vars

\* The kernel runs both processes and delivers every pending signal.
Fairness ==
  /\ WF_vars(ParentMain) /\ WF_vars(ParentHandler)
  /\ WF_vars(ChildMain)  /\ WF_vars(ChildHandler)

FairSpec == Spec /\ Fairness

-----------------------------------------------------------------------------
(* Properties. *)

Blocks == 1..FileBlocks

\* The shared memory, the queues and the program counters keep their types;
\* a chunk number is always one that the handlers' range check accepts.
TypeOK ==
  /\ pid \in {NoPid, Child}
  /\ producer_ended \in {NOT_ENDED, PROD_END_SUCC, PROD_END_FAIL}
  /\ consumer_ended \in {NOT_ENDED, CONS_END_FAIL}
  /\ bytes_read \in 0..FileBlocks /\ attempts \in Nat
  /\ chunk \in [Chunks -> 0..FileBlocks]
  /\ prodQ \in Seq(Chunks) /\ consQ \in Seq(Chunks)
  /\ prodIgn \in BOOLEAN /\ consIgn \in BOOLEAN
  /\ ppc \in {"store", "check", "pause", "paused", "waitpid", "ended", "closed",
              "detached", "done", "crashed"}
  /\ cpc \in {"open", "queue", "check", "pause", "paused", "ended", "closed",
              "detached", "exited", "crashed"}
  /\ queued \in 0..NChunks /\ (cpc \in {"open", "queue"} => queued < NChunks)
  /\ ph \in {"none", "read", "send"} /\ phc \in Chunks
  /\ ch \in {"none", "write", "send"} /\ chc \in Chunks
  /\ output \in Seq(Blocks)
  /\ unsent \subseteq Blocks /\ dropped \subseteq Blocks

\* Where a chunk can be: announced by a pending signal, in the hands of a
\* handler, or not yet announced by the child's loop.
ParentHolds == IF ph = "none" THEN {} ELSE {phc}
ChildHolds  == IF ch = "none" THEN {} ELSE {chc}
Unannounced == queued..(NChunks - 1)

\* The cycle of signals is the only lock the chunks have: no chunk is in two
\* places, whatever fails and whichever process ends first, so the handlers of
\* the two processes never use one chunk at the same time.
OneHolder ==
  /\ IsInjective(prodQ) /\ IsInjective(consQ)
  /\ Range(prodQ) \cap (Range(consQ) \cup ParentHolds \cup ChildHolds \cup Unannounced) = {}
  /\ Range(consQ) \cap (ParentHolds \cup ChildHolds \cup Unannounced) = {}
  /\ ParentHolds \cap (ChildHolds \cup Unannounced) = {}
  /\ ChildHolds \cap Unannounced = {}

Lost     == unsent \cup dropped
Settled  == Range(output) \cup Lost
Unsent   == IF ph = "send"  THEN {chunk[phc]} ELSE {}
Writing  == IF ch = "write" THEN {chunk[chc]} ELSE {}
InFlight == Unsent \cup PendingBlocks \cup Writing

\* Every block that was read is in the output, known to be lost, or in the
\* chunk that one signal or one handler still stands for.
NothingVanishes == 1..bytes_read = Settled \cup InFlight

\* write() happens in the order of read(): no reordering, no repetition.
OutputInOrder == \A i, j \in 1..Len(output) : i < j => output[i] < output[j]

\* The blocks on their way to the output file, from the oldest to the newest
\* those of consumer_handler, of the pending signals and of producer_handler,
\* are in the order of the input file and all after the blocks written.
PipelineOrder ==
  /\ \A i, j \in 1..Len(consQ) : i < j => chunk[consQ[i]] < chunk[consQ[j]]
  /\ ph = "send"  => chunk[phc] = bytes_read /\ \A b \in PendingBlocks : b < bytes_read
  /\ ch = "write" => \A b \in PendingBlocks \cup Unsent : chunk[chc] < b
  /\ \A a \in Range(output) : \A b \in InFlight : a < b
  /\ Lost \cap (Range(output) \cup InFlight) = {}

\* producer_handler never reads into a chunk whose block the child has been
\* told to write and has not written yet.
UntouchedUntilWritten ==
  [][\A c \in Range(consQ) \cup (IF ch = "write" THEN {chc} ELSE {}) : chunk'[c] = chunk[c]]_vars

\* When system calls do not fail and signals arrive promptly, the only blocks
\* that can go missing are those sent before the parent had stored the child's
\* pid: otherwise the child leaves only after the whole file is written, and
\* no block reaches it after it has closed fd_out.
CompleteUnlessUnsent ==
  Prompt /\ Faults = {} /\ unsent = {} =>
    /\ dropped = {}
    /\ ChildGone => Range(output) = Blocks

\* The copy is, with Lost for the lost blocks, an ordered copy.
Copy == INSTANCE OrderedCopy WITH Total <- FileBlocks, taken <- bytes_read, lost <- Lost
CopiesInOrder == Copy!Spec

\* While both main programs only pause, the handlers carry the copy on to the
\* end of the file, and no block that has been read stays in shared memory.
CopyGoesOn ==
  /\ <>(producer_ended # NOT_ENDED)
  /\ \A b \in Blocks : bytes_read >= b ~> b \in Settled

\* run.sh compares the two files after every run and expects them equal: a
\* run in which the producer ended with success and no process is left has
\* copied the file.
SuccessMeansCopied ==
  producer_ended = PROD_END_SUCC /\ ParentGone /\ ChildGone => Range(output) = Blocks

\* run.sh waits for the program, which therefore has to end.
ProgramEnds == <>(ParentGone /\ ChildGone)

=============================================================================
