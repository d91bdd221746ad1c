------------------------------ MODULE FifoCopy ------------------------------
(***************************************************************************)
(* sem_3/homework, fifo_main.c: a parent writes input.txt into a FIFO, its *)
(* child reads the FIFO and writes output.txt.  open() of a FIFO sleeps    *)
(* until the other process opens it too.  The name of the FIFO outlives a  *)
(* run that does not remove it.                                            *)
(***************************************************************************)
EXTENDS Integers, Sequences

CONSTANTS
  FileBlocks,    \* input.txt in units of BUF_SIZE bytes
  Capacity,      \* how many of them the FIFO holds
  NRuns,         \* how often the program is started
  Faults         \* subset of {"open", "read", "write", "kill"}

VARIABLES
  run,           \* the run in progress
  named,         \* the FIFO has its name
  fifo,          \* its content
  ppc, cpc,      \* where the parent of the run is, and the last child
  bytes_read,    \* blocks the parent has read
  output,        \* output.txt
  ok             \* no run has failed or been killed so far

vars == <<run, named, fifo, ppc, cpc, bytes_read, output, ok>>

Init ==
  /\ run = 1 /\ named = FALSE /\ fifo = <<>>
  /\ ppc = "mknod" /\ cpc = "unborn"
  /\ bytes_read = 0 /\ output = <<>> /\ ok = TRUE

\* A name that is left over makes the run fail.
P_Mknod ==
  /\ ppc = "mknod"
  /\ IF named THEN ppc' = "failed" /\ UNCHANGED <<named, cpc>>
     ELSE ppc' = "open" /\ named' = TRUE /\ cpc' = "create"
  /\ fifo' = IF named THEN fifo ELSE <<>>
  /\ UNCHANGED <<run, bytes_read, output, ok>>

\* open() returns once the child has come to its own open().
P_Open ==
  /\ ppc = "open" /\ ppc' = "copy"
  /\ cpc \notin {"create", "failed"}
  /\ UNCHANGED <<run, named, fifo, cpc, bytes_read, output, ok>>

P_Copy_Overflows ==      \* a variant: goes on when the FIFO is full
  /\ ppc = "copy" /\ bytes_read < FileBlocks /\ cpc # "failed"
  /\ bytes_read' = bytes_read + 1
  /\ fifo' = IF Len(fifo) < Capacity THEN Append(fifo, bytes_read') ELSE fifo
  /\ UNCHANGED <<run, named, ppc, cpc, output, ok>>

\* A block is read, and written as soon as there is room for it.
P_Copy ==
  /\ ppc = "copy" /\ bytes_read < FileBlocks
  /\ cpc # "failed" /\ Len(fifo) < Capacity
  /\ bytes_read' = bytes_read + 1
  /\ fifo' = Append(fifo, bytes_read')
  /\ UNCHANGED <<run, named, ppc, cpc, output, ok>>

\* Nobody can read any more: SIGPIPE.
P_Broken ==
  /\ ppc = "copy" /\ bytes_read < FileBlocks /\ cpc = "failed"
  /\ ppc' = "failed"
  /\ UNCHANGED <<run, named, fifo, cpc, bytes_read, output, ok>>

\* The parent returns without wait() and unlink(); the child goes on.
P_ReadError ==
  /\ "read" \in Faults /\ ppc = "copy"
  /\ ppc' = "failed" /\ ok' = FALSE
  /\ UNCHANGED <<run, named, fifo, cpc, bytes_read, output>>

P_End ==
  /\ ppc = "copy" /\ bytes_read = FileBlocks /\ ppc' = "wait"
  /\ UNCHANGED <<run, named, fifo, cpc, bytes_read, output, ok>>

P_Wait_Leaves ==      \* a variant: leaves the name to the child
  /\ ppc = "wait" /\ cpc \in {"exited", "failed"} /\ ppc' = "done"
  /\ UNCHANGED <<run, named, fifo, cpc, bytes_read, output, ok>>

\* wait(); the status of the child is not looked at.
P_Wait ==
  /\ ppc = "wait" /\ cpc \in {"exited", "failed"}
  /\ ppc' = "done" /\ named' = FALSE
  /\ UNCHANGED <<run, fifo, cpc, bytes_read, output, ok>>

-----------------------------------------------------------------------------
C_Create ==
  /\ cpc = "create"
  /\ \/ cpc' = "read" /\ output' = <<>> /\ ok' = ok
     \/ "open" \in Faults /\ cpc' = "failed" /\ ok' = FALSE /\ UNCHANGED output
  /\ UNCHANGED <<run, named, fifo, ppc, bytes_read>>

C_Copy ==
  /\ cpc = "read" /\ fifo # <<>>
  /\ fifo' = Tail(fifo)
  /\ \/ output' = Append(output, Head(fifo)) /\ UNCHANGED <<cpc, ok>>
     \/ "write" \in Faults /\ cpc' = "failed" /\ ok' = FALSE /\ UNCHANGED output
  /\ UNCHANGED <<run, named, ppc, bytes_read>>

WriterGone_NoClose == ppc \in {"mknod", "done", "failed"}      \* a variant: close() is missing

\* The parent has closed the FIFO, or it has ended.
WriterGone == ppc \notin {"open", "copy"}

C_End ==
  /\ cpc = "read" /\ fifo = <<>> /\ WriterGone
  /\ cpc' = "exited" /\ named' = FALSE
  /\ UNCHANGED <<run, fifo, ppc, bytes_read, output, ok>>

-----------------------------------------------------------------------------
\* Ctrl-C.
Kill ==
  /\ "kill" \in Faults /\ ppc \in {"open", "copy", "wait"}
  /\ ppc' = "failed" /\ cpc' = "failed" /\ ok' = FALSE
  /\ UNCHANGED <<run, named, fifo, bytes_read, output>>

\* The program is started again, be the child of the last run gone or not.
Restart ==
  /\ ppc \in {"done", "failed"} /\ run < NRuns
  /\ run' = run + 1 /\ ppc' = "mknod" /\ bytes_read' = 0
  /\ UNCHANGED <<named, fifo, cpc, output, ok>>

ParentProc == P_Mknod \/ P_Open \/ P_Copy \/ P_Broken \/ P_ReadError \/ P_End \/ P_Wait
ChildProc  == C_Create \/ C_Copy \/ C_End

Next == ParentProc \/ ChildProc \/ Kill \/ Restart

-----------------------------------------------------------------------------
(* Properties. *)

\* A parent that returns without an error has a complete copy if its child has
\* not failed; its output is always a prefix of the input.
CompleteWhenDone ==
  /\ output = [i \in 1..Len(output) |-> i]
  /\ ppc = "done" /\ cpc = "exited" => Len(output) = FileBlocks

\* A run leaves the name behind only if it fails or is killed: one that follows
\* successful runs never finds it, whichever of the two processes ends first.
NameRemoved ==
  /\ ppc = "done" => ~named
  /\ ok => ppc # "failed"

\* Both processes end, unless the child fails before it opens the FIFO: then the
\* parent sleeps in open().
Ended ==
  /\ ppc \in {"done", "failed"} \/ (ppc = "open" /\ cpc = "failed")
  /\ cpc \in {"unborn", "exited", "failed"}

=============================================================================
