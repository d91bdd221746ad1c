------------------------------ MODULE ShmCopy ------------------------------
(***************************************************************************)
(* sem_3/homework, shm_main.c: a parent reads input.txt block by block     *)
(* into a buffer of shared memory, its child writes the buffer to          *)
(* output.txt.  Two System V semaphores pass the buffer to and fro:        *)
(* semaphore 0 says that it is empty, semaphore 1 that it is full.  The    *)
(* parent does not wait for the child: once the end of the file is posted  *)
(* it removes the segment and the semaphores and returns.                  *)
(***************************************************************************)
EXTENDS Integers, Sequences, Functions

CONSTANTS
  FileBlocks,    \* input.txt in units of SHM_SIZE bytes
  Faults         \* the child's "open" and "write" and the parent's "read" may fail

ASSUME ConstantsAssumption ==
  /\ FileBlocks \in Nat
  /\ Faults \subseteq {"open", "read", "write"}

VARIABLES
  sem,         \* the values of semaphores 0 and 1
  removed,     \* the semaphores have been removed
  buffer, eof, \* SharedData: the block in the buffer, the end flag
  ppc, cpc,    \* where parent and child are
  curr_size,   \* the parent's last read(): 1 a block, 0 end of file, -1 error
  bytes_read,  \* how many blocks the parent has read
  output       \* output.txt

shd  == <<buffer, eof>>
vars == <<sem, removed, buffer, eof, ppc, cpc, curr_size, bytes_read, output>>

\* The segment may be one that a killed run left behind: its flag is arbitrary.
Init ==
  /\ sem = [i \in {0, 1} |-> 1 - i]
  /\ removed = FALSE
  /\ buffer = 0 /\ eof \in BOOLEAN
  /\ ppc = "wait" /\ cpc = "open"
  /\ curr_size = 1
  /\ bytes_read = 0
  /\ output = <<>>

\* A variant: the caller does not wait.
sem_wait_Unguarded(id) == ~removed /\ sem' = [sem EXCEPT ![id] = @ - 1]

sem_wait(id) == ~removed /\ sem[id] > 0 /\ sem' = [sem EXCEPT ![id] = @ - 1]

sem_signal(id) == ~removed /\ sem' = [sem EXCEPT ![id] = @ + 1]

-----------------------------------------------------------------------------
(* The parent. *)

P_Wait ==
  /\ ppc = "wait" /\ ppc' = "read"
  /\ sem_wait(0)
  /\ UNCHANGED <<removed, shd, cpc, curr_size, bytes_read, output>>

P_Read ==
  /\ ppc = "read" /\ ppc' = "signal"
  /\ \/ /\ bytes_read < FileBlocks
        /\ bytes_read' = bytes_read + 1
        /\ buffer' = bytes_read + 1 /\ eof' = FALSE
        /\ curr_size' = 1
     \/ /\ bytes_read = FileBlocks
        /\ eof' = TRUE
        /\ curr_size' = 0
        /\ UNCHANGED <<bytes_read, buffer>>
  /\ UNCHANGED <<sem, removed, cpc, output>>

P_ReadError ==
  /\ ppc = "read" /\ ppc' = "leave"
  /\ "read" \in Faults
  /\ curr_size' = -1
  /\ sem_signal(0)
  /\ UNCHANGED <<removed, shd, cpc, bytes_read, output>>

P_Signal ==
  /\ ppc = "signal" /\ ppc' = IF curr_size = 1 THEN "wait" ELSE "leave"
  /\ sem_signal(1)
  /\ UNCHANGED <<removed, shd, cpc, curr_size, bytes_read, output>>

P_Leave ==
  /\ ppc = "leave" /\ ppc' = "done"
  /\ removed' = TRUE
  /\ UNCHANGED <<sem, shd, cpc, curr_size, bytes_read, output>>

(* The child. *)

C_Open ==
  /\ cpc = "open"
  /\ \/ cpc' = "wait"
     \/ "open" \in Faults /\ cpc' = "failed"
  /\ UNCHANGED <<sem, removed, shd, ppc, curr_size, bytes_read, output>>

C_Wait ==
  /\ cpc = "wait" /\ cpc' = "test"
  /\ sem_wait(1)
  /\ UNCHANGED <<removed, shd, ppc, curr_size, bytes_read, output>>

\* semop() fails once the semaphores are removed, also for a sleeper.
C_SemError ==
  /\ cpc \in {"wait", "signal"} /\ cpc' = "failed"
  /\ removed
  /\ UNCHANGED <<sem, removed, shd, ppc, curr_size, bytes_read, output>>

C_Test ==
  /\ cpc = "test"
  /\ IF eof
     THEN /\ cpc' = "exited"
          /\ sem_signal(0) \/ (removed /\ sem' = sem)
     ELSE cpc' = "write" /\ sem' = sem
  /\ UNCHANGED <<removed, shd, ppc, curr_size, bytes_read, output>>

C_Write ==
  /\ cpc = "write" /\ cpc' = "signal"
  /\ output' = Append(output, buffer)
  /\ UNCHANGED <<sem, removed, shd, ppc, curr_size, bytes_read>>

C_WriteError ==
  /\ cpc = "write" /\ cpc' = "failed"
  /\ "write" \in Faults
  /\ UNCHANGED <<sem, removed, shd, ppc, curr_size, bytes_read, output>>

C_Signal ==
  /\ cpc = "signal" /\ cpc' = "wait"
  /\ sem_signal(0)
  /\ UNCHANGED <<removed, shd, ppc, curr_size, bytes_read, output>>

-----------------------------------------------------------------------------
ParentProc == P_Wait \/ P_Read \/ P_ReadError \/ P_Signal \/ P_Leave
ChildProc  == C_Open \/ C_Wait \/ C_SemError \/ C_Test \/ C_Write \/ C_WriteError \/ C_Signal

Next == ParentProc \/ ChildProc

Spec == Init /\ [][Next]_vars

\* The kernel runs both processes.
FairSpec == Spec /\ WF_vars(ParentProc) /\ WF_vars(ChildProc)

-----------------------------------------------------------------------------
(* Properties. *)

TypeOK ==
  /\ sem \in [{0, 1} -> Nat]
  /\ removed \in BOOLEAN
  /\ buffer \in 0..FileBlocks /\ eof \in BOOLEAN
  /\ ppc \in {"wait", "read", "signal", "leave", "done"}
  /\ cpc \in {"open", "wait", "test", "write", "signal", "exited", "failed"}
  /\ curr_size \in {-1, 0, 1}
  /\ bytes_read \in 0..FileBlocks
  /\ output \in Seq(0..FileBlocks)

ParentInside == ppc \in {"read", "signal"}
ChildInside  == cpc \in {"test", "write", "signal"}

\* Between its semaphore operations a process has the buffer and its flag to
\* itself, and a free buffer is announced by one semaphore only.
Exclusive ==
  /\ ~(ParentInside /\ ChildInside)
  /\ sem[0] + sem[1] <= IF ParentInside \/ ChildInside THEN 0 ELSE 1

\* run.sh compares the files as soon as the parent has returned, and the
\* parent returns without waiting for the child: still, a parent that has seen
\* the end of the file returns only after the child has written all of it.
CompleteAtReturn ==
  ppc = "done" /\ curr_size = 0 => output = [i \in 1..FileBlocks |-> i]

\* The copy is an ordered copy that loses nothing.
Copy == INSTANCE OrderedCopy WITH Total <- FileBlocks, taken <- bytes_read, lost <- {}
CopiesInOrder == Copy!Spec

\* The child always ends, also when the parent cannot read the file, since
\* removing the semaphores ends it; and the parent ends unless the child failed.
BothEnd ==
  /\ <>(cpc \in {"exited", "failed"})
  /\ <>(ppc = "done") \/ <>(cpc = "failed")

=============================================================================
