----------------------------- MODULE DuplexPipe -----------------------------
(***************************************************************************)
(* sem_2/homework: a parent and its child with a pipe for each direction.  *)
(* The parent reads parent.txt block by block, "sends" each block,         *)
(* "receives" it again and writes it to child.txt; the child sends back    *)
(* what it receives.  Both use the same two functions: rcv reads           *)
(* fd_direct[0] and snd writes fd_back[1].  In the parent these two have   *)
(* just been closed, and open() has given their numbers to the two files.  *)
(*                                                                         *)
(* A file is a sequence of lengths, a block its place in this sequence.    *)
(***************************************************************************)
EXTENDS Integers, Sequences, FiniteSetsExt, Functions

CONSTANTS
  Files,         \* contents of parent.txt, as sequences of lengths
  Full,          \* MAX_BUF_SIZE; only the last block may be shorter
  Inherited,     \* sets of descriptors that the program may start with
  Faults         \* subset of {"open", "create"}: parent.txt, child.txt

VARIABLES
  size,                      \* the lengths of the blocks of parent.txt
  fd_direct, fd_back,        \* DuplexPipe: the numbers of the descriptors
  files,                     \* the descriptors of each process: number |-> what it is
  pipes,                     \* the content of each pipe
  bytes_read,                \* blocks of parent.txt that have been read
  data,                      \* the block in the data of the parent, 0 for none
  ppc, cpc,                  \* where parent and child are
  output,                    \* child.txt
  echoed                     \* the blocks that the child has sent back

vars == <<size, fd_direct, fd_back, files, pipes, bytes_read, data, ppc, cpc, output, echoed>>
duplex == <<size, fd_direct, fd_back>>

\* The next descriptor that open() or pipe() returns.
LowestFd(t) == Min(0..Cardinality(DOMAIN t) \ DOMAIN t)

With(t, what) == LET new == LowestFd(t) IN [fd \in DOMAIN t \cup {new} |-> IF fd = new THEN what ELSE t[fd]]
Without(t, S) == [fd \in DOMAIN t \ S |-> t[fd]]

\* CreateDuplexPipe() and fork().
Init ==
  /\ size \in Files
  /\ \E open \in Inherited :
       LET t1 == [fd \in open |-> "other"]
           t2 == With(t1, "direct out")   t3 == With(t2, "direct in")
           t4 == With(t3, "back out")     t5 == With(t4, "back in")
       IN /\ fd_direct = <<LowestFd(t1), LowestFd(t2)>>
          /\ fd_back   = <<LowestFd(t3), LowestFd(t4)>>
          /\ files = [p \in {"parent", "child"} |-> t5]
  /\ pipes = [direct |-> <<>>, back |-> <<>>]
  /\ bytes_read = 0 /\ data = 0
  /\ ppc = "close" /\ cpc = "close"
  /\ output = <<>> /\ echoed = {}

-----------------------------------------------------------------------------
(* The operations of the structure, by process p. *)

CloseParentPipes == {fd_direct[1], fd_back[2]}

CloseChildPipes == {fd_direct[2], fd_back[1]}

CloseAllPipes == {fd_direct[1], fd_direct[2], fd_back[1], fd_back[2]}

Object(p, fd) == IF fd \in DOMAIN files[p] THEN files[p][fd] ELSE "closed"

NoWriter == \A p \in DOMAIN files : "direct in" \notin Range(files[p])

\* What ReadDuplex() may return to p: a block, the end (0), or an error (-1).  It
\* sleeps at an empty pipe that somebody can still write to.
ReadDuplex(p) ==
  LET o == Object(p, fd_direct[1]) IN
  IF o = "input" THEN {IF bytes_read < Len(size) THEN bytes_read + 1 ELSE 0}
  ELSE IF o # "direct out" THEN {-1}
  ELSE IF pipes.direct # <<>> THEN {Head(pipes.direct)}
  ELSE {0 : x \in {n \in {0} : NoWriter}}

Taken(p, got) ==      \* what this leaves in the pipes
  IF got > 0 /\ Object(p, fd_direct[1]) = "direct out" THEN [pipes EXCEPT !.direct = Tail(@)] ELSE pipes

\* WriteDuplex() by p: what is then in the pipes.
WriteDuplex(p, block, before) ==
  IF Object(p, fd_back[2]) = "back in" THEN [before EXCEPT !.back = Append(@, block)] ELSE before

Writes(p) == Object(p, fd_back[2]) \in {"output", "back in"}

-----------------------------------------------------------------------------
(* Run() in the parent. *)

P_Close ==
  /\ ppc = "close" /\ ppc' = "open"
  /\ files' = [files EXCEPT !["parent"] = Without(@, CloseParentPipes)]
  /\ UNCHANGED <<duplex, pipes, bytes_read, data, cpc, output, echoed>>

\* A file that cannot be opened: DestroyDuplexPipe() and return, without waitpid().
P_Open ==
  /\ ppc = "open"
  /\ \/ /\ ppc' = "read"
        /\ files' = [files EXCEPT !["parent"] = With(With(@, "input"), "output")]
     \/ /\ Faults \cap {"open", "create"} # {} /\ ppc' = "failed"
        /\ files' = [files EXCEPT !["parent"] = Without(@, CloseAllPipes)]
  /\ UNCHANGED <<duplex, pipes, bytes_read, data, cpc, output, echoed>>

P_Read ==
  /\ ppc = "read"
  /\ IF bytes_read < Len(size)
     THEN bytes_read' = bytes_read + 1 /\ data' = bytes_read' /\ ppc' = "send"
     ELSE ppc' = "end" /\ UNCHANGED <<bytes_read, data>>
  /\ UNCHANGED <<duplex, files, pipes, cpc, output, echoed>>

P_Send ==
  /\ ppc = "send" /\ ppc' = IF Writes("parent") THEN "receive" ELSE "end"
  /\ output' = IF Object("parent", fd_back[2]) = "output" THEN Append(output, data) ELSE output
  /\ pipes' = WriteDuplex("parent", data, pipes)
  /\ UNCHANGED <<duplex, files, bytes_read, data, cpc, echoed>>

Length(b) == IF b > 0 THEN size[b] ELSE b

\* What is received must have the length of what was sent.
P_Receive ==
  /\ ppc = "receive"
  /\ \E got \in ReadDuplex("parent") :
       /\ ppc' = IF Length(got) = Length(data) THEN "write" ELSE "end"
       /\ data' = IF got > 0 THEN got ELSE data
       /\ bytes_read' = IF Object("parent", fd_direct[1]) = "input" /\ got > 0 THEN got ELSE bytes_read
       /\ pipes' = Taken("parent", got)
  /\ UNCHANGED <<duplex, files, cpc, output, echoed>>

P_Write_Nothing ==      \* a variant: leaves the block to snd()
  /\ ppc = "write" /\ ppc' = "read"
  /\ UNCHANGED <<duplex, files, pipes, bytes_read, data, cpc, output, echoed>>

P_Write ==
  /\ ppc = "write" /\ ppc' = "read"
  /\ output' = Append(output, data)
  /\ UNCHANGED <<duplex, files, pipes, bytes_read, data, cpc, echoed>>

P_CloseAll ==
  /\ ppc = "end" /\ ppc' = "wait"
  /\ files' = [files EXCEPT !["parent"] = Without(@, CloseAllPipes)]
  /\ UNCHANGED <<duplex, pipes, bytes_read, data, cpc, output, echoed>>

P_Wait ==
  /\ ppc = "wait" /\ cpc = "exited" /\ ppc' = "done"
  /\ UNCHANGED <<duplex, files, pipes, bytes_read, data, cpc, output, echoed>>

-----------------------------------------------------------------------------
(* Run() in the child. *)

C_Close ==
  /\ cpc = "close" /\ cpc' = "receive"
  /\ files' = [files EXCEPT !["child"] = Without(@, CloseChildPipes)]
  /\ UNCHANGED <<duplex, pipes, bytes_read, data, ppc, output, echoed>>

\* A round of the loop: what is received is sent back; at the end everything is
\* closed.
C_Echo ==
  /\ cpc = "receive"
  /\ \E got \in ReadDuplex("child") :
       IF got > 0
       THEN /\ pipes' = WriteDuplex("child", got, Taken("child", got))
            /\ echoed' = echoed \cup {got}
            /\ UNCHANGED <<files, cpc>>
       ELSE /\ cpc' = "exited"
            /\ files' = [files EXCEPT !["child"] = Without(@, CloseAllPipes)]
            /\ UNCHANGED <<pipes, echoed>>
  /\ UNCHANGED <<duplex, bytes_read, data, ppc, output>>

-----------------------------------------------------------------------------
ParentProc == P_Close \/ P_Open \/ P_Read \/ P_Send \/ P_Receive \/ P_Write \/ P_CloseAll \/ P_Wait
ChildProc  == C_Close \/ C_Echo

Next == ParentProc \/ ChildProc

-----------------------------------------------------------------------------
(* Properties. *)

\* The copy is complete all the same, since each round of the loop moves one block
\* with snd() and, if it has the same length, a second one; only the last block
\* is lost if it is shorter and has an even place.
LosesOnlyShortEnd ==
  /\ output = [i \in 1..Len(output) |-> i]
  /\ ppc \in {"wait", "done"} =>
       LET n == Len(size) IN
       Len(output) = IF n > 0 /\ n % 2 = 0 /\ size[n] < Full THEN n - 1 ELSE n

\* Both processes end: the child sees the end of its pipe, because the only
\* descriptors for writing to it are closed.
Ended == ppc \in {"done", "failed"} /\ cpc = "exited"

\* The echo test: the child has sent back what is in child.txt.
Echoed == \A i \in DOMAIN output : output[i] \in echoed

=============================================================================
