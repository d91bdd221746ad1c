------------------------------- MODULE MqCopy -------------------------------
(***************************************************************************)
(* sem_3/homework, mq_main.c: a parent sends the blocks of input.txt       *)
(* through a System V message queue, its child receives them and writes    *)
(* output.txt.  The end of the file is a message that consists of the      *)
(* letters EOF, together with a flag in shared memory that the parent sets *)
(* before it sends that message.  Queue and flag outlive the program when  *)
(* it fails or is killed, and the next run of the program finds them.  So  *)
(* may the child: it then goes on writing the file that the child of the   *)
(* next run empties and writes too, each at an offset of its own.          *)
(***************************************************************************)
EXTENDS Integers, Sequences

CONSTANTS
  FileBlocks,   \* input.txt in units of MQ_SIZE bytes
  QueueSize,    \* how many such blocks the kernel keeps in the queue
  EofLike,      \* the blocks of the file that begin with the letters EOF
  NRuns,        \* how often the program is started
  Faults        \* subset of {"open", "read", "send", "write", "kill"}: the calls that may
                \* fail, "kill" for a run whose two processes are killed (Ctrl-C)

Runs    == 1..NRuns
EOF_MSG == 0
Message == [run : Runs, block : 0..FileBlocks]    \* sent by which run, what

\* The places of the output file are of the size of the end message, its three
\* letters: MQ_SIZE of them make a block.  by, the child that wrote a place, is not
\* to be seen in the file and is there for the properties; nobody wrote a hole.
MQ_SIZE   == 2
Length(m) == IF m.block = EOF_MSG THEN 1 ELSE MQ_SIZE
Place     == [msg : Message, part : 1..MQ_SIZE, by : Runs]
Hole      == [msg |-> [run |-> 1, block |-> EOF_MSG], part |-> 0, by |-> 0]

VARIABLES
  run,          \* the run in progress
  queue,        \* the message queue
  eof_flag,     \* the flag in shared memory
  ppc,          \* where the parent of the run is
  bytes_read,   \* the number of blocks the parent has read
  cpc,          \* where the child of each run is
  msg,          \* the message that child holds
  offset,       \* where in the output file that child writes next
  output        \* the output file, one for all runs

vars == <<run, queue, eof_flag, ppc, bytes_read, cpc, msg, offset, output>>
parent == <<run, ppc, bytes_read>>
file == <<offset, output>>
children == <<cpc, msg, file>>

Init ==
  /\ run = 1
  /\ queue = <<>>
  /\ eof_flag = FALSE
  /\ ppc = "read" /\ bytes_read = 0
  /\ cpc = [r \in Runs |-> IF r = 1 THEN "open" ELSE "unborn"]
  /\ msg = [r \in Runs |-> [run |-> 1, block |-> EOF_MSG]]
  /\ offset = [r \in Runs |-> 0]
  /\ output = <<>>

-----------------------------------------------------------------------------
(* The parent. *)

P_Read ==
  /\ ppc = "read"
  /\ bytes_read < FileBlocks
  /\ bytes_read' = bytes_read + 1
  /\ ppc' = "send"
  /\ UNCHANGED <<run, queue, eof_flag, children>>

P_ReadEnd ==
  /\ ppc = "read"
  /\ bytes_read = FileBlocks
  /\ eof_flag' = TRUE
  /\ ppc' = "sendEOF"
  /\ UNCHANGED <<run, queue, bytes_read, children>>

\* The parent returns at once: no message, no removal, no wait().
P_ReadError ==
  /\ ppc = "read"
  /\ "read" \in Faults
  /\ ppc' = "failed"
  /\ UNCHANGED <<run, queue, eof_flag, bytes_read, children>>

msgsnd_Unbounded(block) == queue' = Append(queue, [run |-> run, block |-> block])   \* a variant

\* msgsnd() sleeps while the queue is full.
msgsnd(block) ==
  /\ Len(queue) < QueueSize
  /\ queue' = Append(queue, [run |-> run, block |-> block])

P_Send ==
  /\ ppc = "send" /\ ppc' = "read"
  /\ msgsnd(bytes_read)
  /\ UNCHANGED <<run, eof_flag, bytes_read, children>>

\* The loop ends, and what follows treats it as the end of the file.
P_SendError ==
  /\ ppc = "send" /\ ppc' = "sendEOF"
  /\ "send" \in Faults
  /\ eof_flag' = TRUE
  /\ UNCHANGED <<run, queue, bytes_read, children>>

P_SendEOF ==
  /\ ppc = "sendEOF" /\ ppc' = "wait"
  /\ \/ msgsnd(EOF_MSG)
     \/ "send" \in Faults /\ queue' = queue
  /\ UNCHANGED <<run, eof_flag, bytes_read, children>>

\* wait() for the child of this run, then removal of the flag and the queue.
P_Wait ==
  /\ ppc = "wait" /\ ppc' = "done"
  /\ cpc[run] = "exited"
  /\ queue' = <<>>
  /\ UNCHANGED <<run, eof_flag, bytes_read, children>>

Kill ==
  /\ "kill" \in Faults
  /\ ppc \notin {"done", "failed"}
  /\ ppc' = "failed"
  /\ cpc' = [cpc EXCEPT ![run] = "exited"]
  /\ UNCHANGED <<run, queue, eof_flag, bytes_read, msg, file>>

\* The program is started again after a run that has left its queue behind.
Restart ==
  /\ ppc = "failed" /\ run < NRuns
  /\ run' = run + 1
  /\ eof_flag' = FALSE
  /\ ppc' = "read" /\ bytes_read' = 0
  /\ cpc' = [cpc EXCEPT ![run + 1] = "open"]
  /\ UNCHANGED <<queue, msg, file>>

-----------------------------------------------------------------------------
(* The child of run r. *)

C_Step(r, from, to) == cpc[r] = from /\ cpc' = [cpc EXCEPT ![r] = to]

\* O_TRUNC empties the file, whoever else writes it.
C_Open(r) ==
  /\ C_Step(r, "open", "receive")
  /\ output' = <<>> /\ offset' = [offset EXCEPT ![r] = 0]
  /\ UNCHANGED <<parent, queue, eof_flag, msg>>

C_OpenError(r) ==
  /\ C_Step(r, "open", "exited")
  /\ "open" \in Faults
  /\ UNCHANGED <<parent, queue, eof_flag, msg, file>>

C_Receive_Peeks(r) ==      \* a variant: leaves the message in the queue
  /\ C_Step(r, "receive", "test")
  /\ queue # <<>>
  /\ msg' = [msg EXCEPT ![r] = Head(queue)]
  /\ UNCHANGED <<parent, queue, eof_flag, file>>

C_Receive(r) ==
  /\ C_Step(r, "receive", "test")
  /\ queue # <<>>
  /\ msg' = [msg EXCEPT ![r] = Head(queue)]
  /\ queue' = Tail(queue)
  /\ UNCHANGED <<parent, eof_flag, file>>

\* msgrcv() fails once the queue has been removed.
C_ReceiveError(r) ==
  /\ C_Step(r, "receive", "exited")
  /\ ppc = "done"
  /\ UNCHANGED <<parent, queue, eof_flag, msg, file>>

IsEof_FlagOnly(m) == eof_flag   \* a variant

IsEof(m) == eof_flag /\ m.block \in EofLike \cup {EOF_MSG}

C_Test(r) ==
  /\ C_Step(r, "test", IF IsEof(msg[r]) THEN "exited" ELSE "write")
  /\ UNCHANGED <<parent, queue, eof_flag, msg, file>>

\* The loop around write(): the first n places of the message replace what is in
\* the file at the child's offset; if the file has become shorter, a hole precedes them.
Put(r, n) ==
  LET end == offset[r] + n IN
  /\ offset' = [offset EXCEPT ![r] = end]
  /\ output' = [i \in 1..(IF end > Len(output) THEN end ELSE Len(output)) |->
       IF offset[r] < i /\ i <= end THEN [msg |-> msg[r], part |-> i - offset[r], by |-> r]
       ELSE IF i <= Len(output) THEN output[i] ELSE Hole]

C_Write(r) ==
  /\ C_Step(r, "write", "receive")
  /\ Put(r, Length(msg[r]))
  /\ UNCHANGED <<parent, queue, eof_flag, msg>>

C_WriteError(r) ==
  /\ C_Step(r, "write", "exited")
  /\ "write" \in Faults
  /\ UNCHANGED file \/ \E n \in 1..Length(msg[r]) - 1 : Put(r, n)
  /\ UNCHANGED <<parent, queue, eof_flag, msg>>

-----------------------------------------------------------------------------
Parent == P_Read \/ P_ReadEnd \/ P_ReadError \/ P_Send \/ P_SendError \/ P_SendEOF \/ P_Wait
Child(r) ==
  \/ C_Open(r) \/ C_OpenError(r) \/ C_Receive(r) \/ C_ReceiveError(r)
  \/ C_Test(r) \/ C_Write(r) \/ C_WriteError(r)

Next == Parent \/ Kill \/ Restart \/ \E r \in Runs : Child(r)

-----------------------------------------------------------------------------
(* Properties. *)

TypeOK ==
  /\ run \in Runs
  /\ queue \in Seq(Message) /\ Len(queue) <= QueueSize
  /\ eof_flag \in BOOLEAN
  /\ ppc \in {"read", "send", "sendEOF", "wait", "done", "failed"}
  /\ bytes_read \in 0..FileBlocks
  /\ cpc \in [Runs -> {"unborn", "open", "receive", "test", "write", "exited"}]
  /\ msg \in [Runs -> Message]
  /\ offset \in [Runs -> Nat]
  /\ output \in Seq(Place \cup {Hole})

\* The k-th block of the file, whole.
IsBlock(k, block) ==
  \A p \in 1..MQ_SIZE :
    LET place == output[(k - 1) * MQ_SIZE + p] IN place.msg.block = block /\ place.part = p

\* When a single run is over the output is the input, or it stops in front of
\* a block that looks like the end message and was still in the queue, or with
\* the child, when the parent set the flag: at most QueueSize + 1 blocks.
CutOnlyAtEofLike ==
  ppc = "done" /\ run = 1 /\ Faults = {} =>
    \E n \in 0..FileBlocks :
      /\ Len(output) = n * MQ_SIZE /\ \A k \in 1..n : IsBlock(k, k)
      /\ n < FileBlocks => n + 1 \in EofLike /\ FileBlocks - n <= QueueSize + 1

Before(m, n) ==      \* m is sent before n
  \/ m.run < n.run
  \/ /\ m.run = n.run
     /\ m.block # EOF_MSG
     /\ n.block = EOF_MSG \/ m.block < n.block

Precedes(p, q) == Before(p.msg, q.msg) \/ (p.msg = q.msg /\ p.part < q.part)

\* The child of a failed run lives on, takes messages from the queue of the next
\* run and writes the file of that run: places are overwritten, messages torn and
\* holes left.  But each message has gone to one child only, and only once: what is
\* in the file is in the queue no more, no two children have written parts of the
\* same message, and the places that one child has written, wherever others lie
\* between them, are in the order of sending, no part of a message twice.
EachMessageOnce ==
  \A i \in 1..Len(output) : output[i] # Hole =>
    /\ \A k \in 1..Len(queue) : Before(output[i].msg, queue[k])
    /\ \A j \in 1..Len(output) : output[j] # Hole =>
         IF output[j].by = output[i].by THEN i < j => Precedes(output[i], output[j])
         ELSE output[i].msg # output[j].msg

\* If no call fails the parent of a single run returns, or it sleeps for ever in
\* msgsnd(): the queue is full and the child has gone at a block like EOF.
Ended == ppc = "done" \/ (cpc[1] = "exited" /\ Len(queue) = QueueSize)

=============================================================================
