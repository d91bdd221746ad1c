----------------------------- MODULE CopyProofs -----------------------------
(* Proofs about ShmCopy and MqCopy as parts of Seminars: a file of any length,  *)
(* a queue of any size, any number of runs and any set of faults.               *)
EXTENDS Seminars, TLAPS

-----------------------------------------------------------------------------
(* ShmCopy. *)

\* The buffer is free or with a process that has nothing left to write from it.
Free ==
  \/ sem[0] = 1
  \/ ppc = "read"
  \/ curr_size = 0
  \/ cpc = "signal"

\* The buffer holds a block that the child has not written yet.
Filled ==
  \/ ppc = "signal" /\ curr_size = 1
  \/ sem[1] = 1 /\ curr_size = 1
  \/ cpc = "test" /\ curr_size = 1
  \/ cpc = "write"

\* What semaphores and flag mean for the data.
Data ==
  /\ \A i \in 1..Len(output) : output[i] = i
  /\ Len(output) <= bytes_read
  /\ Free => Len(output) = bytes_read
  /\ Filled => Len(output) + 1 = bytes_read /\ buffer = bytes_read
  /\ cpc = "write" => curr_size = 1
  /\ ppc = "signal" \/ sem[1] = 1 \/ ChildInside => (eof <=> curr_size = 0)
  /\ curr_size = -1 => ppc \in {"leave", "done"} /\ sem[1] = 0 /\ ~ChildInside
  /\ curr_size = 0 => ppc \in {"signal", "leave", "done"} /\ bytes_read = FileBlocks
  /\ ppc \in {"leave", "done"} => curr_size # 1

\* Outside of both processes one of the semaphores announces the buffer, and it is
\* the end of the file after which the child exits.
Turn ==
  /\ ~ParentInside /\ cpc \in {"open", "wait"} => sem[0] + sem[1] = 1
  /\ cpc = "exited" => curr_size = 0
  /\ removed <=> ppc = "done"

IInv == TypeOK /\ Exclusive /\ Data /\ Turn

\* At the start the one slot of the segment is free.
LEMMA InitInvariant == Init => IInv
  BY ConstantsAssumption
     DEF Init, IInv, TypeOK, Exclusive, Data, Turn, Free, Filled, ParentInside, ChildInside

\* A write extends the output by the block in the buffer.
LEMMA OutputExtended ==
  ASSUME NEW S, NEW s \in Seq(S), NEW b \in S
  PROVE  /\ Append(s, b) \in Seq(S) /\ Len(s) \in Nat /\ Len(Append(s, b)) = Len(s) + 1
         /\ \A i \in 1..Len(s) : Append(s, b)[i] = s[i]
         /\ Append(s, b)[Len(s) + 1] = b
  OBVIOUS

\* Every step of the two processes keeps the invariant.
LEMMA NextStep == IInv /\ [Next]_vars => IInv'
<1> SUFFICES ASSUME IInv, [Next]_vars PROVE IInv'
  OBVIOUS
<1> USE ConstantsAssumption
    DEF IInv, TypeOK, Exclusive, Data, Turn, Free, Filled, ParentInside, ChildInside
<1>1. CASE P_Wait
  BY <1>1 DEF P_Wait, sem_wait, shd
<1>2. CASE P_Read
  <2>1. /\ ppc = "read" /\ ppc' = "signal" /\ UNCHANGED <<sem, removed, cpc, output>>
        /\ sem[0] = 0 /\ sem[1] = 0 /\ ~ChildInside /\ Len(output) = bytes_read
    BY <1>2 DEF P_Read
  <2>2. CASE /\ bytes_read < FileBlocks
             /\ bytes_read' = bytes_read + 1 /\ buffer' = bytes_read + 1
             /\ eof' = FALSE /\ curr_size' = 1
    <3>1. TypeOK'
      <4>1. bytes_read' \in 0..FileBlocks /\ buffer' \in 0..FileBlocks
        BY <2>2
      <4>2. QED
        BY <2>1, <2>2, <4>1
    <3>2. ~Free' /\ ~ChildInside'
      BY <2>1, <2>2
    <3>3. Data'
      BY <2>1, <2>2, <3>2
    <3>4. Turn'
      BY <2>1, <2>2
    <3>5. QED
      BY <2>1, <2>2, <3>1, <3>3, <3>4
  <2>3. CASE /\ bytes_read = FileBlocks
             /\ eof' = TRUE /\ curr_size' = 0 /\ UNCHANGED <<bytes_read, buffer>>
    BY <2>1, <2>3
  <2>4. QED
    BY <1>2, <2>2, <2>3 DEF P_Read
<1>3. CASE P_ReadError
  BY <1>3 DEF P_ReadError, sem_signal, shd
<1>4. CASE P_Signal
  BY <1>4 DEF P_Signal, sem_signal, shd
<1>5. CASE P_Leave
  BY <1>5 DEF P_Leave, shd
<1>6. CASE C_Open
  BY <1>6 DEF C_Open, shd
<1>7. CASE C_Wait
  BY <1>7 DEF C_Wait, sem_wait, shd
<1>8. CASE C_SemError
  BY <1>8 DEF C_SemError, shd
<1>9. CASE C_Test
  BY <1>9 DEF C_Test, sem_signal, shd
<1>10. CASE C_Write
  BY <1>10, OutputExtended DEF C_Write, shd
<1>11. CASE C_WriteError
  BY <1>11 DEF C_WriteError, shd
<1>12. CASE C_Signal
  BY <1>12 DEF C_Signal, sem_signal, shd
<1>13. CASE UNCHANGED vars
  BY <1>13 DEF vars, shd
<1>14. QED
  BY <1>1, <1>2, <1>3, <1>4, <1>5, <1>6, <1>7, <1>8, <1>9, <1>10, <1>11, <1>12, <1>13
     DEF Next, ParentProc, ChildProc

-----------------------------------------------------------------------------
(* Theorems. *)

\* The inductive invariant holds in every reachable state.
THEOREM Invariance == Spec => []IInv
  BY InitInvariant, NextStep, PTL DEF Spec

\* Two binary semaphores used crosswise exclude parent and child from the
\* buffer and from its end flag.
THEOREM BufferExclusive == Spec => []Exclusive
<1>1. IInv => Exclusive
  BY DEF IInv
<1>2. QED
  BY Invariance, <1>1, PTL

\* When the parent has returned after the end of the file, the copy is complete,
\* although the parent never waits for the child.
THEOREM ReturnsComplete == Spec => []CompleteAtReturn
<1>1. IInv => CompleteAtReturn
  <2> SUFFICES ASSUME IInv, curr_size = 0 PROVE output = [i \in 1..FileBlocks |-> i]
    BY DEF CompleteAtReturn
  <2>1. Len(output) = FileBlocks /\ output \in Seq(0..FileBlocks)
    BY DEF IInv, TypeOK, Data, Free
  <2>2. \A i \in 1..FileBlocks : output[i] = i
    BY <2>1 DEF IInv, Data
  <2>3. QED
    BY <2>1, <2>2
<1>2. QED
  BY Invariance, <1>1, PTL

\* What the parent of ShmCopy can do, the guards of its steps, and the child.
ShmParentMoves ==
  \/ ppc = "wait" /\ ~removed /\ sem[0] > 0
  \/ ppc = "read" /\ bytes_read <= FileBlocks
  \/ ppc = "signal" /\ ~removed
  \/ ppc = "leave"
ShmChildMoves ==
  \/ cpc \in {"open", "test", "write"}
  \/ cpc = "wait" /\ ~removed /\ sem[1] > 0
  \/ cpc = "signal" /\ ~removed
  \/ cpc \in {"wait", "signal"} /\ removed

\* Parent and child are never both asleep at their semaphores: as long as one of
\* them can go on, or the parent has returned and the child ended, all is well, and
\* the one state in which nothing moves and the parent sleeps is that of a child
\* that has failed.
ShmNoDeadlock ==
  \/ ShmParentMoves \/ ShmChildMoves
  \/ cpc \in {"exited", "failed"} /\ ppc = "done"
  \/ cpc = "failed" /\ ppc = "wait" /\ sem[0] = 0

\* Whatever file and faults: parent and child of ShmCopy do not wait for one another at
\* the two semaphores.
THEOREM ShmNeverStuck == Spec => []ShmNoDeadlock
<1>1. IInv => ShmNoDeadlock
  <2> SUFFICES ASSUME IInv, ~ShmParentMoves, ~ShmChildMoves
               PROVE  \/ cpc \in {"exited", "failed"} /\ ppc = "done"
                      \/ cpc = "failed" /\ ppc = "wait" /\ sem[0] = 0
    BY DEF ShmNoDeadlock
  <2> USE ConstantsAssumption DEF IInv, TypeOK, Turn, ShmParentMoves, ShmChildMoves
  <2>1. ppc = "done" \/ (ppc = "wait" /\ sem[0] = 0)
    OBVIOUS
  <2>2. cpc \in {"exited", "failed"} \/ (cpc = "wait" /\ ~removed /\ sem[1] = 0)
    OBVIOUS
  <2>3. ~(ppc = "wait" /\ cpc = "wait")
    BY <2>1, <2>2 DEF ParentInside
  <2>4. ~(ppc = "wait" /\ cpc = "exited")
    BY DEF Data
  <2>5. QED
    BY <2>1, <2>2, <2>3, <2>4
<1>2. QED
  BY Invariance, <1>1, PTL

\* Passing one buffer under two semaphores implements the ordered copy, and it
\* loses nothing.
THEOREM ImplementsOrderedCopy == Spec => CopiesInOrder
<1>1. Init => Copy!Init
  BY DEF Init, Copy!Init
<1>2. IInv /\ [Next]_vars => [Copy!Next]_(Copy!vars)
  <2> SUFFICES ASSUME IInv, [Next]_vars PROVE [Copy!Next]_(Copy!vars)
    OBVIOUS
  <2> USE DEF Copy!vars
  <2>1. CASE C_Write
    <3>1. /\ output' = Append(output, bytes_read) /\ bytes_read' = bytes_read
          /\ bytes_read = Len(output) + 1 /\ bytes_read \in Nat
          /\ \A i \in 1..Len(output) : output[i] = i
      BY <2>1 DEF C_Write, IInv, TypeOK, Data, Filled
    <3>2. Copy!Settled = 1..(bytes_read - 1)
      <4>1. DOMAIN output = 1..Len(output) /\ Len(output) = bytes_read - 1
        BY <3>1 DEF IInv, TypeOK
      <4>2. QED
        BY <3>1, <4>1 DEF Copy!Settled, Copy!Range
    <3>3. Copy!Put(bytes_read)
      BY <3>1, <3>2 DEF Copy!Put
    <3>4. QED
      BY <3>1, <3>3 DEF Copy!Next
  <2>2. CASE P_Read
    BY <2>2 DEF P_Read, Copy!Next, Copy!Take
  <2>3. CASE UNCHANGED <<bytes_read, output>>
    BY <2>3
  <2>4. QED
    BY <2>1, <2>2, <2>3
       DEF Next, ParentProc, ChildProc, vars, P_Wait, P_ReadError, P_Signal, P_Leave, C_Open,
           C_Wait, C_SemError, C_Test, C_WriteError, C_Signal
<1>3. QED
  BY Invariance, <1>1, <1>2, PTL DEF Spec, CopiesInOrder, Copy!Spec

-----------------------------------------------------------------------------
(* MqCopy. *)

MqConstants ==
  /\ MqRunsBlocks \in Nat /\ MqBlocks \in Nat
  /\ NRuns \in Nat \ {0} /\ QueueSize \in Nat \ {0}

\* What mq_run assumes of its file and its queue.
LEMMA MqConstantsTyped == MqConstants
  BY SeminarsAssumption DEF MqConstants

-----------------------------------------------------------------------------
(* Sequences: what a queue and an output file do. *)

\* Appending keeps the elements and adds one at the end.
LEMMA AppendElements ==
  ASSUME NEW S, NEW s \in Seq(S), NEW e \in S
  PROVE  /\ Append(s, e) \in Seq(S) /\ Len(s) \in Nat /\ Len(Append(s, e)) = Len(s) + 1
         /\ \A i \in 1..Len(Append(s, e)) :
              /\ i <= Len(s) => i \in 1..Len(s) /\ Append(s, e)[i] = s[i]
              /\ i > Len(s) => Append(s, e)[i] = e
  OBVIOUS

\* Taking the head moves every other element one place forward.
LEMMA TailElements ==
  ASSUME NEW S, NEW s \in Seq(S), s # <<>>
  PROVE  /\ Head(s) = s[1] /\ Head(s) \in S /\ Tail(s) \in Seq(S)
         /\ Len(s) \in Nat \ {0} /\ Len(Tail(s)) = Len(s) - 1
         /\ \A i \in 1..Len(Tail(s)) : i + 1 \in 1..Len(s) /\ Tail(s)[i] = s[i + 1]
  OBVIOUS

-----------------------------------------------------------------------------
(* Several runs. *)

\* Child r holds a message that it has taken and not yet written or dropped.
Holds(r) == cp[r] \in {"test", "write"}

\* m is among the messages that have been sent when the parent of run r is at p and
\* has read b blocks.
Sent(m, r, b, p) ==
  \/ m.run < r
  \/ /\ m.run = r
     /\ IF m.block = 0 THEN p \in {"wait", "done", "failed"}
        ELSE m.block < b \/ (m.block = b /\ p # "send")

\* No message is sent before itself.
LEMMA NotBeforeItself == ASSUME NEW m \in MqRuns!Message PROVE ~MqRuns!Before(m, m)
  BY MqConstantsTyped DEF MqConstants, MqRuns!Message, MqRuns!Runs, MqRuns!Before

\* The queue is sorted, and it has only messages that have been sent.
QueueInOrder ==
  /\ \A i, j \in 1..Len(queue) : i < j => MqRuns!Before(queue[i], queue[j])
  /\ \A i \in 1..Len(queue) : Sent(queue[i], run, blocks, pp)

\* A message that a child holds has been sent, comes before all that is still in the
\* queue, and is with no other child: the queue of a failed run may have several readers.
HeldInOrder ==
  \A r \in MqRuns!Runs : Holds(r) =>
    /\ Sent(msg[r], run, blocks, pp)
    /\ \A k \in 1..Len(queue) : MqRuns!Before(msg[r], queue[k])
    /\ \A s \in MqRuns!Runs : Holds(s) /\ s # r => msg[r] # msg[s]

\* A place that a child has written lies before its offset, its message is no longer in
\* the queue, comes before what that child holds and is not what another one holds.
PlacesInOrder ==
  \A i \in 1..Len(out) : out[i] # MqRuns!Hole =>
    /\ i <= offset[out[i].by]
    /\ Sent(out[i].msg, run, blocks, pp)
    /\ \A k \in 1..Len(queue) : MqRuns!Before(out[i].msg, queue[k])
    /\ \A r \in MqRuns!Runs : Holds(r) =>
         IF r = out[i].by THEN MqRuns!Before(out[i].msg, msg[r]) ELSE out[i].msg # msg[r]

\* Two places of one child are in the order of sending, those of two children have
\* different messages.
InOrder(p, q, i, j) ==
  IF q.by = p.by THEN i < j => MqRuns!Precedes(p, q) ELSE p.msg # q.msg
PairsInOrder ==
  \A i, j \in 1..Len(out) : out[i] # MqRuns!Hole /\ out[j] # MqRuns!Hole => InOrder(out[i], out[j], i, j)

\* The parent sends blocks, and 0 is none.
SendsBlock == pp = "send" => blocks > 0

MqRunsInv == MqRuns!TypeOK /\ SendsBlock /\ QueueInOrder /\ HeldInOrder /\ PlacesInOrder /\ PairsInOrder

\* What a place of the file is, if it is not a hole.
LEMMA PlaceTyped ==
  ASSUME MqRuns!TypeOK, NEW i \in 1..Len(out), out[i] # MqRuns!Hole
  PROVE  /\ out[i].msg \in MqRuns!Message /\ out[i].by \in MqRuns!Runs /\ out[i].part \in Nat
<1>1. out[i] \in MqRuns!Place
  BY DEF MqRuns!TypeOK
<1>2. QED
  BY <1>1 DEF MqRuns!Place, MqRuns!MQ_SIZE

\* What a child that writes n places does to the file.
LEMMA PutPlaces ==
  ASSUME MqRuns!TypeOK, NEW c \in MqRuns!Runs, NEW n \in 1..2, MqRuns!Put(c, n)
  PROVE  /\ offset[c] \in Nat /\ offset' = [offset EXCEPT ![c] = offset[c] + n] /\ offset' \in [MqRuns!Runs -> Nat]
         /\ out' \in Seq(MqRuns!Place \cup {MqRuns!Hole})
         /\ \A i \in 1..Len(out') :
              \/ i \in 1..Len(out) /\ ~(offset[c] < i /\ i <= offset[c] + n) /\ out'[i] = out[i]
              \/ /\ offset[c] < i /\ i <= offset[c] + n
                 /\ out'[i] = [msg |-> msg[c], part |-> i - offset[c], by |-> c]
              \/ out'[i] = MqRuns!Hole
<1> DEFINE end == offset[c] + n
           N == IF end > Len(out) THEN end ELSE Len(out)
           At(i) == IF offset[c] < i /\ i <= end THEN [msg |-> msg[c], part |-> i - offset[c], by |-> c]
                    ELSE IF i <= Len(out) THEN out[i] ELSE MqRuns!Hole
<1>1. offset[c] \in Nat /\ msg[c] \in MqRuns!Message /\ Len(out) \in Nat
  BY DEF MqRuns!TypeOK
<1>2. offset' = [offset EXCEPT ![c] = end] /\ out' = [i \in 1..N |-> At(i)]
  BY DEF MqRuns!Put
<1>3. N \in Nat /\ end \in Nat
  BY <1>1
<1>4. ASSUME NEW i \in 1..N PROVE At(i) \in MqRuns!Place \cup {MqRuns!Hole}
  <2>1. CASE offset[c] < i /\ i <= end
    <3>1. i - offset[c] \in 1..2
      BY <1>1, <2>1
    <3>2. [msg |-> msg[c], part |-> i - offset[c], by |-> c] \in MqRuns!Place
      BY <1>1, <3>1 DEF MqRuns!Place, MqRuns!MQ_SIZE
    <3>3. QED
      BY <2>1, <3>2
  <2>2. CASE ~(offset[c] < i /\ i <= end) /\ i <= Len(out)
    <3>1. i \in 1..Len(out)
      BY <1>3, <2>2
    <3>2. out[i] \in MqRuns!Place \cup {MqRuns!Hole}
      BY <3>1 DEF MqRuns!TypeOK
    <3>3. QED
      BY <2>2, <3>2
  <2>3. QED
    BY <2>1, <2>2
<1>5. out' \in Seq(MqRuns!Place \cup {MqRuns!Hole}) /\ Len(out') = N
  <2>1. [i \in 1..N |-> At(i)] \in [1..N -> MqRuns!Place \cup {MqRuns!Hole}]
    BY <1>4, Zenon
  <2> HIDE DEF N, At
  <2>2. N \in Nat
    BY <1>3
  <2>3. QED
    BY ONLY <1>2, <2>1, <2>2
<1> HIDE DEF N
<1>6. \A i \in 1..N :
        \/ i \in 1..Len(out) /\ ~(offset[c] < i /\ i <= end) /\ At(i) = out[i]
        \/ offset[c] < i /\ i <= end /\ At(i) = [msg |-> msg[c], part |-> i - offset[c], by |-> c]
        \/ At(i) = MqRuns!Hole
  BY <1>1, <1>3
<1>7. offset' \in [MqRuns!Runs -> Nat]
  BY <1>2, <1>3 DEF MqRuns!TypeOK
<1>8. QED
  BY <1>1, <1>2, <1>5, <1>6, <1>7

\* The first run of a mq_run that is killed and started again finds no queue.
LEMMA MqRunsInit == MqRuns!Init => MqRunsInv
<1> SUFFICES ASSUME MqRuns!Init PROVE MqRunsInv
  OBVIOUS
<1> USE MqConstantsTyped DEF MqConstants, MqRuns!Init, MqRuns!Runs
<1>1. MqRuns!TypeOK
  <2>1. [run |-> 1, block |-> 0] \in MqRuns!Message
    BY DEF MqRuns!Message
  <2>2. run \in 1..NRuns
    OBVIOUS
  <2>21. blocks \in 0..MqRunsBlocks
    OBVIOUS
  <2>22. eof_flag \in BOOLEAN
    OBVIOUS
  <2>3. queue \in Seq(MqRuns!Message) /\ Len(queue) <= QueueSize
    OBVIOUS
  <2>4. cp \in [1..NRuns -> {"unborn", "open", "receive", "test", "write", "exited"}]
    OBVIOUS
  <2>5. msg \in [1..NRuns -> MqRuns!Message]
    BY <2>1 DEF MqRuns!EOF_MSG
  <2>6. offset \in [1..NRuns -> Nat] /\ out \in Seq(MqRuns!Place \cup {MqRuns!Hole})
    OBVIOUS
  <2>7. QED
    BY <2>2, <2>21, <2>22, <2>3, <2>4, <2>5, <2>6 DEF MqRuns!TypeOK
<1>2. Len(queue) = 0 /\ Len(out) = 0 /\ \A r \in 1..NRuns : ~Holds(r)
  BY DEF Holds
<1>3. QED
  BY <1>1, <1>2 DEF MqRunsInv, SendsBlock, QueueInOrder, HeldInOrder, PlacesInOrder, PairsInOrder

\* A message has one place or two, and less if the second one fails.
LEMMA PutsOneOrTwo ==
  \A m : MqRuns!Length(m) \in 1..2 /\ \A n \in 1..MqRuns!Length(m) - 1 : n \in 1..2
  BY DEF MqRuns!Length, MqRuns!MQ_SIZE

\* The type invariant is inductive by itself.
LEMMA MqRunsType == MqRuns!TypeOK /\ MqRuns!Next => MqRuns!TypeOK'
<1> SUFFICES ASSUME MqRuns!TypeOK, MqRuns!Next PROVE MqRuns!TypeOK'
  OBVIOUS
<1> USE MqConstantsTyped DEF MqConstants, MqRuns!TypeOK, MqRuns!Runs, MqRuns!file
<1>0. ASSUME NEW b \in 0..MqRunsBlocks
      PROVE  [run |-> run, block |-> b] \in MqRuns!Message
  BY DEF MqRuns!Message
<1>1. CASE MqRuns!P_Read
  BY <1>1 DEF MqRuns!P_Read, MqRuns!children
<1>2. CASE MqRuns!P_ReadEnd
  BY <1>2 DEF MqRuns!P_ReadEnd, MqRuns!children
<1>3. CASE MqRuns!P_ReadError
  BY <1>3 DEF MqRuns!P_ReadError, MqRuns!children
<1>4. CASE MqRuns!P_Send
  BY <1>0, <1>4, AppendElements DEF MqRuns!P_Send, MqRuns!msgsnd, MqRuns!children
<1>5. CASE MqRuns!P_SendError
  BY <1>5 DEF MqRuns!P_SendError, MqRuns!children
<1>6. CASE MqRuns!P_SendEOF
  <2>1. CASE queue' = queue
    BY <1>6, <2>1 DEF MqRuns!P_SendEOF, MqRuns!children
  <2>2. CASE MqRuns!msgsnd(0)
    BY <1>0, <1>6, <2>2, AppendElements DEF MqRuns!P_SendEOF, MqRuns!msgsnd, MqRuns!children
  <2>3. QED
    BY <1>6, <2>1, <2>2 DEF MqRuns!P_SendEOF, MqRuns!EOF_MSG
<1>7. CASE MqRuns!P_Wait
  BY <1>7 DEF MqRuns!P_Wait, MqRuns!children
<1>8. CASE MqRuns!Kill
  BY <1>8 DEF MqRuns!Kill
<1>9. CASE MqRuns!Restart
  <2>1. run' \in 1..NRuns /\ blocks' \in 0..MqRunsBlocks /\ pp' = "read"
    BY <1>9 DEF MqRuns!Restart
  <2>2. eof_flag' \in BOOLEAN
    BY <1>9 DEF MqRuns!Restart
  <2>3. cp' \in [1..NRuns -> {"unborn", "open", "receive", "test", "write", "exited"}]
    BY <1>9 DEF MqRuns!Restart
  <2>4. UNCHANGED <<queue, msg, offset, out>>
    BY <1>9 DEF MqRuns!Restart
  <2>5. QED
    BY <2>1, <2>2, <2>3, <2>4
<1>10. ASSUME NEW r \in MqRuns!Runs, MqRuns!Child(r)
       PROVE  MqRuns!TypeOK'
  <2> USE DEF MqRuns!C_Step, MqRuns!parent
  <2>1. CASE MqRuns!C_Open(r)
    BY <2>1 DEF MqRuns!C_Open
  <2>11. CASE MqRuns!C_OpenError(r)
    BY <2>11 DEF MqRuns!C_OpenError
  <2>2. CASE MqRuns!C_Receive(r)
    BY <2>2, TailElements DEF MqRuns!C_Receive
  <2>3. CASE MqRuns!C_ReceiveError(r)
    BY <2>3 DEF MqRuns!C_ReceiveError
  <2>4. CASE MqRuns!C_Test(r)
    <3>1. (IF MqRuns!IsEof(msg[r]) THEN "exited" ELSE "write") \in {"exited", "write"}
      OBVIOUS
    <3>2. QED
      BY <2>4, <3>1 DEF MqRuns!C_Test
  <2>5. CASE MqRuns!C_Write(r) \/ MqRuns!C_WriteError(r)
    <3>1. (\E n \in 1..2 : MqRuns!Put(r, n)) \/ UNCHANGED <<offset, out>>
      BY <2>5, PutsOneOrTwo DEF MqRuns!C_Write, MqRuns!C_WriteError
    <3>2. offset' \in [1..NRuns -> Nat] /\ out' \in Seq(MqRuns!Place \cup {MqRuns!Hole})
      <4>1. CASE UNCHANGED <<offset, out>>
        BY <4>1
      <4>2. ASSUME NEW n \in 1..2, MqRuns!Put(r, n)
            PROVE  offset' \in [1..NRuns -> Nat] /\ out' \in Seq(MqRuns!Place \cup {MqRuns!Hole})
        BY <4>2, PutPlaces
      <4>3. QED
        BY <3>1, <4>1, <4>2
    <3>3. /\ UNCHANGED <<run, queue, eof_flag, pp, blocks, msg>>
          /\ cp' \in [1..NRuns -> {"unborn", "open", "receive", "test", "write", "exited"}]
      BY <2>5 DEF MqRuns!C_Write, MqRuns!C_WriteError
    <3>4. QED
      BY <3>2, <3>3
  <2>7. QED
    BY <1>10, <2>1, <2>11, <2>2, <2>3, <2>4, <2>5 DEF MqRuns!Child
<1>11. QED
  BY <1>1, <1>2, <1>3, <1>4, <1>5, <1>6, <1>7, <1>8, <1>9, <1>10 DEF MqRuns!Next, MqRuns!Parent

\* A step of the parent leaves the messages sent so far, in its sense, unchanged,
\* but for the one that it sends.
LEMMA SentStays ==
  ASSUME MqRuns!TypeOK, NEW m \in MqRuns!Message, Sent(m, run, blocks, pp), MqRuns!Next
  PROVE  Sent(m, run', blocks', pp')
<1>0. m.run \in Int /\ m.block \in Int /\ run \in Int /\ blocks \in Int
  BY MqConstantsTyped DEF MqConstants, MqRuns!TypeOK, MqRuns!Runs, MqRuns!Message
<1> USE <1>0 DEF Sent
<1>1. CASE UNCHANGED <<run, pp, blocks>>
  BY <1>1
<1>2. CASE MqRuns!P_Read
  BY <1>2 DEF MqRuns!P_Read
<1>3. CASE MqRuns!P_ReadEnd \/ MqRuns!P_ReadError
  BY <1>3 DEF MqRuns!P_ReadEnd, MqRuns!P_ReadError
<1>4. CASE MqRuns!P_Send
  BY <1>4 DEF MqRuns!P_Send
<1>5. CASE MqRuns!P_SendError
  BY <1>5 DEF MqRuns!P_SendError
<1>6. CASE MqRuns!P_SendEOF \/ MqRuns!P_Wait \/ MqRuns!Kill
  BY <1>6 DEF MqRuns!P_SendEOF, MqRuns!P_Wait, MqRuns!Kill
<1>7. CASE MqRuns!Restart
  BY <1>7 DEF MqRuns!Restart
<1>8. QED
  BY <1>1, <1>2, <1>3, <1>4, <1>5, <1>6, <1>7
     DEF MqRuns!Next, MqRuns!Parent, MqRuns!Child, MqRuns!parent, MqRuns!C_Open, MqRuns!C_OpenError, MqRuns!C_Receive,
         MqRuns!C_ReceiveError, MqRuns!C_Test, MqRuns!C_Write, MqRuns!C_WriteError

\* What a step that leaves the queue and what the children hold alone preserves, if it
\* leaves the file alone too or empties it.
LEMMA MqRunsQuiet ==
  ASSUME MqRunsInv, MqRuns!Next, queue' = queue \/ queue' = <<>>, msg' = msg,
         UNCHANGED <<offset, out>> \/ out' = <<>>,
         \A r \in MqRuns!Runs : Holds(r)' => Holds(r)
  PROVE  QueueInOrder' /\ HeldInOrder' /\ PlacesInOrder' /\ PairsInOrder'
<1> USE DEF MqRunsInv
<1>1. \A m \in MqRuns!Message : Sent(m, run, blocks, pp) => Sent(m, run', blocks', pp')
  BY SentStays
<1>2. /\ \A i \in 1..Len(queue) : queue[i] \in MqRuns!Message
      /\ \A r \in MqRuns!Runs : msg[r] \in MqRuns!Message
      /\ \A i \in 1..Len(out) : out[i] # MqRuns!Hole => out[i].msg \in MqRuns!Message
  BY PlaceTyped DEF MqRuns!TypeOK
<1>3. \A k \in 1..Len(queue') : k \in 1..Len(queue) /\ queue'[k] = queue[k]
  BY <1>2
<1>4. QueueInOrder' /\ HeldInOrder'
  BY <1>1, <1>2, <1>3 DEF QueueInOrder, HeldInOrder
<1>5. CASE UNCHANGED <<offset, out>>
  <2>1. PlacesInOrder'
    BY <1>1, <1>2, <1>3, <1>5 DEF PlacesInOrder
  <2>2. PairsInOrder'
    BY <1>5 DEF PairsInOrder
  <2>3. QED
    BY <1>4, <2>1, <2>2
<1>6. CASE out' = <<>>
  <2>1. Len(out') = 0
    BY <1>6
  <2>2. QED
    BY <1>4, <2>1 DEF PlacesInOrder, PairsInOrder
<1>7. QED
  BY <1>5, <1>6

\* A message that is sent comes after every message sent before.
LEMMA MqRunsSend ==
  ASSUME MqRunsInv, MqRuns!Next, NEW new \in MqRuns!Message, queue' = Append(queue, new),
         UNCHANGED <<cp, msg, offset, out>>, Sent(new, run', blocks', pp'),
         \A m \in MqRuns!Message : Sent(m, run, blocks, pp) => MqRuns!Before(m, new)
  PROVE  QueueInOrder' /\ HeldInOrder' /\ PlacesInOrder' /\ PairsInOrder'
<1> USE DEF MqRunsInv
<1>1. \A m \in MqRuns!Message : Sent(m, run, blocks, pp) => Sent(m, run', blocks', pp')
  BY SentStays
<1>2. /\ \A i \in 1..Len(queue) : queue[i] \in MqRuns!Message
      /\ \A r \in MqRuns!Runs : msg[r] \in MqRuns!Message
      /\ \A i \in 1..Len(out) : out[i] # MqRuns!Hole => out[i].msg \in MqRuns!Message
  BY PlaceTyped DEF MqRuns!TypeOK
<1>3. /\ Len(queue) \in Nat /\ Len(queue') = Len(queue) + 1
      /\ \A i \in 1..Len(queue') :
           /\ i <= Len(queue) => i \in 1..Len(queue) /\ queue'[i] = queue[i]
           /\ i > Len(queue) => queue'[i] = new
  BY AppendElements DEF MqRuns!TypeOK
<1>5. QueueInOrder'
  <2>1. ASSUME NEW i \in 1..Len(queue'), NEW j \in 1..Len(queue'), i < j
        PROVE  MqRuns!Before(queue'[i], queue'[j])
    <3>1. i \in 1..Len(queue) /\ queue'[i] = queue[i]
      BY <1>3, <2>1
    <3>2. CASE j <= Len(queue)
      BY <1>3, <2>1, <3>1, <3>2 DEF QueueInOrder
    <3>3. CASE j > Len(queue)
      BY <1>1, <1>2, <1>3, <2>1, <3>1, <3>3 DEF QueueInOrder
    <3>4. QED
      BY <1>3, <3>2, <3>3
  <2>2. ASSUME NEW i \in 1..Len(queue') PROVE Sent(queue'[i], run', blocks', pp')
    <3>1. CASE i <= Len(queue)
      BY <1>1, <1>2, <1>3, <3>1 DEF QueueInOrder
    <3>2. CASE i > Len(queue)
      BY <1>3, <3>2
    <3>3. QED
      BY <1>3, <3>1, <3>2
  <2>3. QED
    BY <2>1, <2>2 DEF QueueInOrder
<1>6. ASSUME NEW m \in MqRuns!Message, Sent(m, run, blocks, pp), \A k \in 1..Len(queue) : MqRuns!Before(m, queue[k])
      PROVE  \A k \in 1..Len(queue') : MqRuns!Before(m, queue'[k])
  <2>1. MqRuns!Before(m, new)
    BY <1>1, <1>6
  <2>2. QED
    BY <1>3, <1>6, <2>1
<1>7. HeldInOrder'
  BY <1>1, <1>2, <1>6 DEF HeldInOrder, Holds
<1>8. PlacesInOrder'
  BY <1>1, <1>2, <1>6 DEF PlacesInOrder, Holds
<1>9. PairsInOrder'
  BY DEF PairsInOrder
<1>10. QED
  BY <1>5, <1>7, <1>8, <1>9

\* A child that takes the oldest message holds one that comes after everything
\* written and held before, and before the rest of the queue.
LEMMA MqRunsReceive ==
  ASSUME MqRunsInv, MqRuns!Next, NEW c \in MqRuns!Runs, MqRuns!C_Receive(c)
  PROVE  QueueInOrder' /\ HeldInOrder' /\ PlacesInOrder' /\ PairsInOrder'
<1> USE DEF MqRunsInv
<1>1. \A m \in MqRuns!Message : Sent(m, run, blocks, pp) => Sent(m, run', blocks', pp')
  BY SentStays
<1>2. /\ \A i \in 1..Len(queue) : queue[i] \in MqRuns!Message
      /\ \A r \in MqRuns!Runs : msg[r] \in MqRuns!Message
      /\ \A i \in 1..Len(out) : out[i] # MqRuns!Hole => out[i].msg \in MqRuns!Message
  BY PlaceTyped DEF MqRuns!TypeOK
<1>3. /\ Len(queue) \in Nat \ {0} /\ Len(queue') = Len(queue) - 1
      /\ \A i \in 1..Len(queue') : i + 1 \in 1..Len(queue) /\ queue'[i] = queue[i + 1]
  BY TailElements DEF MqRuns!TypeOK, MqRuns!C_Receive
<1>4. /\ UNCHANGED <<offset, out>> /\ msg'[c] = queue[1]
      /\ ~Holds(c) /\ \A r \in MqRuns!Runs \ {c} : msg'[r] = msg[r] /\ (Holds(r)' => Holds(r))
  BY TailElements DEF MqRuns!TypeOK, MqRuns!C_Receive, MqRuns!C_Step, MqRuns!file, Holds
<1>5. 1 \in 1..Len(queue)
  BY <1>3
<1>51. ~MqRuns!Before(queue[1], queue[1])
  BY <1>2, <1>5, NotBeforeItself
<1>6. QueueInOrder'
  <2>1. ASSUME NEW i \in 1..Len(queue'), NEW j \in 1..Len(queue'), i < j
        PROVE  MqRuns!Before(queue'[i], queue'[j])
    <3>1. i + 1 \in 1..Len(queue) /\ j + 1 \in 1..Len(queue) /\ i + 1 < j + 1
      BY <1>3, <2>1
    <3>2. QED
      BY <1>3, <3>1 DEF QueueInOrder
  <2>2. \A i \in 1..Len(queue') : Sent(queue'[i], run', blocks', pp')
    BY <1>1, <1>2, <1>3 DEF QueueInOrder
  <2>3. QED
    BY <2>1, <2>2 DEF QueueInOrder
<1>7. HeldInOrder'
  <2>1. /\ Sent(queue[1], run', blocks', pp')
        /\ \A k \in 1..Len(queue') : MqRuns!Before(queue[1], queue'[k])
    <3>1. \A k \in 1..Len(queue') : k + 1 \in 1..Len(queue) /\ 1 < k + 1
      BY <1>3
    <3>2. QED
      BY <1>1, <1>2, <1>3, <1>5, <3>1 DEF QueueInOrder
  <2>2. \A r \in MqRuns!Runs : Holds(r) => msg[r] # queue[1]
    BY <1>5, <1>51 DEF HeldInOrder
  <2>3. \A r \in MqRuns!Runs : Holds(r) => \A k \in 1..Len(queue') : MqRuns!Before(msg[r], queue'[k])
    BY <1>3 DEF HeldInOrder
  <2>4. ASSUME NEW r \in MqRuns!Runs, Holds(r)'
        PROVE  /\ Sent(msg'[r], run', blocks', pp')
               /\ \A k \in 1..Len(queue') : MqRuns!Before(msg'[r], queue'[k])
               /\ \A s \in MqRuns!Runs : Holds(s)' /\ s # r => msg'[r] # msg'[s]
    <3>1. CASE r = c
      BY <1>4, <2>1, <2>2, <3>1
    <3>2. CASE r # c
      BY <1>1, <1>2, <1>4, <2>2, <2>3, <2>4, <3>2 DEF HeldInOrder
    <3>3. QED
      BY <3>1, <3>2
  <2>5. QED
    BY <2>4 DEF HeldInOrder
<1>8. PlacesInOrder'
  <2> SUFFICES ASSUME NEW i \in 1..Len(out), out[i] # MqRuns!Hole
               PROVE  /\ i <= offset[out[i].by]
                      /\ Sent(out[i].msg, run', blocks', pp')
                      /\ \A k \in 1..Len(queue') : MqRuns!Before(out[i].msg, queue'[k])
                      /\ \A r \in MqRuns!Runs : Holds(r)' =>
                           IF r = out[i].by THEN MqRuns!Before(out[i].msg, msg'[r]) ELSE out[i].msg # msg'[r]
    BY <1>4 DEF PlacesInOrder
  <2>1. i <= offset[out[i].by] /\ Sent(out[i].msg, run', blocks', pp')
    BY <1>1, <1>2 DEF PlacesInOrder
  <2>2. MqRuns!Before(out[i].msg, queue[1]) /\ out[i].msg # queue[1]
    BY <1>5, <1>51 DEF PlacesInOrder
  <2>3. \A k \in 1..Len(queue') : MqRuns!Before(out[i].msg, queue'[k])
    BY <1>3 DEF PlacesInOrder
  <2>4. ASSUME NEW r \in MqRuns!Runs, Holds(r)'
        PROVE  IF r = out[i].by THEN MqRuns!Before(out[i].msg, msg'[r]) ELSE out[i].msg # msg'[r]
    <3>1. CASE r = c
      BY <1>4, <2>2, <3>1
    <3>2. CASE r # c
      BY <1>4, <2>4, <3>2 DEF PlacesInOrder
    <3>3. QED
      BY <3>1, <3>2
  <2>5. QED
    BY <2>1, <2>3, <2>4
<1>9. PairsInOrder'
  BY <1>4 DEF PairsInOrder
<1>10. QED
  BY <1>6, <1>7, <1>8, <1>9

\* A child that writes what it holds, or its first half, puts it behind all that it has
\* written, and in the place of what others have.
LEMMA MqRunsWrite ==
  ASSUME MqRunsInv, MqRuns!Next, NEW c \in MqRuns!Runs, NEW n \in 1..2, MqRuns!Put(c, n), UNCHANGED <<queue, msg>>,
         Holds(c), ~Holds(c)', \A r \in MqRuns!Runs : Holds(r)' => Holds(r)
  PROVE  QueueInOrder' /\ HeldInOrder' /\ PlacesInOrder' /\ PairsInOrder'
<1> USE DEF MqRunsInv
<1> DEFINE Old(i) == i \in 1..Len(out) /\ ~(offset[c] < i /\ i <= offset[c] + n) /\ out'[i] = out[i]
           New(i) == /\ offset[c] < i /\ i <= offset[c] + n
                     /\ out'[i] = [msg |-> msg[c], part |-> i - offset[c], by |-> c]
<1>1. \A m \in MqRuns!Message : Sent(m, run, blocks, pp) => Sent(m, run', blocks', pp')
  BY SentStays
<1>2. /\ \A i \in 1..Len(queue) : queue[i] \in MqRuns!Message
      /\ \A r \in MqRuns!Runs : msg[r] \in MqRuns!Message
      /\ \A i \in 1..Len(out) : out[i] # MqRuns!Hole => out[i].msg \in MqRuns!Message /\ out[i].by \in MqRuns!Runs
  BY PlaceTyped DEF MqRuns!TypeOK
<1>3. /\ offset[c] \in Nat /\ offset'[c] = offset[c] + n /\ \A r \in MqRuns!Runs \ {c} : offset'[r] = offset[r]
      /\ \A i \in 1..Len(out') : i \in Nat /\ (out'[i] # MqRuns!Hole => Old(i) \/ New(i))
  <2>1. /\ offset[c] \in Nat /\ offset' = [offset EXCEPT ![c] = offset[c] + n]
        /\ \A i \in 1..Len(out') : Old(i) \/ New(i) \/ out'[i] = MqRuns!Hole
    BY PutPlaces
  <2> HIDE DEF Old, New
  <2>2. QED
    BY <2>1 DEF MqRuns!TypeOK
<1>4. QueueInOrder' /\ HeldInOrder'
  BY <1>1, <1>2 DEF QueueInOrder, HeldInOrder
<1>5. PlacesInOrder'
  <2> SUFFICES ASSUME NEW i \in 1..Len(out'), out'[i] # MqRuns!Hole
               PROVE  /\ i <= offset'[out'[i].by]
                      /\ Sent(out'[i].msg, run', blocks', pp')
                      /\ \A k \in 1..Len(queue) : MqRuns!Before(out'[i].msg, queue[k])
                      /\ \A r \in MqRuns!Runs : Holds(r)' =>
                           IF r = out'[i].by THEN MqRuns!Before(out'[i].msg, msg[r]) ELSE out'[i].msg # msg[r]
    BY DEF PlacesInOrder
  <2>1. CASE Old(i)
    <3>1. i <= offset[out[i].by] /\ offset[out[i].by] <= offset'[out[i].by]
      <4>1. i <= offset[out[i].by] /\ out[i].by \in MqRuns!Runs
        BY <1>2, <2>1 DEF PlacesInOrder
      <4>2. offset[out[i].by] \in Nat
        BY <4>1 DEF MqRuns!TypeOK
      <4>3. offset[out[i].by] <= offset'[out[i].by]
        <5>1. CASE out[i].by = c
          BY <1>3, <4>2, <5>1
        <5>2. CASE out[i].by # c
          BY <1>3, <4>1, <4>2, <5>2
        <5>3. QED
          BY <5>1, <5>2
      <4>4. QED
        BY <4>1, <4>3
    <3>2. i <= offset'[out[i].by]
      <4>1. offset[out[i].by] \in Nat /\ offset'[out[i].by] \in Nat
        <5>1. out[i].by \in MqRuns!Runs
          BY <1>2, <2>1
        <5>2. \A r \in MqRuns!Runs : offset[r] \in Nat
          BY DEF MqRuns!TypeOK
        <5>3. \A r \in MqRuns!Runs : offset'[r] \in Nat
          BY <1>3, <5>2
        <5>4. QED
          BY ONLY <5>1, <5>2, <5>3
      <4>2. QED
        BY <1>3, <3>1, <4>1
    <3>3. QED
      BY <1>1, <1>2, <2>1, <3>2 DEF PlacesInOrder
  <2>2. CASE New(i)
    <3>1. out'[i].msg = msg[c] /\ out'[i].by = c /\ i <= offset'[c]
      BY <1>3, <2>2
    <3>2. \A r \in MqRuns!Runs : Holds(r)' => r # c /\ msg[c] # msg[r]
      BY DEF HeldInOrder
    <3>3. QED
      BY <1>1, <1>2, <3>1, <3>2 DEF HeldInOrder
  <2>3. QED
    BY <1>3, <2>1, <2>2
<1>6. PairsInOrder'
  <2> SUFFICES ASSUME NEW i \in 1..Len(out'), NEW j \in 1..Len(out'), out'[i] # MqRuns!Hole, out'[j] # MqRuns!Hole
               PROVE  InOrder(out'[i], out'[j], i, j)
    BY DEF PairsInOrder
  <2>1. CASE Old(i) /\ Old(j)
    BY <2>1 DEF PairsInOrder
  <2>2. CASE Old(i) /\ New(j)
    <3>1. out'[j].msg = msg[c] /\ out'[j].by = c /\ out'[i] = out[i] /\ i \in 1..Len(out) /\ out[i] # MqRuns!Hole
      BY <2>2
    <3>2. IF c = out[i].by THEN MqRuns!Before(out[i].msg, msg[c]) ELSE out[i].msg # msg[c]
      BY <3>1 DEF PlacesInOrder
    <3>3. QED
      BY <3>1, <3>2 DEF InOrder, MqRuns!Precedes
  <2>3. CASE New(i) /\ Old(j)
    <3>1. /\ out'[i].msg = msg[c] /\ out'[i].by = c /\ offset[c] < i
          /\ out'[j] = out[j] /\ j \in 1..Len(out) /\ out[j] # MqRuns!Hole
      BY <2>3
    <3>2. j <= offset[out[j].by] /\ (c # out[j].by => out[j].msg # msg[c])
      BY <3>1 DEF PlacesInOrder
    <3>3. out[j].by = c => ~(i < j)
      BY <1>3, <3>1, <3>2
    <3>4. QED
      BY <3>1, <3>2, <3>3 DEF InOrder
  <2>4. CASE New(i) /\ New(j)
    <3>1. /\ out'[i].msg = msg[c] /\ out'[i].by = c /\ out'[i].part = i - offset[c]
          /\ out'[j].msg = msg[c] /\ out'[j].by = c /\ out'[j].part = j - offset[c]
      BY <2>4
    <3>2. i < j => i - offset[c] < j - offset[c]
      BY <1>3
    <3>3. QED
      BY <3>1, <3>2 DEF InOrder, MqRuns!Precedes
  <2>5. QED
    BY <1>3, <2>1, <2>2, <2>3, <2>4
<1>7. QED
  BY <1>4, <1>5, <1>6

\* Every step of it, a kill and a restart included, keeps the invariant.
LEMMA MqRunsNext == MqRunsInv /\ MqRuns!Next => MqRunsInv'
<1> DEFINE InOrderAgain == QueueInOrder' /\ HeldInOrder' /\ PlacesInOrder' /\ PairsInOrder'
<1> SUFFICES ASSUME MqRunsInv, MqRuns!Next
             PROVE  SendsBlock' /\ InOrderAgain
  BY MqRunsType DEF MqRunsInv
<1> USE DEF MqRuns!children, MqRuns!file
<1>1. CASE MqRuns!P_Read \/ MqRuns!P_ReadEnd \/ MqRuns!P_ReadError \/ MqRuns!P_SendError \/ MqRuns!P_Wait
  <2>1. InOrderAgain
    BY <1>1, MqRunsQuiet
       DEF MqRuns!P_Read, MqRuns!P_ReadEnd, MqRuns!P_ReadError, MqRuns!P_SendError, MqRuns!P_Wait, MqRuns!children, Holds
  <2>2. SendsBlock'
    BY <1>1
       DEF MqRuns!P_Read, MqRuns!P_ReadEnd, MqRuns!P_ReadError, MqRuns!P_SendError, MqRuns!P_Wait,
           MqRunsInv, MqRuns!TypeOK, SendsBlock
  <2>3. QED
    BY <2>1, <2>2
<1>2. CASE MqRuns!P_Send
  <2>1. /\ queue' = Append(queue, [run |-> run, block |-> blocks])
        /\ pp = "send" /\ pp' = "read" /\ UNCHANGED <<run, blocks, cp, msg, offset, out>>
    BY <1>2 DEF MqRuns!P_Send, MqRuns!msgsnd, MqRuns!children
  <2>2. blocks # 0 /\ run \in Int /\ blocks \in Int
    BY <2>1, MqConstantsTyped DEF MqRunsInv, SendsBlock, MqRuns!TypeOK, MqRuns!Runs, MqConstants
  <2>3. [run |-> run, block |-> blocks] \in MqRuns!Message
    BY DEF MqRunsInv, MqRuns!TypeOK, MqRuns!Message
  <2>4. Sent([run |-> run, block |-> blocks], run', blocks', pp')
    BY <2>1, <2>2 DEF Sent
  <2>5. ASSUME NEW m \in MqRuns!Message, Sent(m, run, blocks, pp)
        PROVE  MqRuns!Before(m, [run |-> run, block |-> blocks])
    BY <2>1, <2>2, <2>5 DEF Sent, MqRuns!Before, MqRuns!EOF_MSG
  <2>6. QED
    BY <2>1, <2>3, <2>4, <2>5, MqRunsSend DEF SendsBlock
<1>3. CASE MqRuns!P_SendEOF
  <2>1. pp = "sendEOF" /\ pp' = "wait" /\ UNCHANGED <<run, blocks, cp, msg, offset, out>>
    BY <1>3 DEF MqRuns!P_SendEOF, MqRuns!children
  <2>2. CASE queue' = queue
    BY <2>1, <2>2, MqRunsQuiet DEF Holds, SendsBlock
  <2>3. CASE queue' = Append(queue, [run |-> run, block |-> 0])
    <3>1. [run |-> run, block |-> 0] \in MqRuns!Message
      BY MqConstantsTyped DEF MqConstants, MqRunsInv, MqRuns!TypeOK, MqRuns!Message
    <3>2. Sent([run |-> run, block |-> 0], run', blocks', pp')
      BY <2>1 DEF Sent
    <3>3. ASSUME NEW m \in MqRuns!Message, Sent(m, run, blocks, pp)
          PROVE  MqRuns!Before(m, [run |-> run, block |-> 0])
      BY <2>1, <3>3 DEF Sent, MqRuns!Before, MqRuns!EOF_MSG
    <3>4. QED
      BY <2>1, <2>3, <3>1, <3>2, <3>3, MqRunsSend DEF SendsBlock
  <2>4. QED
    BY <1>3, <2>2, <2>3 DEF MqRuns!P_SendEOF, MqRuns!msgsnd, MqRuns!EOF_MSG
<1>4. CASE MqRuns!Kill \/ MqRuns!Restart
  <2>1. /\ UNCHANGED <<queue, msg, offset, out>> /\ pp' # "send"
        /\ \A r \in MqRuns!Runs : Holds(r)' => Holds(r)
    BY <1>4 DEF MqRuns!Kill, MqRuns!Restart, Holds, MqRunsInv, MqRuns!TypeOK
  <2>2. QED
    BY <2>1, MqRunsQuiet DEF SendsBlock
<1>5. ASSUME NEW r \in MqRuns!Runs, MqRuns!Child(r)
      PROVE  SendsBlock' /\ InOrderAgain
  <2>1. SendsBlock'
    BY <1>5
       DEF MqRunsInv, SendsBlock, MqRuns!Child, MqRuns!parent, MqRuns!C_Open, MqRuns!C_OpenError, MqRuns!C_Receive,
           MqRuns!C_ReceiveError, MqRuns!C_Test, MqRuns!C_Write, MqRuns!C_WriteError
  <2> USE DEF MqRuns!C_Step
  <2>2. CASE MqRuns!C_Receive(r)
    BY <2>1, <2>2, MqRunsReceive
  <2>3. CASE MqRuns!C_Write(r) \/ MqRuns!C_WriteError(r)
    <3>1. /\ UNCHANGED <<queue, msg>> /\ Holds(r) /\ ~Holds(r)'
          /\ \A s \in MqRuns!Runs : Holds(s)' => Holds(s)
      BY <2>3 DEF MqRuns!C_Write, MqRuns!C_WriteError, Holds, MqRunsInv, MqRuns!TypeOK
    <3>2. (\E n \in 1..2 : MqRuns!Put(r, n)) \/ UNCHANGED <<offset, out>>
      BY <2>3, PutsOneOrTwo DEF MqRuns!C_Write, MqRuns!C_WriteError
    <3>3. QED
      BY <2>1, <3>1, <3>2, MqRunsWrite, MqRunsQuiet
  <2>4. CASE MqRuns!C_Open(r) \/ MqRuns!C_OpenError(r) \/ MqRuns!C_ReceiveError(r) \/ MqRuns!C_Test(r)
    <3>1. UNCHANGED <<queue, msg>> /\ (UNCHANGED <<offset, out>> \/ out' = <<>>)
      BY <2>4 DEF MqRuns!C_Open, MqRuns!C_OpenError, MqRuns!C_ReceiveError, MqRuns!C_Test
    <3>2. \A s \in MqRuns!Runs : Holds(s)' => Holds(s)
      <4>1. (cp'[r] \in {"receive", "exited"} \/ cp[r] = "test") /\ \A s \in MqRuns!Runs \ {r} : cp'[s] = cp[s]
        BY <2>4 DEF MqRuns!C_Open, MqRuns!C_OpenError, MqRuns!C_ReceiveError, MqRuns!C_Test, MqRunsInv, MqRuns!TypeOK
      <4>2. QED
        BY <4>1 DEF Holds
    <3>3. QED
      BY <2>1, <3>1, <3>2, MqRunsQuiet
  <2>5. QED
    BY <1>5, <2>2, <2>3, <2>4 DEF MqRuns!Child
<1>6. QED
  BY <1>1, <1>2, <1>3, <1>4, <1>5 DEF MqRuns!Next, MqRuns!Parent

-----------------------------------------------------------------------------
(* One run without faults. *)

\* How many blocks are in the output, how many messages with the child and sent by the
\* parent: blocks, and the end message that follows them.
NOut       == Len(out) \div 2
SentBlocks == IF pp = "send" THEN blocks - 1 ELSE blocks
SentEnd    == IF pp \in {"wait", "done"} THEN 1 ELSE 0
HeldNow    == IF Holds(1) THEN 1 ELSE 0

\* The block in the k-th message of the run: after the last block comes the end.
BlockAt(k) == IF k = MqBlocks + 1 THEN 0 ELSE k

\* The parent sets the flag when it has sent every block, and never before.
MqStage ==
  /\ pp \in {"read", "send", "sendEOF", "wait", "done"}
  /\ pp = "send" => blocks > 0
  /\ eof_flag => pp \in {"sendEOF", "wait", "done"}
  /\ pp \in {"sendEOF", "wait", "done"} => eof_flag
  /\ pp \in {"sendEOF", "wait", "done"} => blocks = MqBlocks
  /\ pp = "done" => cp[1] = "exited"
  /\ cp[1] # "unborn"

\* The only child has written whole blocks, the file has no others, and opening it
\* empties a file that is empty.
MqOutput ==
  /\ Len(out) = 2 * NOut /\ offset[1] = 2 * NOut
  /\ \A k \in 1..NOut : Mq!IsBlock(k, k)
  /\ cp[1] = "open" => out = <<>>

\* Until the child exits, output, held message and queue are together all that
\* has been sent, in this order.
MqFlow ==
  /\ cp[1] # "exited" =>
       /\ NOut + HeldNow + Len(queue) = SentBlocks + SentEnd
       /\ Holds(1) => msg[1].block = BlockAt(NOut + 1)
       /\ \A k \in 1..Len(queue) : queue[k].block = BlockAt(NOut + HeldNow + k)
  /\ cp[1] = "write" => msg[1].block # 0

\* Where the child stops, only what was in the queue, or with it, is missing.
MqCut ==
  cp[1] = "exited" =>
    /\ eof_flag
    /\ NOut <= MqBlocks
    /\ NOut < MqBlocks =>
         NOut + 1 \in MqEofLike /\ MqBlocks - NOut <= QueueSize + 1

MqInv == Mq!TypeOK /\ MqStage /\ MqOutput /\ MqFlow /\ MqCut

\* mq_run starts with nothing read and an empty queue.
LEMMA MqInit == Mq!Init => MqInv
<1> SUFFICES ASSUME Mq!Init PROVE MqInv
  OBVIOUS
<1> USE MqConstantsTyped DEF MqConstants, Mq!Init, Mq!Runs
<1>1. Mq!TypeOK
  <2>1. [run |-> 1, block |-> 0] \in Mq!Message
    BY DEF Mq!Message
  <2>2. run \in 1..1
    OBVIOUS
  <2>3. blocks \in 0..MqBlocks
    OBVIOUS
  <2>4. eof_flag \in BOOLEAN
    OBVIOUS
  <2>5. queue \in Seq(Mq!Message) /\ Len(queue) <= QueueSize
    OBVIOUS
  <2>6. cp \in [1..1 -> {"unborn", "open", "receive", "test", "write", "exited"}]
    OBVIOUS
  <2>7. msg \in [1..1 -> Mq!Message]
    BY <2>1 DEF Mq!EOF_MSG
  <2>8. offset \in [1..1 -> Nat] /\ out \in Seq(Mq!Place \cup {Mq!Hole})
    OBVIOUS
  <2>9. QED
    BY <2>2, <2>3, <2>4, <2>5, <2>6, <2>7, <2>8 DEF Mq!TypeOK
<1>2. cp[1] = "open" /\ NOut = 0 /\ offset[1] = 0 /\ out = <<>> /\ Len(queue) = 0 /\ blocks = 0 /\ pp = "read"
  BY DEF NOut
<1>3. ~eof_flag
  OBVIOUS
<1> HIDE DEF Mq!Init
<1>4. MqStage
  BY <1>2, <1>3 DEF MqStage
<1>5. MqOutput /\ MqFlow /\ MqCut
  BY <1>2 DEF MqOutput, MqFlow, MqCut, Holds, HeldNow, SentBlocks, SentEnd
<1>6. QED
  BY <1>1, <1>4, <1>5 DEF MqInv

\* Without faults, and in one run, these are all the steps.
MqParentStep == Mq!P_Read \/ Mq!P_ReadEnd \/ Mq!P_Send \/ (Mq!P_SendEOF /\ Mq!msgsnd(0)) \/ Mq!P_Wait
MqChildStep ==
  \/ Mq!C_Open(1) /\ cp'[1] = "receive"
  \/ Mq!C_Receive(1) \/ Mq!C_Test(1) \/ Mq!C_Write(1)

\* In one run without errors a step is one of the parent or one of the child.
LEMMA MqSteps == ASSUME MqInv, Mq!Next PROVE MqParentStep \/ MqChildStep
<1>1. run = 1
  BY DEF MqInv, Mq!TypeOK, Mq!Runs
<1>2. ~Mq!P_ReadError /\ ~Mq!P_SendError /\ ~Mq!Kill /\ ~Mq!Restart
  BY <1>1 DEF Mq!P_ReadError, Mq!P_SendError, Mq!Kill, Mq!Restart
<1>3. CASE Mq!Parent
  BY <1>2, <1>3 DEF Mq!Parent, MqParentStep, Mq!P_SendEOF, Mq!EOF_MSG
<1>4. ASSUME NEW r \in Mq!Runs, Mq!Child(r) PROVE MqChildStep
  <2>1. r = 1
    BY DEF Mq!Runs
  <2>2. ~Mq!C_OpenError(1) /\ ~Mq!C_ReceiveError(1) /\ ~Mq!C_WriteError(1)
    BY DEF Mq!C_OpenError, Mq!C_ReceiveError, Mq!C_WriteError, Mq!C_Step, MqInv, MqStage
  <2>3. Mq!C_Open(1) => cp'[1] = "receive"
    BY DEF Mq!C_Open, Mq!C_Step, MqInv, Mq!TypeOK, Mq!Runs
  <2>4. QED
    BY <1>4, <2>1, <2>2, <2>3 DEF Mq!Child, MqChildStep
<1>5. QED
  BY <1>2, <1>3, <1>4 DEF Mq!Next

\* What is written is a file of places.
LEMMA MqPutTyped ==
  ASSUME Mq!TypeOK, NEW n \in 1..2, Mq!Put(1, n)
  PROVE  offset' \in [1..1 -> Nat] /\ out' \in Seq(Mq!Place \cup {Mq!Hole})
<1> DEFINE end == offset[1] + n
           N == IF end > Len(out) THEN end ELSE Len(out)
           At(i) == IF offset[1] < i /\ i <= end THEN [msg |-> msg[1], part |-> i - offset[1], by |-> 1]
                    ELSE IF i <= Len(out) THEN out[i] ELSE Mq!Hole
<1>1. offset \in [1..1 -> Nat] /\ offset[1] \in Nat /\ msg[1] \in Mq!Message /\ Len(out) \in Nat
  BY DEF Mq!TypeOK, Mq!Runs
<1>2. offset' = [offset EXCEPT ![1] = end] /\ out' = [i \in 1..N |-> At(i)]
  BY DEF Mq!Put
<1>3. N \in Nat /\ end \in Nat
  BY <1>1
<1>4. ASSUME NEW i \in 1..N PROVE At(i) \in Mq!Place \cup {Mq!Hole}
  <2>1. CASE offset[1] < i /\ i <= end
    <3>1. i - offset[1] \in 1..2
      BY <1>1, <2>1
    <3>2. [msg |-> msg[1], part |-> i - offset[1], by |-> 1] \in Mq!Place
      BY <1>1, <3>1 DEF Mq!Place, Mq!MQ_SIZE, Mq!Runs
    <3>3. QED
      BY <2>1, <3>2
  <2>2. CASE ~(offset[1] < i /\ i <= end) /\ i <= Len(out)
    <3>1. i \in 1..Len(out)
      BY <1>3, <2>2
    <3>2. out[i] \in Mq!Place \cup {Mq!Hole}
      BY <3>1 DEF Mq!TypeOK
    <3>3. QED
      BY <2>2, <3>2
  <2>3. QED
    BY <2>1, <2>2
<1> HIDE DEF N
<1>5. out' \in Seq(Mq!Place \cup {Mq!Hole})
  BY <1>2, <1>3, <1>4
<1>6. offset' \in [1..1 -> Nat]
  BY <1>1, <1>2, <1>3
<1>7. QED
  BY <1>5, <1>6

\* Every step keeps the types.
LEMMA MqType == MqInv /\ Mq!Next => Mq!TypeOK'
<1> SUFFICES ASSUME MqInv, Mq!Next PROVE Mq!TypeOK'
  OBVIOUS
<1>0. /\ Mq!TypeOK
      /\ \A b \in 0..MqBlocks : [run |-> run, block |-> b] \in Mq!Message
  BY DEF MqInv, Mq!TypeOK, Mq!Message
<1> USE <1>0, MqConstantsTyped DEF MqConstants, Mq!TypeOK, Mq!Runs, Mq!file
<1>1. CASE Mq!P_Read
  BY <1>1 DEF Mq!P_Read, Mq!children
<1>2. CASE Mq!P_ReadEnd
  BY <1>2 DEF Mq!P_ReadEnd, Mq!children
<1>3. CASE Mq!P_Send
  BY <1>3, AppendElements DEF Mq!P_Send, Mq!msgsnd, Mq!children
<1>4. CASE Mq!P_SendEOF /\ Mq!msgsnd(0)
  BY <1>4, AppendElements DEF Mq!P_SendEOF, Mq!msgsnd, Mq!children
<1>5. CASE Mq!P_Wait
  BY <1>5 DEF Mq!P_Wait, Mq!children
<1>6. CASE Mq!C_Open(1)
  BY <1>6 DEF Mq!C_Open, Mq!C_Step, Mq!parent
<1>7. CASE Mq!C_Receive(1)
  BY <1>7, TailElements DEF Mq!C_Receive, Mq!C_Step, Mq!parent
<1>8. CASE Mq!C_Test(1)
  <2>1. (IF Mq!IsEof(msg[1]) THEN "exited" ELSE "write") \in {"exited", "write"}
    OBVIOUS
  <2>2. QED
    BY <1>8, <2>1 DEF Mq!C_Test, Mq!C_Step, Mq!parent
<1>9. CASE Mq!C_Write(1)
  <2>1. offset' \in [1..1 -> Nat] /\ out' \in Seq(Mq!Place \cup {Mq!Hole})
    <3>1. Mq!Length(msg[1]) \in 1..2 /\ Mq!Put(1, Mq!Length(msg[1]))
      BY <1>9 DEF Mq!C_Write, Mq!Length, Mq!MQ_SIZE
    <3> HIDE DEF Mq!TypeOK
    <3>2. QED
      BY <3>1, MqPutTyped DEF MqInv
  <2>2. QED
    BY <1>9, <2>1 DEF Mq!C_Write, Mq!C_Step, Mq!parent
<1>10. QED
  BY <1>1, <1>2, <1>3, <1>4, <1>5, <1>6, <1>7, <1>8, <1>9, MqSteps DEF MqParentStep, MqChildStep

\* The numbers that the invariant of a single run is about.
LEMMA MqNumbers ==
  ASSUME MqInv
  PROVE  /\ MqBlocks \in Nat /\ QueueSize \in Nat /\ blocks \in 0..MqBlocks
         /\ NOut \in Nat /\ Len(queue) \in Nat /\ Len(queue) <= QueueSize
         /\ queue \in Seq(Mq!Message) /\ msg[1] \in Mq!Message /\ Len(out) \in Nat
         /\ \A m \in Mq!Message : m.block \in 0..MqBlocks
  BY MqConstantsTyped DEF MqConstants, MqInv, Mq!TypeOK, Mq!Runs, Mq!Message, NOut

\* A step of the parent keeps each part of the invariant.
LEMMA MqParentNext == ASSUME MqInv, Mq!Next, MqParentStep PROVE MqStage' /\ MqOutput' /\ MqFlow' /\ MqCut'
<1>0. /\ UNCHANGED <<cp, msg, offset, out>> /\ NOut' = NOut /\ HeldNow' = HeldNow
      /\ (Holds(1)' <=> Holds(1)) /\ HeldNow \in {0, 1}
  BY DEF MqParentStep, Mq!P_Read, Mq!P_ReadEnd, Mq!P_Send, Mq!P_SendEOF, Mq!P_Wait, Mq!children, Mq!file, HeldNow, Holds, NOut
<1>a. MqStage /\ MqOutput /\ MqFlow /\ MqCut
  BY DEF MqInv
<1>b. MqOutput'
  BY <1>0, <1>a DEF MqOutput, Mq!IsBlock
<1>d. blocks \in Int /\ MqBlocks \in Nat /\ NOut \in Nat /\ Len(queue) \in Nat
  BY MqNumbers
<1>e. HeldNow \in Int
  BY <1>0
<1>c. cp[1] # "exited" => NOut + HeldNow + Len(queue) = SentBlocks + SentEnd
  BY <1>a DEF MqFlow
<1>1. CASE Mq!P_Read
  <2>1. pp = "read" /\ pp' = "send" /\ blocks' = blocks + 1 /\ blocks < MqBlocks /\ UNCHANGED <<queue, eof_flag>>
    BY <1>1 DEF Mq!P_Read
  <2>2. MqStage'
    BY <1>0, <1>a, <2>1, MqNumbers DEF MqStage
  <2>3. MqFlow' /\ MqCut'
    BY <1>0, <1>a, <2>1, MqNumbers DEF MqFlow, MqCut, SentBlocks, SentEnd
  <2>4. QED
    BY <1>b, <2>2, <2>3
<1>2. CASE Mq!P_ReadEnd
  <2>1. pp = "read" /\ pp' = "sendEOF" /\ UNCHANGED <<queue, blocks>> /\ blocks = MqBlocks
    BY <1>2 DEF Mq!P_ReadEnd
  <2>2. eof_flag'
    BY <1>2 DEF Mq!P_ReadEnd
  <2>3. MqStage'
    BY <1>0, <1>a, <2>1, <2>2 DEF MqStage
  <2>4. MqFlow'
    BY <1>0, <1>a, <2>1 DEF MqFlow, SentBlocks, SentEnd
  <2>5. MqCut'
    BY <1>0, <1>a, <2>1, <2>2 DEF MqCut
  <2>6. QED
    BY <1>b, <2>3, <2>4, <2>5
<1>3. CASE Mq!P_Send
  <2>1. /\ pp = "send" /\ pp' = "read" /\ UNCHANGED <<blocks, eof_flag>>
        /\ queue' = Append(queue, [run |-> run, block |-> blocks])
        /\ [run |-> run, block |-> blocks] \in Mq!Message
    BY <1>3, MqNumbers DEF Mq!P_Send, Mq!msgsnd, MqInv, Mq!TypeOK, Mq!Message
  <2>2. MqStage' /\ MqCut'
    BY <1>0, <1>a, <2>1 DEF MqStage, MqCut
  <2>3. /\ Len(queue') = Len(queue) + 1
        /\ \A i \in 1..Len(queue') :
             /\ i <= Len(queue) => i \in 1..Len(queue) /\ queue'[i] = queue[i]
             /\ i > Len(queue) => queue'[i].block = blocks
    BY <2>1, MqNumbers, AppendElements
  <2>4. MqFlow'
    <3>0. SentBlocks + SentEnd = blocks - 1 /\ SentBlocks' + SentEnd' = blocks
      BY <2>1, MqNumbers DEF SentBlocks, SentEnd
    <3>1. ASSUME cp[1] # "exited", NEW k \in 1..Len(queue')
          PROVE  queue'[k].block = BlockAt(NOut + HeldNow + k)
      <4>1. CASE k <= Len(queue)
        BY <1>0, <1>a, <2>3, <3>1, <4>1 DEF MqFlow
      <4>2. CASE k > Len(queue)
        <5>1. NOut + HeldNow + k = blocks
          BY SMTT(30), <1>0, <1>c, <3>0, <1>d, <2>3, <3>1, <4>2
        <5>2. QED
          BY <2>3, <4>2, <5>1, MqNumbers DEF BlockAt
      <4>3. QED
        BY <2>3, <4>1, <4>2, MqNumbers
    <3>2. cp[1] # "exited" => NOut + HeldNow + Len(queue') = SentBlocks' + SentEnd'
      <4> SUFFICES ASSUME cp[1] # "exited" PROVE NOut + HeldNow + Len(queue') = SentBlocks' + SentEnd'
        OBVIOUS
      <4>1. NOut + HeldNow + Len(queue) = blocks - 1
        BY <1>c, <3>0
      <4>2. NOut + HeldNow + Len(queue') = blocks
        BY <1>d, <1>e, <2>3, <4>1
      <4>3. QED
        BY <3>0, <4>2
    <3>3. QED
      BY <1>0, <1>a, <3>1, <3>2 DEF MqFlow, BlockAt
  <2>5. QED
    BY <1>b, <2>2, <2>4
<1>4. CASE Mq!P_SendEOF /\ Mq!msgsnd(0)
  <2>1. /\ pp = "sendEOF" /\ pp' = "wait" /\ UNCHANGED <<blocks, eof_flag>>
        /\ queue' = Append(queue, [run |-> run, block |-> 0])
    BY <1>4 DEF Mq!P_SendEOF, Mq!msgsnd
  <2>0. [run |-> run, block |-> 0] \in Mq!Message
    BY <1>d DEF MqInv, Mq!TypeOK, Mq!Message
  <2>2. MqStage' /\ MqCut'
    BY <1>0, <1>a, <2>1 DEF MqStage, MqCut
  <2>3. /\ Len(queue') = Len(queue) + 1
        /\ \A i \in 1..Len(queue') :
             /\ i <= Len(queue) => i \in 1..Len(queue) /\ queue'[i] = queue[i]
             /\ i > Len(queue) => queue'[i].block = 0
    BY <2>0, <2>1, MqNumbers, AppendElements
  <2>4. MqFlow'
    <3>0. SentBlocks + SentEnd = MqBlocks /\ SentBlocks' + SentEnd' = MqBlocks + 1
      <4>1. blocks = MqBlocks
        BY <1>a, <2>1 DEF MqStage
      <4>2. QED
        BY <2>1, <4>1, MqNumbers DEF SentBlocks, SentEnd
    <3>1. ASSUME cp[1] # "exited", NEW k \in 1..Len(queue')
          PROVE  queue'[k].block = BlockAt(NOut + HeldNow + k)
      <4>1. CASE k <= Len(queue)
        <5>1. k \in 1..Len(queue) /\ queue'[k] = queue[k]
          BY <2>3, <4>1, Zenon
        <5>2. queue[k].block = BlockAt(NOut + HeldNow + k)
          BY <1>a, <3>1, <5>1 DEF MqFlow
        <5>3. QED
          BY ONLY <5>1, <5>2
      <4>2. CASE k > Len(queue)
        <5>1. NOut + HeldNow + k = MqBlocks + 1
          BY <1>0, <1>c, <3>0, <1>d, <2>3, <3>1, <4>2
        <5>2. QED
          BY <2>3, <4>2, <5>1, MqNumbers DEF BlockAt
      <4>3. QED
        BY <2>3, <4>1, <4>2, MqNumbers
    <3>2. cp[1] # "exited" => NOut + HeldNow + Len(queue') = SentBlocks' + SentEnd'
      <4> SUFFICES ASSUME cp[1] # "exited" PROVE NOut + HeldNow + Len(queue') = SentBlocks' + SentEnd'
        OBVIOUS
      <4>1. NOut + HeldNow + Len(queue) = MqBlocks
        BY <1>c, <3>0
      <4>2. NOut + HeldNow + Len(queue') = MqBlocks + 1
        BY <1>d, <1>e, <2>3, <4>1
      <4>3. QED
        BY <3>0, <4>2
    <3>3. QED
      BY <1>0, <1>a, <3>1, <3>2 DEF MqFlow, BlockAt
  <2>5. QED
    BY <1>b, <2>2, <2>4
<1>5. CASE Mq!P_Wait
  <2>1. pp = "wait" /\ pp' = "done" /\ cp[1] = "exited" /\ UNCHANGED <<blocks, eof_flag>>
    BY <1>5 DEF Mq!P_Wait, MqInv, Mq!TypeOK, Mq!Runs
  <2>2. QED
    BY <1>0, <1>a, <1>b, <2>1 DEF MqStage, MqFlow, MqCut
<1>6. QED
  BY <1>1, <1>2, <1>3, <1>4, <1>5 DEF MqParentStep

\* A message that is not the end can only be written while there are blocks missing.
LEMMA MqWrites ==
  ASSUME MqInv, cp[1] = "write"
  PROVE  msg[1].block = NOut + 1 /\ NOut < MqBlocks /\ NOut + 1 <= blocks
<1>1. Holds(1) /\ msg[1].block # 0 /\ msg[1].block = BlockAt(NOut + 1) /\ cp[1] # "exited"
  BY DEF MqInv, MqFlow, Holds
<1>2. msg[1].block = NOut + 1 /\ NOut # MqBlocks
  BY <1>1, MqNumbers DEF BlockAt
<1>3. NOut < MqBlocks
  BY <1>2, MqNumbers
<1>4. NOut + 1 + Len(queue) = SentBlocks + SentEnd
  BY <1>1 DEF MqInv, MqFlow, HeldNow
<1>5. SentEnd = 0 \/ (SentEnd = 1 /\ blocks = MqBlocks)
  BY DEF SentEnd, MqInv, MqStage
<1>6. SentBlocks <= blocks /\ SentBlocks \in Int
  BY MqNumbers DEF SentBlocks
<1>7. NOut + 1 <= blocks
  BY <1>3, <1>4, <1>5, <1>6, MqNumbers
<1>8. QED
  BY <1>2, <1>3, <1>7

\* The child writes the two halves of the next block behind the others.
LEMMA MqPuts ==
  ASSUME MqInv, Mq!C_Write(1)
  PROVE  /\ NOut' = NOut + 1 /\ Len(out') = 2 * (NOut + 1) /\ offset'[1] = 2 * (NOut + 1)
         /\ \A k \in 1..NOut + 1 : Mq!IsBlock(k, k)' /\ out'[2 * k].msg.block = k
<1>1. msg[1].block = NOut + 1 /\ NOut \in Nat
  BY MqWrites, MqNumbers DEF Mq!C_Write, Mq!C_Step
<1>2. Mq!Length(msg[1]) = 2
  BY <1>1 DEF Mq!Length, Mq!EOF_MSG, Mq!MQ_SIZE
<1>3. Len(out) = 2 * NOut /\ offset[1] = 2 * NOut /\ \A k \in 1..NOut : Mq!IsBlock(k, k)
  BY DEF MqInv, MqOutput
<1>4. /\ offset' = [offset EXCEPT ![1] = 2 * NOut + 2]
      /\ out' = [i \in 1..2 * NOut + 2 |->
           IF 2 * NOut < i /\ i <= 2 * NOut + 2 THEN [msg |-> msg[1], part |-> i - 2 * NOut, by |-> 1]
           ELSE IF i <= 2 * NOut THEN out[i] ELSE Mq!Hole]
  <2>1. Mq!Put(1, 2)
    BY <1>2 DEF Mq!C_Write
  <2>2. (IF 2 * NOut + 2 > 2 * NOut THEN 2 * NOut + 2 ELSE 2 * NOut) = 2 * NOut + 2
    BY <1>1
  <2>3. QED
    BY <1>3, <2>1, <2>2, Zenon DEF Mq!Put
<1>5. /\ Len(out') = 2 * NOut + 2
      /\ \A i \in 1..2 * NOut : out'[i] = out[i]
      /\ \A i \in {2 * NOut + 1, 2 * NOut + 2} : out'[i].msg = msg[1] /\ out'[i].part = i - 2 * NOut
  <2>1. 2 * NOut + 2 \in Nat
    BY <1>1
  <2>2. Len(out') = 2 * NOut + 2
    BY <1>4, <2>1
  <2>3. ASSUME NEW i \in 1..2 * NOut PROVE out'[i] = out[i]
    BY <1>1, <1>4
  <2>4. ASSUME NEW i \in {2 * NOut + 1, 2 * NOut + 2}
        PROVE  out'[i] = [msg |-> msg[1], part |-> i - 2 * NOut, by |-> 1]
    BY <1>1, <1>4
  <2>5. QED
    BY <2>2, <2>3, <2>4
<1>6. NOut' = NOut + 1 /\ Len(out') = 2 * (NOut + 1)
  BY <1>1, <1>5 DEF NOut
<1>7. offset'[1] = 2 * (NOut + 1)
  BY <1>1, <1>4 DEF MqInv, Mq!TypeOK, Mq!Runs
<1>8. ASSUME NEW k \in 1..NOut + 1 PROVE Mq!IsBlock(k, k)' /\ out'[2 * k].msg.block = k
  <2>1. CASE k <= NOut
    <3>1. Mq!IsBlock(k, k)
      BY <1>1, <1>3, <2>1
    <3>2. /\ out[2 * k - 1].msg.block = k /\ out[2 * k - 1].part = 1
          /\ out[2 * k].msg.block = k /\ out[2 * k].part = 2
      BY <3>1 DEF Mq!IsBlock, Mq!MQ_SIZE
    <3>3. 2 * k - 1 \in 1..2 * NOut /\ 2 * k \in 1..2 * NOut
      BY <1>1, <2>1
    <3>4. /\ out'[2 * k - 1].msg.block = k /\ out'[2 * k - 1].part = 1
          /\ out'[2 * k].msg.block = k /\ out'[2 * k].part = 2
      BY <1>5, <3>2, <3>3
    <3>5. QED
      BY <3>4 DEF Mq!IsBlock, Mq!MQ_SIZE
  <2>2. CASE k = NOut + 1
    <3>1. /\ out'[2 * k - 1].msg.block = k /\ out'[2 * k - 1].part = 1
          /\ out'[2 * k].msg.block = k /\ out'[2 * k].part = 2
      <4>1. 2 * k - 1 = 2 * NOut + 1 /\ 2 * k = 2 * NOut + 2
        BY <1>1, <2>2
      <4>2. QED
        BY <1>1, <1>5, <2>2, <4>1
    <3>2. QED
      BY <3>1 DEF Mq!IsBlock, Mq!MQ_SIZE
  <2>3. QED
    BY <1>1, <2>1, <2>2
<1>9. QED
  BY <1>6, <1>7, <1>8

\* A step of the child keeps each part of the invariant.
LEMMA MqChildNext == ASSUME MqInv, Mq!Next, MqChildStep PROVE MqStage' /\ MqOutput' /\ MqFlow' /\ MqCut'
<1>0. MqStage /\ MqOutput /\ MqFlow /\ MqCut
  BY DEF MqInv
<1>1. UNCHANGED <<pp, blocks, eof_flag>> /\ SentBlocks' = SentBlocks /\ SentEnd' = SentEnd
  BY DEF MqChildStep, Mq!C_Open, Mq!C_Receive, Mq!C_Test, Mq!C_Write, Mq!parent, SentBlocks, SentEnd
<1>2. /\ NOut \in Nat /\ Len(queue) \in Nat /\ MqBlocks \in Nat /\ QueueSize \in Nat
      /\ blocks \in 0..MqBlocks /\ Len(queue) <= QueueSize
  BY MqNumbers
<1>3. cp[1] # "exited" => NOut + HeldNow + Len(queue) = SentBlocks + SentEnd
  BY <1>0 DEF MqFlow
<1>4. MqStage'
  <2>1. cp[1] # "exited" /\ cp'[1] # "unborn"
    BY DEF MqChildStep, Mq!C_Open, Mq!C_Receive, Mq!C_Test, Mq!C_Write, Mq!C_Step, MqInv, Mq!TypeOK, Mq!Runs
  <2>2. QED
    BY <1>0, <1>1, <2>1 DEF MqStage
<1>5. CASE Mq!C_Open(1) /\ cp'[1] = "receive"
  <2>1. cp[1] = "open" /\ cp'[1] = "receive" /\ UNCHANGED <<queue, msg, offset, out>>
    <3>1. cp[1] = "open" /\ out' = <<>> /\ offset' = [offset EXCEPT ![1] = 0] /\ UNCHANGED <<queue, msg>>
      BY <1>5 DEF Mq!C_Open, Mq!C_Step
    <3>2. out = <<>> /\ offset[1] = 0 /\ offset \in [1..1 -> Nat]
      BY <1>0, <3>1 DEF MqOutput, MqInv, Mq!TypeOK, Mq!Runs
    <3>3. QED
      BY <1>5, <3>1, <3>2
  <2>2. ~Holds(1) /\ ~Holds(1)' /\ HeldNow = 0 /\ HeldNow' = 0 /\ NOut' = NOut
    BY <2>1 DEF Holds, HeldNow, NOut
  <2>3. QED
    BY <1>0, <1>1, <1>4, <2>1, <2>2 DEF MqOutput, MqFlow, MqCut, BlockAt, Mq!IsBlock
<1>6. CASE Mq!C_Receive(1)
  <2>1. cp[1] = "receive" /\ cp'[1] = "test" /\ msg'[1] = queue[1] /\ UNCHANGED <<offset, out>>
    BY <1>6, MqNumbers, TailElements DEF Mq!C_Receive, Mq!C_Step, Mq!file, MqInv, Mq!TypeOK, Mq!Runs
  <2>2. /\ Len(queue) \in Nat \ {0} /\ Len(queue') = Len(queue) - 1
        /\ \A i \in 1..Len(queue') : i + 1 \in 1..Len(queue) /\ queue'[i] = queue[i + 1]
    BY <1>6, MqNumbers, TailElements DEF Mq!C_Receive
  <2>3. ~Holds(1) /\ Holds(1)' /\ HeldNow = 0 /\ HeldNow' = 1 /\ NOut' = NOut
    BY <2>1 DEF Holds, HeldNow, NOut
  <2>4. NOut' + HeldNow' + Len(queue') = SentBlocks' + SentEnd'
    <3>1. NOut + HeldNow + Len(queue) = SentBlocks + SentEnd
      BY <1>3, <2>1
    <3>2. NOut' + HeldNow' + Len(queue') = NOut + HeldNow + Len(queue)
      BY <1>2, <2>2, <2>3
    <3>3. QED
      BY <1>1, <3>1, <3>2
  <2>5. msg'[1].block = BlockAt(NOut + 1)
    BY <1>0, <1>2, <2>1, <2>2, <2>3 DEF MqFlow
  <2>6. ASSUME NEW k \in 1..Len(queue') PROVE queue'[k].block = BlockAt(NOut' + HeldNow' + k)
    <3>1. queue[k + 1].block = BlockAt(NOut + HeldNow + (k + 1)) /\ queue'[k] = queue[k + 1]
      BY <1>0, <2>1, <2>2 DEF MqFlow
    <3>2. NOut + HeldNow + (k + 1) = NOut' + HeldNow' + k
      BY <1>2, <2>3
    <3>3. QED
      BY <3>1, <3>2
  <2>7. MqFlow'
    BY <2>1, <2>3, <2>4, <2>5, <2>6 DEF MqFlow, BlockAt
  <2>8. QED
    BY <1>0, <1>4, <2>1, <2>3, <2>7 DEF MqOutput, MqCut, Mq!IsBlock
<1>7. CASE Mq!C_Test(1)
  <2>1. /\ cp[1] = "test" /\ UNCHANGED <<queue, msg, offset, out>>
        /\ cp'[1] = IF Mq!IsEof(msg[1]) THEN "exited" ELSE "write"
    BY <1>7 DEF Mq!C_Test, Mq!C_Step, Mq!file, MqInv, Mq!TypeOK, Mq!Runs
  <2>2. Holds(1) /\ HeldNow = 1 /\ NOut' = NOut
    BY <2>1 DEF Holds, HeldNow, NOut
  <2>3. msg[1].block = BlockAt(NOut + 1) /\ NOut + 1 + Len(queue) = SentBlocks + SentEnd
    BY <1>0, <2>1, <2>2 DEF MqFlow
  <2>4. SentEnd \in {0, 1} /\ SentBlocks \in Int /\ SentBlocks <= blocks
    BY <1>2 DEF SentEnd, SentBlocks
  <2>5. CASE Mq!IsEof(msg[1])
    <3>1. eof_flag /\ msg[1].block \in MqEofLike \cup {0} /\ cp'[1] = "exited"
      BY <2>1, <2>5 DEF Mq!IsEof, Mq!EOF_MSG
    <3>2. blocks = MqBlocks /\ SentBlocks = blocks
      BY <1>0, <3>1 DEF MqStage, SentBlocks
    <3>3. NOut + 1 + Len(queue) = MqBlocks + SentEnd
      BY <2>3, <3>2
    <3>4. NOut <= MqBlocks /\ MqBlocks - NOut <= QueueSize + 1
      BY <1>2, <2>4, <3>3
    <3>5. NOut < MqBlocks => NOut + 1 \in MqEofLike
      BY <1>2, <2>3, <3>1 DEF BlockAt
    <3>6. MqCut'
      BY <1>1, <2>2, <3>1, <3>4, <3>5 DEF MqCut
    <3>7. QED
      BY <1>0, <1>4, <2>1, <2>2, <3>1, <3>6 DEF MqOutput, MqFlow, Mq!IsBlock
  <2>6. CASE ~Mq!IsEof(msg[1])
    <3>1. cp'[1] = "write"
      BY <2>1, <2>6
    <3>2. Holds(1)' /\ HeldNow' = 1
      BY <3>1 DEF Holds, HeldNow
    <3>3. msg[1].block # 0
      <4> SUFFICES ASSUME msg[1].block = 0 PROVE FALSE
        OBVIOUS
      <4>1. NOut = MqBlocks
        BY <1>2, <2>3 DEF BlockAt
      <4>2. SentEnd = 1
        BY <1>2, <2>3, <2>4, <4>1
      <4>3. eof_flag
        BY <1>0, <4>2 DEF MqStage, SentEnd
      <4>4. QED
        BY <2>6, <4>3 DEF Mq!IsEof, Mq!EOF_MSG
    <3>4. MqFlow'
      BY <1>0, <1>1, <2>1, <2>2, <3>1, <3>2, <3>3 DEF MqFlow, BlockAt
    <3>5. QED
      BY <1>0, <1>4, <2>1, <2>2, <3>1, <3>4 DEF MqOutput, MqCut, Mq!IsBlock
  <2>7. QED
    BY <2>5, <2>6
<1>8. CASE Mq!C_Write(1)
  <2>1. cp[1] = "write" /\ cp'[1] = "receive" /\ UNCHANGED <<queue, msg>>
    BY <1>8 DEF Mq!C_Write, Mq!C_Step, MqInv, Mq!TypeOK, Mq!Runs
  <2>2. NOut' = NOut + 1
    BY <1>8, MqPuts
  <2>4. MqOutput'
    BY <1>8, <2>1, MqPuts DEF MqOutput
  <2>5. Holds(1) /\ ~Holds(1)' /\ HeldNow = 1 /\ HeldNow' = 0
    BY <2>1 DEF Holds, HeldNow
  <2>6. NOut' + HeldNow' = NOut + HeldNow
    BY <1>2, <2>2, <2>5
  <2>7. MqFlow'
    BY <1>0, <1>1, <2>1, <2>5, <2>6 DEF MqFlow, BlockAt
  <2>8. QED
    BY <1>4, <2>1, <2>4, <2>7 DEF MqCut
<1>9. QED
  BY <1>5, <1>6, <1>7, <1>8 DEF MqChildStep

\* Every step of mq_run keeps its invariant.
LEMMA MqNext == MqInv /\ Mq!Next => MqInv'
  BY MqType, MqSteps, MqParentNext, MqChildNext DEF MqInv

-----------------------------------------------------------------------------
(* Theorems. *)

\* What holds of the three copies that Seminars may run.
CopiesInv ==
  /\ IInv
  /\ Runs("mq_run") => MqInv
  /\ Runs("mq_runs") => MqRunsInv

\* Both programs start in order.
LEMMA CopiesInit == InitAll => CopiesInv
  BY InitInvariant, MqInit, MqRunsInit DEF InitAll, CopiesInv, Runs

\* A step of another program, or none, keeps both invariants.
LEMMA MqUnchanged == UNCHANGED <<copy, mq>> => (MqInv => MqInv') /\ (MqRunsInv => MqRunsInv')
<1> SUFFICES ASSUME UNCHANGED <<copy, mq>> PROVE (MqInv => MqInv') /\ (MqRunsInv => MqRunsInv')
  OBVIOUS
<1>1. UNCHANGED <<pp, cp, blocks, out, run, queue, eof_flag, msg, offset>>
  BY DEF copy, mq
<1>2. MqInv => MqInv'
  BY <1>1
     DEF MqInv, Mq!TypeOK, MqStage, MqOutput, MqFlow, MqCut, NOut, SentBlocks, SentEnd, HeldNow, Holds, BlockAt,
         Mq!Message, Mq!Runs, Mq!IsBlock, Mq!Place, Mq!Hole, Mq!EOF_MSG, Mq!MQ_SIZE
<1>3. MqRunsInv => MqRunsInv'
  <2>1. MqRuns!TypeOK => MqRuns!TypeOK'
    BY <1>1
       DEF MqRuns!TypeOK, MqRuns!Message, MqRuns!Runs, MqRuns!Place, MqRuns!Hole, MqRuns!EOF_MSG, MqRuns!MQ_SIZE
  <2>2. SendsBlock /\ QueueInOrder => SendsBlock' /\ QueueInOrder'
    BY <1>1 DEF SendsBlock, QueueInOrder
  <2>3. HeldInOrder => HeldInOrder'
    BY <1>1 DEF HeldInOrder, Holds
  <2>4. PlacesInOrder /\ PairsInOrder => PlacesInOrder' /\ PairsInOrder'
    BY <1>1 DEF PlacesInOrder, PairsInOrder, Holds
  <2>5. QED
    BY <2>1, <2>2, <2>3, <2>4 DEF MqRunsInv
<1>4. QED
  BY <1>2, <1>3

\* Every step, of whichever program, keeps the invariants of both.
LEMMA CopiesNext == CopiesInv /\ [NextAll]_all => CopiesInv'
<1> SUFFICES ASSUME CopiesInv, [NextAll]_all PROVE CopiesInv'
  OBVIOUS
<1> USE DEF CopiesInv, Runs
<1>1. CASE MqStep
  <2>1. program' = program /\ program = "mq_run" /\ UNCHANGED vars
    BY <1>1 DEF MqStep
  <2>2. MqInv'
    BY <1>1, <2>1, MqNext DEF MqStep
  <2>3. QED
    BY <2>1, <2>2, NextStep
<1>2. CASE MqRunsStep
  <2>1. program' = program /\ program = "mq_runs" /\ UNCHANGED vars
    BY <1>2 DEF MqRunsStep
  <2>2. MqRunsInv'
    BY <1>2, <2>1, MqRunsNext DEF MqRunsStep
  <2>3. QED
    BY <2>1, <2>2, NextStep
<1>3. CASE ShmStep
  <2>1. program' = program /\ program = "shm_run" /\ Next
    BY <1>3 DEF ShmStep
  <2>2. QED
    BY <2>1, NextStep
<1>4. CASE FifoStep \/ DuplexStep \/ ShellStep \/ MonteCarloStep
  <2>1. program' = program /\ program \notin {"mq_run", "mq_runs"} /\ UNCHANGED vars
    BY <1>4 DEF FifoStep, DuplexStep, ShellStep, MonteCarloStep
  <2>2. QED
    BY <2>1, NextStep
<1>5. CASE UNCHANGED all
  <2>1. program' = program /\ UNCHANGED <<copy, mq>> /\ UNCHANGED vars
    BY <1>5 DEF all
  <2>2. QED
    BY <2>1, MqUnchanged, NextStep
<1>6. QED
  BY <1>1, <1>2, <1>3, <1>4, <1>5 DEF NextAll

\* The invariants hold of mq_run run once, and of a mq_run that is killed and run
\* again.
THEOREM CopiesInvariance == SeminarsSpec => []CopiesInv
  BY CopiesInit, CopiesNext, PTL DEF SeminarsSpec

\* The variables of the copies with a buffer or a queue keep their types, and no
\* queue is longer than the kernel allows.
THEOREM SeminarsTyped == SeminarsSpec => []SeminarsTypeOK
<1>1. CopiesInv => SeminarsTypeOK
  BY DEF CopiesInv, IInv, MqInv, MqRunsInv, SeminarsTypeOK
<1>2. QED
  BY <1>1, CopiesInvariance, PTL

\* However many failed runs have left messages and children behind, which write the file
\* of the next run: no two children have parts of one message, no part of a message is in
\* the file twice or still in the queue, and what one child has written is in the order
\* of sending.
THEOREM MessagesOnce == SeminarsSpec => []MqEachMessageOnce
<1>1. ASSUME CopiesInv, Runs("mq_runs") PROVE MqRuns!EachMessageOnce
  <2>1. PlacesInOrder /\ PairsInOrder
    BY <1>1 DEF CopiesInv, MqRunsInv
  <2>2. QED
    BY <2>1 DEF PlacesInOrder, PairsInOrder, InOrder, MqRuns!EachMessageOnce
<1>2. CopiesInv => MqEachMessageOnce
  BY <1>1 DEF MqEachMessageOnce
<1>3. QED
  BY <1>2, CopiesInvariance, PTL

\* The output of a run without faults stops early only in front of a block that
\* looks like the end, and never lacks more than the queue and the child can hold.
THEOREM CutOnlyAtTheQueue == SeminarsSpec => []MqCutOnlyAtEofLike
<1>1. ASSUME CopiesInv, Runs("mq_run") PROVE Mq!CutOnlyAtEofLike
  <2> SUFFICES ASSUME pp = "done"
               PROVE  \E n \in 0..MqBlocks :
                        /\ Len(out) = n * 2 /\ \A k \in 1..n : Mq!IsBlock(k, k)
                        /\ n < MqBlocks => n + 1 \in MqEofLike /\ MqBlocks - n <= QueueSize + 1
    BY DEF Mq!CutOnlyAtEofLike, Mq!MQ_SIZE
  <2>1. MqInv
    BY <1>1 DEF CopiesInv
  <2>2. cp[1] = "exited" /\ Len(out) = 2 * NOut /\ \A k \in 1..NOut : Mq!IsBlock(k, k)
    BY <2>1 DEF MqInv, MqStage, MqOutput
  <2>3. NOut \in 0..MqBlocks /\ Len(out) = NOut * 2
    BY <2>1, <2>2, MqNumbers DEF MqInv, MqCut
  <2>4. QED
    BY <2>1, <2>2, <2>3 DEF MqInv, MqCut
<1>2. CopiesInv => MqCutOnlyAtEofLike
  BY <1>1 DEF MqCutOnlyAtEofLike
<1>3. QED
  BY <1>2, CopiesInvariance, PTL

\* What the parent of MqCopy can do, the guards of its steps, and the child.
MqParentMoves ==
  \/ pp = "read" /\ blocks <= MqBlocks
  \/ pp \in {"send", "sendEOF"} /\ Len(queue) < QueueSize
  \/ pp = "wait" /\ cp[1] = "exited"
MqChildMoves ==
  \/ cp[1] \in {"open", "test", "write"}
  \/ cp[1] = "receive" /\ (queue # <<>> \/ pp = "done")

\* A parent that sleeps at a full queue and a child that sleeps at an empty one
\* are never asleep together, and a parent in wait() has a child that moves or has
\* ended: nothing moves only when the parent has returned, or sleeps in msgsnd()
\* because the child has gone at a block that looks like the end.
MqNoDeadlock == Runs("mq_run") => MqParentMoves \/ MqChildMoves \/ Mq!Ended

\* Whatever file and queue: parent and child of MqCopy do not wait for one another at a
\* full and an empty queue.
THEOREM MqNeverStuck == SeminarsSpec => []MqNoDeadlock
<1>1. ASSUME MqInv, ~MqParentMoves, ~MqChildMoves, ~(cp[1] = "exited" /\ Len(queue) = QueueSize)
      PROVE  pp = "done"
  <2> SUFFICES ASSUME pp # "done" PROVE FALSE
    OBVIOUS
  <2>1. cp[1] \in {"receive", "exited"}
    BY <1>1 DEF MqInv, Mq!TypeOK, Mq!Runs, MqStage, MqChildMoves
  <2>2. pp = "wait" \/ (pp \in {"send", "sendEOF"} /\ Len(queue) = QueueSize)
    BY <1>1, MqNumbers DEF MqInv, MqStage, MqParentMoves
  <2>3. cp[1] = "receive" /\ queue = <<>>
    BY <1>1, <2>1, <2>2 DEF MqParentMoves, MqChildMoves
  <2>4. QueueSize > 0
    BY MqConstantsTyped DEF MqConstants
  <2>5. pp = "wait"
    BY <2>2, <2>3, <2>4
  <2>6. NOut + HeldNow + Len(queue) = SentBlocks + SentEnd
    BY <1>1, <2>3 DEF MqInv, MqFlow
  <2>7. NOut = MqBlocks + 1
    BY <1>1, <2>3, <2>5, <2>6, MqNumbers DEF HeldNow, Holds, SentBlocks, SentEnd, MqInv, MqStage
  <2>8. Len(out) = 2 * NOut /\ Mq!IsBlock(NOut, NOut)
    <3>1. NOut \in 1..NOut
      BY <1>1, <2>7, MqNumbers
    <3>2. QED
      BY <1>1, <3>1 DEF MqInv, MqOutput
  <2>9. out[2 * NOut].msg.block = NOut
    BY <1>1, <2>8, MqNumbers DEF Mq!IsBlock, Mq!MQ_SIZE
  <2>10. out[2 * NOut].msg.block \in 0..MqBlocks
    <3>1. 2 * NOut \in 1..Len(out)
      BY <1>1, <2>7, <2>8, MqNumbers
    <3>2. out[2 * NOut] \in Mq!Place \/ out[2 * NOut] = Mq!Hole
      BY <1>1, <3>1 DEF MqInv, Mq!TypeOK
    <3>3. QED
      BY <1>1, <3>2, MqNumbers DEF Mq!Place, Mq!Hole, Mq!EOF_MSG
  <2>11. QED
    BY <1>1, <2>7, <2>9, <2>10, MqNumbers
<1>2. CopiesInv => MqNoDeadlock
  BY <1>1 DEF CopiesInv, MqNoDeadlock, Mq!Ended
<1>3. QED
  BY <1>2, CopiesInvariance, PTL

\* A run without faults is an ordered copy that loses nothing between the blocks.
THEOREM MqImplementsOrderedCopy == SeminarsSpec => MqCopiesInOrder
<1>1. InitAll => MqOrdered!Init
  <2> SUFFICES ASSUME InitAll PROVE MqOrdered!Init
    OBVIOUS
  <2>1. CASE Runs("mq_run")
    <3>0. Mq!Init
      BY <2>1 DEF InitAll, Runs
    <3>1. blocks = 0 /\ out = <<>>
      BY <3>0 DEF Mq!Init, Mq!Runs
    <3>2. MqWritten = <<>>
      BY <3>1 DEF MqWritten, Mq!MQ_SIZE
    <3>3. QED
      BY <2>1, <3>1, <3>2 DEF MqOrdered!Init, Of
  <2>2. CASE ~Runs("mq_run")
    BY <2>2 DEF MqOrdered!Init, Of
  <2>3. QED
    BY <2>1, <2>2
<1>2. CopiesInv /\ [NextAll]_all => [MqOrdered!Next]_(MqOrdered!vars)
  <2> SUFFICES ASSUME CopiesInv, [NextAll]_all PROVE [MqOrdered!Next]_(MqOrdered!vars)
    OBVIOUS
  <2>1. CASE MqStep /\ Mq!P_Read
    <3>1. Runs("mq_run") /\ Runs("mq_run")' /\ blocks < MqBlocks /\ blocks' = blocks + 1 /\ out' = out
      BY <2>1 DEF MqStep, Runs, Mq!P_Read, Mq!children, Mq!file
    <3>2. MqWritten' = MqWritten
      BY <3>1 DEF MqWritten, Mq!MQ_SIZE
    <3>3. MqOrdered!Take
      BY <3>1, <3>2 DEF MqOrdered!Take, Of
    <3>4. QED
      BY <3>3 DEF MqOrdered!Next
  <2>2. CASE MqStep /\ Mq!C_Write(1)
    <3>1. Runs("mq_run") /\ Runs("mq_run")' /\ MqInv /\ cp[1] = "write" /\ blocks' = blocks
      BY <2>2 DEF MqStep, Runs, Mq!C_Write, Mq!C_Step, Mq!parent, CopiesInv
    <3>2. msg[1].block = NOut + 1 /\ NOut + 1 <= blocks /\ NOut \in Nat /\ blocks \in Nat
      BY <3>1, MqWrites, MqNumbers
    <3>3. MqWritten = [i \in 1..NOut |-> i]
      <4>1. \A k \in 1..NOut : out[k * 2].msg.block = k
        <5>1. \A k \in 1..NOut : Mq!IsBlock(k, k)
          BY <3>1 DEF MqInv, MqOutput
        <5>2. \A k \in 1..NOut : out[(k - 1) * 2 + 2].msg.block = k
          BY <5>1 DEF Mq!IsBlock, Mq!MQ_SIZE
        <5>3. QED
          BY <3>2, <5>2
      <4>2. QED
        BY <4>1 DEF MqWritten, Mq!MQ_SIZE, NOut
    <3>4. MqWritten' = [i \in 1..NOut + 1 |-> i]
      <4>1. NOut' = NOut + 1 /\ \A k \in 1..NOut + 1 : out'[2 * k].msg.block = k
        BY <2>2, <3>1, MqPuts
      <4>2. \A k \in 1..NOut + 1 : out'[k * 2].msg.block = k
        BY <3>2, <4>1
      <4>3. QED
        BY <4>1, <4>2 DEF MqWritten, Mq!MQ_SIZE, NOut
    <3>5. MqOrdered!Put(NOut + 1)
      <4>1. MqOrdered!Settled = 1..NOut
        BY <3>1, <3>2, <3>3 DEF MqOrdered!Settled, MqOrdered!Range, Of
      <4>2. MqWritten' = Append(MqWritten, NOut + 1)
        BY <3>2, <3>3, <3>4
      <4>3. QED
        BY <3>1, <3>2, <4>1, <4>2 DEF MqOrdered!Put, Of
    <3>6. QED
      BY <3>1, <3>2, <3>5 DEF MqOrdered!Next, Of
  <2>3. CASE UNCHANGED <<program, blocks, out>>
    <3>1. MqWritten' = MqWritten
      BY <2>3 DEF MqWritten, Mq!MQ_SIZE
    <3>2. QED
      BY <2>3, <3>1 DEF MqOrdered!vars, Of, Runs
  <2>4. CASE ~Runs("mq_run") /\ program' = program
    BY <2>4 DEF MqOrdered!vars, Of, Runs
  <2>5. MqStep => Mq!P_Read \/ Mq!C_Write(1) \/ UNCHANGED <<program, blocks, out>>
    <3> SUFFICES ASSUME MqStep PROVE Mq!P_Read \/ Mq!C_Write(1) \/ UNCHANGED <<program, blocks, out>>
      OBVIOUS
    <3>1. MqInv /\ (MqParentStep \/ MqChildStep)
      BY MqSteps DEF MqStep, CopiesInv
    <3>2. Mq!C_Open(1) => out' = out
      BY <3>1 DEF Mq!C_Open, Mq!C_Step, MqInv, MqOutput
    <3>3. QED
      BY <3>1, <3>2
         DEF MqStep, MqParentStep, MqChildStep, Mq!P_ReadEnd, Mq!P_Send, Mq!P_SendEOF, Mq!P_Wait, Mq!children, Mq!parent,
             Mq!C_Open, Mq!C_Receive, Mq!C_Test, Mq!file
  <2>6. QED
    BY <2>1, <2>2, <2>3, <2>4, <2>5
       DEF NextAll, ShmStep, MqRunsStep, FifoStep, DuplexStep, ShellStep, MonteCarloStep, Runs, all, copy
<1>3. QED
  BY <1>1, <1>2, CopiesInvariance, PTL DEF SeminarsSpec, MqCopiesInOrder, MqOrdered!Spec

=============================================================================
