-------------------------- MODULE SignalCopyProofs --------------------------
(***************************************************************************)
(* Proofs about SignalCopy, for any number of chunks and of blocks, any    *)
(* set of faults and both ways signals may arrive.                         *)
(***************************************************************************)
EXTENDS SignalCopy, TLAPS

\* What the steps of the program preserve together: the order and the
\* completeness of the pipeline rest on every chunk having one holder.
IInv == TypeOK /\ OneHolder /\ NothingVanishes /\ PipelineOrder /\ OutputInOrder

-----------------------------------------------------------------------------
(* Queues of signals. *)

\* Queueing a signal adds its chunk to those announced.
LEMMA RangeAppend ==
  ASSUME NEW S, NEW s \in Seq(S), NEW e \in S
  PROVE  /\ Append(s, e) \in Seq(S)
         /\ Range(Append(s, e)) = Range(s) \cup {e}
<1>1. /\ Append(s, e) \in Seq(S)
      /\ DOMAIN Append(s, e) = 1..(Len(s) + 1)
      /\ \A i \in 1..Len(s) : Append(s, e)[i] = s[i]
      /\ Append(s, e)[Len(s) + 1] = e
      /\ DOMAIN s = 1..Len(s) /\ Len(s) \in Nat
  OBVIOUS
<1>2. QED
  BY <1>1 DEF Range

\* Delivering a signal takes its chunk from those announced.
LEMMA RangeTail ==
  ASSUME NEW S, NEW s \in Seq(S), s # <<>>
  PROVE  /\ Head(s) \in S /\ Tail(s) \in Seq(S)
         /\ Range(s) = {Head(s)} \cup Range(Tail(s))
<1>1. /\ Head(s) \in S /\ Tail(s) \in Seq(S)
      /\ Len(s) \in Nat /\ Len(s) > 0
      /\ DOMAIN s = 1..Len(s) /\ DOMAIN Tail(s) = 1..(Len(s) - 1)
      /\ Head(s) = s[1]
      /\ \A i \in 1..(Len(s) - 1) : Tail(s)[i] = s[i + 1]
  OBVIOUS
<1>2. Range(s) \subseteq {Head(s)} \cup Range(Tail(s))
  <2> SUFFICES ASSUME NEW i \in 1..Len(s), s[i] # Head(s)
               PROVE  s[i] \in Range(Tail(s))
    BY <1>1 DEF Range
  <2>1. i - 1 \in 1..(Len(s) - 1) /\ s[i] = Tail(s)[i - 1]
    BY <1>1
  <2> QED
    BY <1>1, <2>1 DEF Range
<1>3. {Head(s)} \cup Range(Tail(s)) \subseteq Range(s)
  BY <1>1 DEF Range
<1>4. QED
  BY <1>1, <1>2, <1>3

\* A queue in which every chunk is announced once stays so when a chunk that
\* is not announced is queued ...
LEMMA InjectiveAppend ==
  ASSUME NEW S, NEW s \in Seq(S), NEW e \in S, IsInjective(s), e \notin Range(s)
  PROVE  IsInjective(Append(s, e))
<1>1. /\ DOMAIN Append(s, e) = 1..(Len(s) + 1)
      /\ \A i \in 1..Len(s) : Append(s, e)[i] = s[i]
      /\ Append(s, e)[Len(s) + 1] = e
      /\ DOMAIN s = 1..Len(s) /\ Len(s) \in Nat
  OBVIOUS
<1>2. QED
  BY <1>1 DEF Range, IsInjective

\* ... and when a chunk is delivered, which is then announced no more.
LEMMA InjectiveTail ==
  ASSUME NEW S, NEW s \in Seq(S), s # <<>>, IsInjective(s)
  PROVE  IsInjective(Tail(s)) /\ Head(s) \notin Range(Tail(s))
<1>1. /\ Len(s) \in Nat /\ Len(s) > 0
      /\ DOMAIN s = 1..Len(s) /\ DOMAIN Tail(s) = 1..(Len(s) - 1)
      /\ Head(s) = s[1]
      /\ \A i \in 1..(Len(s) - 1) : Tail(s)[i] = s[i + 1]
  OBVIOUS
<1>2. QED
  BY <1>1 DEF Range, IsInjective

\* Nothing is announced by an empty queue.
LEMMA EmptyQueue == Range(<<>>) = {} /\ IsInjective(<<>>)
  BY DEF Range, IsInjective

-----------------------------------------------------------------------------
(* The inductive invariant. *)

\* At the start all slots are free and no signal is queued.
LEMMA InitInvariant == Init => IInv
<1> SUFFICES ASSUME Init PROVE IInv
  OBVIOUS
<1> USE ConstantsAssumption, EmptyQueue
<1>1. TypeOK
  BY DEF Init, TypeOK, Chunks, NoPid, Blocks
<1>2. OneHolder
  BY DEF Init, OneHolder, ParentHolds, ChildHolds
<1>3. NothingVanishes
  BY DEF Init, NothingVanishes, Settled, Lost, InFlight, Unsent, PendingBlocks, Writing
<1>4. PipelineOrder /\ OutputInOrder
  BY DEF Init, PipelineOrder, OutputInOrder, Lost, InFlight, Unsent, PendingBlocks, Writing
<1>5. QED
  BY <1>1, <1>2, <1>3, <1>4 DEF IInv

\* What is on its way to the output file are blocks of the input file.
LEMMA InFlightBlocks ==
  ASSUME TypeOK, NothingVanishes
  PROVE  InFlight \subseteq Blocks
<1>1. 1..bytes_read \subseteq Blocks
  BY ConstantsAssumption DEF TypeOK, Blocks
<1>2. QED
  BY <1>1 DEF NothingVanishes

\* A step leaves every variable with its type.
LEMMA TypeStep == IInv /\ [Next]_vars => TypeOK'
<1> SUFFICES ASSUME IInv, [Next]_vars PROVE TypeOK'
  OBVIOUS
<1> USE DEF IInv, TypeOK
<1>a. Unsent \cup PendingBlocks \cup Writing \subseteq Blocks
  BY InFlightBlocks DEF InFlight
<1>b. queued < NChunks => queued \in Chunks /\ queued + 1 \in 0..NChunks
  BY ConstantsAssumption DEF Chunks
<1>c. /\ \A c \in Chunks : Append(prodQ, c) \in Seq(Chunks) /\ Append(consQ, c) \in Seq(Chunks)
      /\ prodQ # <<>> => Head(prodQ) \in Chunks /\ Tail(prodQ) \in Seq(Chunks)
      /\ consQ # <<>> => Head(consQ) \in Chunks /\ Tail(consQ) \in Seq(Chunks)
      /\ <<>> \in Seq(Chunks)
  OBVIOUS
<1>d. /\ bytes_read + 1 \in 0..FileBlocks <=> bytes_read < FileBlocks
      /\ attempts + 1 \in Nat
  BY ConstantsAssumption
<1>1. CASE StorePid
  BY <1>1 DEF StorePid, P_Step, shm, signals, mains, handlers, history
<1>2. CASE P_Check
  BY <1>2 DEF P_Check, P_Step, shm, signals, mains, handlers, history
<1>3. CASE P_Pause
  BY <1>3 DEF P_Pause, P_Step, shm, signals, mains, handlers, history
<1>4. CASE P_Reap
  BY <1>4 DEF P_Reap, P_Step, shm, signals, mains, handlers, history
<1>5. CASE P_Leave
  BY <1>5 DEF P_Leave, P_Step, shm, signals, mains, handlers, history
<1>6. CASE ProducerSignal
  BY SMTT(30), <1>6, <1>c DEF ProducerSignal, shm, signals, mains, handlers, history
<1>7. CASE P_Read
  BY <1>7, <1>d DEF P_Read, shm, signals, mains, handlers, history
<1>8. CASE P_ReadRetry
  BY <1>8, <1>d DEF P_ReadRetry, shm, signals, mains, handlers, history
<1>9. CASE P_ReadStop
  BY <1>9, <1>c, <1>d DEF P_ReadStop, shm, signals, mains, handlers, history
<1>10. CASE P_Send
  <2>1. dropped' \subseteq Blocks
    BY <1>10, <1>a DEF P_Send, Unsent
  <2>2. consQ' \in Seq(Chunks)
    BY <1>10, <1>c DEF P_Send
  <2>3. QED
    BY <1>10, <2>1, <2>2 DEF P_Send, shm, mains
<1>11. CASE P_SendFail
  BY <1>11, <1>a DEF P_SendFail, Unsent, shm, signals, mains, handlers, history
<1>12. CASE C_Open
  BY <1>12 DEF C_Open, C_Step, shm, signals, mains, handlers, history
<1>13. CASE C_Queue
  BY <1>13, <1>b, <1>c DEF C_Queue, C_Step, SendToParent, shm, signals, mains, handlers, history
<1>14. CASE C_Check
  BY <1>14 DEF C_Check, C_Step, shm, signals, mains, handlers, history
<1>15. CASE C_Pause
  BY <1>15 DEF C_Pause, C_Step, shm, signals, mains, handlers, history
<1>16. CASE C_Leave
  BY <1>16 DEF C_Leave, C_Step, shm, signals, mains, handlers, history
<1>17. CASE C_Exit
  BY <1>17, <1>a, <1>c DEF C_Exit, C_Step, shm, signals, mains, handlers, history
<1>18. CASE ConsumerSignal
  <2>1. dropped' \subseteq Blocks
    BY <1>18, <1>a DEF ConsumerSignal
  <2>2. consQ' \in Seq(Chunks) /\ chc' \in Chunks /\ ch' \in {"none", "write", "send"}
    BY <1>18, <1>c DEF ConsumerSignal
  <2>3. /\ cpc' \in {"open", "queue", "check", "pause", "paused", "ended", "closed",
                       "detached", "exited", "crashed"}
        /\ cpc' \in {"open", "queue"} => cpc \in {"open", "queue"}
    BY <1>18 DEF ConsumerSignal
  <2>4. QED
    BY <1>18, <2>1, <2>2, <2>3 DEF ConsumerSignal, shm
<1>19. CASE C_Write
  BY <1>19, <1>a DEF C_Write, Writing, shm, signals, mains, handlers, history
<1>20. CASE C_WriteFail
  BY <1>20, <1>a, <1>c DEF C_WriteFail, Writing, shm, signals, mains, handlers, history
<1>21. CASE C_Send
  BY <1>21, <1>c DEF C_Send, SendToParent, shm, signals, mains, handlers, history
<1>22. CASE C_SendFail
  BY <1>22 DEF C_SendFail, shm, signals, mains, handlers, history
<1>23. CASE UNCHANGED vars
  BY <1>23 DEF vars
<1>24. QED
  BY <1>1, <1>2, <1>3, <1>4, <1>5, <1>6, <1>7, <1>8, <1>9, <1>10, <1>11, <1>12, <1>13, <1>14, <1>15, <1>16, <1>17, <1>18, <1>19, <1>20, <1>21, <1>22, <1>23
     DEF Next, ParentMain, ParentHandler, ChildMain, ChildHandler

\* A step moves a chunk from one holder to the next.
LEMMA HolderStep == IInv /\ [Next]_vars => OneHolder'
<1> SUFFICES ASSUME IInv, [Next]_vars PROVE OneHolder'
  OBVIOUS
<1> USE DEF ParentHolds, ChildHolds, Unannounced
<1>a. OneHolder /\ prodQ \in Seq(Chunks) /\ consQ \in Seq(Chunks) /\ phc \in Chunks /\ chc \in Chunks
  BY DEF IInv, TypeOK
<1>b. ASSUME NEW c \in Chunks, prodQ' = Append(prodQ, c)
      PROVE  /\ Range(prodQ') = Range(prodQ) \cup {c}
             /\ c \notin Range(prodQ) => IsInjective(prodQ')
  BY <1>a, <1>b, RangeAppend, InjectiveAppend DEF OneHolder
<1>1. CASE UNCHANGED <<prodQ, consQ, queued, ph, phc, ch, chc>>
  BY <1>a, <1>1 DEF OneHolder
<1>2. CASE ProducerSignal
  <2>1. /\ Range(prodQ) = {Head(prodQ)} \cup Range(prodQ')
        /\ IsInjective(prodQ') /\ Head(prodQ) \notin Range(prodQ')
    BY <1>a, <1>2, RangeTail, InjectiveTail DEF ProducerSignal, OneHolder
  <2>2. UNCHANGED <<consQ, queued, ch, chc>> /\ ph = "none"
        /\ (UNCHANGED <<ph, phc>> \/ phc' = Head(prodQ))
    BY <1>2 DEF ProducerSignal
  <2>3. QED
    BY <1>a, <2>1, <2>2 DEF OneHolder
<1>3. CASE P_Read \/ P_SendFail \/ C_Write \/ C_SendFail
  BY <1>a, <1>3 DEF P_Read, P_SendFail, C_Write, C_SendFail, signals, mains, OneHolder
<1>4. CASE P_ReadStop
  BY <1>a, <1>4, EmptyQueue DEF P_ReadStop, mains, OneHolder
<1>5. CASE P_Send
  <2>1. UNCHANGED <<prodQ, queued, phc, ch, chc>> /\ ph = "send" /\ ph' = "none"
    BY <1>5 DEF P_Send, mains
  <2>2. CASE consQ' = consQ
    BY <1>a, <2>1, <2>2 DEF OneHolder
  <2>3. CASE consQ' = Append(consQ, phc)
    <3>1. Range(consQ') = Range(consQ) \cup {phc} /\ IsInjective(consQ')
      BY <1>a, <2>1, <2>3, RangeAppend, InjectiveAppend DEF OneHolder
    <3>2. QED
      BY <1>a, <2>1, <3>1 DEF OneHolder
  <2>4. QED
    BY <1>5, <2>2, <2>3 DEF P_Send
<1>6. CASE C_Queue
  <2>1. /\ UNCHANGED <<consQ, ph, phc, ch, chc>> /\ queued' = queued + 1
        /\ queued \in Nat /\ queued < NChunks /\ NChunks \in Nat
        /\ queued \in Chunks /\ ch = "none"
        /\ (prodQ' = prodQ \/ prodQ' = Append(prodQ, queued))
    BY <1>6, ConstantsAssumption
       DEF C_Queue, C_Step, ChildRuns, SendToParent, handlers, IInv, TypeOK, Chunks
  <2>2. queued..(NChunks - 1) = {queued} \cup (queued'..(NChunks - 1))
        /\ queued \notin queued'..(NChunks - 1)
    BY <2>1
  <2>3. CASE prodQ' = prodQ
    BY <1>a, <2>1, <2>2, <2>3 DEF OneHolder
  <2>4. CASE prodQ' = Append(prodQ, queued)
    <3>1. Range(prodQ') = Range(prodQ) \cup {queued} /\ IsInjective(prodQ')
      BY <1>a, <1>b, <2>1, <2>2, <2>4 DEF OneHolder
    <3>2. QED
      BY <1>a, <2>1, <2>2, <3>1 DEF OneHolder
  <2>5. QED
    BY <2>1, <2>3, <2>4
<1>7. CASE C_Exit
  BY <1>a, <1>7, EmptyQueue DEF C_Exit, handlers, OneHolder
<1>8. CASE ConsumerSignal
  <2>1. /\ UNCHANGED <<prodQ, queued, ph, phc>> /\ ch = "none"
        /\ \/ consQ' = <<>> /\ ch' = ch /\ chc' = chc
           \/ consQ' = Tail(consQ) /\ chc' = Head(consQ)
    BY <1>8 DEF ConsumerSignal
  <2>2. CASE consQ' = <<>> /\ ch' = ch /\ chc' = chc
    BY <1>a, <2>1, <2>2, EmptyQueue DEF OneHolder
  <2>3. CASE consQ' = Tail(consQ) /\ chc' = Head(consQ)
    <3>1. /\ Range(consQ) = {Head(consQ)} \cup Range(consQ')
          /\ IsInjective(consQ') /\ Head(consQ) \notin Range(consQ')
      BY <1>a, <1>8, <2>3, RangeTail, InjectiveTail DEF ConsumerSignal, OneHolder
    <3>2. QED
      BY <1>a, <2>1, <2>3, <3>1 DEF OneHolder
  <2>4. QED
    BY <2>1, <2>2, <2>3
<1>9. CASE C_WriteFail
  BY <1>a, <1>9, EmptyQueue DEF C_WriteFail, mains, OneHolder
<1>10. CASE C_Send
  <2>1. /\ UNCHANGED <<consQ, queued, ph, phc, chc>> /\ ch = "send" /\ ch' = "none"
        /\ (prodQ' = prodQ \/ prodQ' = Append(prodQ, chc))
    BY <1>10 DEF C_Send, SendToParent, mains
  <2>2. CASE prodQ' = prodQ
    BY <1>a, <2>1, <2>2 DEF OneHolder
  <2>3. CASE prodQ' = Append(prodQ, chc)
    <3>1. Range(prodQ') = Range(prodQ) \cup {chc} /\ IsInjective(prodQ')
      BY <1>a, <1>b, <2>1, <2>3 DEF OneHolder
    <3>2. QED
      BY <1>a, <2>1, <3>1 DEF OneHolder
  <2>4. QED
    BY <2>1, <2>2, <2>3
<1>11. CASE StorePid \/ P_Check \/ P_Pause \/ P_Reap \/ P_Leave \/ P_ReadRetry
            \/ C_Open \/ C_Check \/ C_Pause \/ C_Leave \/ UNCHANGED vars
  BY <1>1, <1>11
     DEF StorePid, P_Check, P_Pause, P_Reap, P_Leave, P_ReadRetry, C_Open, C_Check, C_Pause,
         C_Leave, vars, signals, mains, handlers
<1>12. QED
  BY <1>2, <1>3, <1>4, <1>5, <1>6, <1>7, <1>8, <1>9, <1>10, <1>11
     DEF Next, ParentMain, ParentHandler, ChildMain, ChildHandler

-----------------------------------------------------------------------------
(* The pipeline of blocks. *)

\* The queue of SIG_CONSUMER keeps the order of the file when its first signal
\* is delivered and when a signal for a later block is queued.
LEMMA QueueOrderTail ==
  ASSUME NEW q \in Seq(Chunks), NEW f, q # <<>>,
         \A i, j \in 1..Len(q) : i < j => f[q[i]] < f[q[j]]
  PROVE  /\ \A i, j \in 1..Len(Tail(q)) : i < j => f[Tail(q)[i]] < f[Tail(q)[j]]
         /\ \A c \in Range(Tail(q)) : f[Head(q)] < f[c]
<1>1. /\ Len(q) \in Nat /\ Len(q) > 0 /\ Len(Tail(q)) = Len(q) - 1
      /\ DOMAIN Tail(q) = 1..(Len(q) - 1)
      /\ Head(q) = q[1]
      /\ \A i \in 1..(Len(q) - 1) : Tail(q)[i] = q[i + 1]
  OBVIOUS
<1>2. \A i \in 1..(Len(q) - 1) : i + 1 \in 1..Len(q) /\ 1 < i + 1 /\ 1 \in 1..Len(q)
  BY <1>1
<1>3. \A i, j \in 1..Len(Tail(q)) : i < j => f[Tail(q)[i]] < f[Tail(q)[j]]
  <2> SUFFICES ASSUME NEW i \in 1..Len(Tail(q)), NEW j \in 1..Len(Tail(q)), i < j
               PROVE  f[Tail(q)[i]] < f[Tail(q)[j]]
    OBVIOUS
  <2>1. i + 1 \in 1..Len(q) /\ j + 1 \in 1..Len(q) /\ i + 1 < j + 1
    BY <1>1
  <2>2. QED
    BY <1>1, <2>1
<1>4. \A c \in Range(Tail(q)) : f[Head(q)] < f[c]
  BY <1>1, <1>2 DEF Range
<1>5. QED
  BY <1>3, <1>4

\* A chunk that is queued last keeps the queue in order.
LEMMA QueueOrderAppend ==
  ASSUME NEW q \in Seq(Chunks), NEW f, NEW e \in Chunks,
         \A i, j \in 1..Len(q) : i < j => f[q[i]] < f[q[j]],
         \A c \in Range(q) : f[c] < f[e]
  PROVE  \A i, j \in 1..Len(Append(q, e)) :
            i < j => f[Append(q, e)[i]] < f[Append(q, e)[j]]
<1>1. /\ Len(q) \in Nat /\ Len(Append(q, e)) = Len(q) + 1
      /\ DOMAIN q = 1..Len(q)
      /\ \A i \in 1..Len(q) : Append(q, e)[i] = q[i]
      /\ Append(q, e)[Len(q) + 1] = e
  OBVIOUS
<1>2. \A i \in 1..Len(q) : f[q[i]] < f[e]
  BY <1>1 DEF Range
<1>3. QED
  BY <1>1, <1>2

\* A block that waits for the child is neither written nor still to be sent.
LEMMA PendingApart ==
  ASSUME TypeOK, PipelineOrder
  PROVE  PendingBlocks \cap (Range(output) \cup Unsent) = {}
<1>1. PendingBlocks \subseteq Int
  BY ConstantsAssumption DEF TypeOK, PendingBlocks, Range
<1>2. \A a \in Range(output) : \A b \in PendingBlocks : a < b
  BY DEF PipelineOrder, InFlight
<1>3. \A a \in Unsent : \A b \in PendingBlocks : b < a
  BY DEF PipelineOrder, Unsent
<1>4. \A b \in PendingBlocks : ~(b < b)
  BY <1>1
<1>5. QED
  BY <1>2, <1>3, <1>4

\* A step moves a block down the pipeline, and blocks leave it only in order.
Flow == NothingVanishes /\ PipelineOrder

\* Every step keeps what is on its way in order.
LEMMA FlowStep == IInv /\ [Next]_vars => Flow'
<1> SUFFICES ASSUME IInv, [Next]_vars PROVE Flow'
  OBVIOUS
<1> USE DEF Flow, InFlight, Settled, Lost, Unsent, Writing
<1>a. /\ TypeOK /\ OneHolder /\ NothingVanishes /\ PipelineOrder
      /\ consQ \in Seq(Chunks) /\ phc \in Chunks /\ chc \in Chunks
      /\ chunk \in [Chunks -> 0..FileBlocks] /\ bytes_read \in Nat
      /\ Range(output) \subseteq 1..bytes_read
  BY DEF IInv, TypeOK, NothingVanishes
<1>1. ASSUME UNCHANGED <<consQ, chunk, bytes_read, output, unsent, dropped, phc, chc>>,
             (ph' = "send") <=> (ph = "send"), (ch' = "write") <=> (ch = "write")
      PROVE  Flow'
  <2>1. UNCHANGED <<Unsent, Writing, PendingBlocks, Settled, Lost>>
    BY <1>1 DEF PendingBlocks
  <2>2. QED
    BY <1>a, <1>1, <2>1 DEF NothingVanishes, PipelineOrder
<1>2. CASE P_Read
  <2>1. /\ UNCHANGED <<consQ, output, unsent, dropped, phc, ch, chc>>
        /\ bytes_read' = bytes_read + 1 /\ ph = "read" /\ ph' = "send"
        /\ chunk' = [chunk EXCEPT ![phc] = bytes_read + 1]
    BY <1>2 DEF P_Read, signals, history
  <2>2. /\ chunk'[phc] = bytes_read + 1
        /\ \A c \in Range(consQ) : chunk'[c] = chunk[c]
        /\ ch = "write" => chunk'[chc] = chunk[chc]
    BY <1>a, <2>1 DEF OneHolder, ParentHolds, ChildHolds
  <2>3. PendingBlocks' = PendingBlocks /\ Writing' = Writing
        /\ Unsent = {} /\ Unsent' = {bytes_read + 1}
    BY <2>1, <2>2 DEF PendingBlocks
  <2>4. 1..bytes_read' = 1..bytes_read \cup {bytes_read + 1}
    BY <1>a, <2>1
  <2>5. NothingVanishes'
    BY <1>a, <2>1, <2>3, <2>4 DEF NothingVanishes
  <2>6. \A b \in Range(output) \cup PendingBlocks \cup Writing \cup Lost : b \in 1..bytes_read
    BY <1>a DEF NothingVanishes
  <2>7. \A i, j \in 1..Len(consQ') : i < j => chunk'[consQ'[i]] < chunk'[consQ'[j]]
    <3>1. \A i \in 1..Len(consQ) : consQ[i] \in Range(consQ)
      BY <1>a DEF Range
    <3>2. QED
      BY <1>a, <2>1, <2>2, <3>1 DEF PipelineOrder
  <2>8. QED
    BY <1>a, <2>1, <2>2, <2>3, <2>5, <2>6, <2>7 DEF PipelineOrder
<1>3. CASE P_Send
  <2>1. /\ UNCHANGED <<chunk, bytes_read, output, unsent, phc, ch, chc>>
        /\ ph = "send" /\ ph' = "none"
        /\ \/ consQ' = consQ /\ dropped' = dropped \cup {chunk[phc]}
           \/ consQ' = Append(consQ, phc) /\ dropped' = dropped
    BY <1>3 DEF P_Send, shm
  <2>2. Unsent = {chunk[phc]} /\ Unsent' = {} /\ Writing' = Writing
    BY <2>1
  <2>3. CASE consQ' = consQ /\ dropped' = dropped \cup {chunk[phc]}
    <3>1. PendingBlocks' = PendingBlocks
      BY <2>1, <2>3 DEF PendingBlocks
    <3>2. \A b \in Range(output) \cup PendingBlocks \cup Writing : b < chunk[phc]
      BY <1>a, <2>1 DEF PipelineOrder
    <3>3. chunk[phc] \notin Range(output) \cup PendingBlocks \cup Writing
      BY <1>a, <2>1, <3>2
    <3>4. QED
      BY <1>a, <2>1, <2>2, <2>3, <3>1, <3>3 DEF NothingVanishes, PipelineOrder
  <2>4. CASE consQ' = Append(consQ, phc) /\ dropped' = dropped
    <3>1. Range(consQ') = Range(consQ) \cup {phc}
      BY <1>a, <2>4, RangeAppend
    <3>2. PendingBlocks' = PendingBlocks \cup {chunk[phc]}
      BY <2>1, <3>1 DEF PendingBlocks
    <3>3. \A c \in Range(consQ) : chunk[c] < chunk[phc]
      BY <1>a, <2>1 DEF PipelineOrder, PendingBlocks
    <3>4. \A i, j \in 1..Len(consQ') : i < j => chunk'[consQ'[i]] < chunk'[consQ'[j]]
      BY <1>a, <2>1, <2>4, <3>3, QueueOrderAppend DEF PipelineOrder
    <3>5. QED
      BY <1>a, <2>1, <2>2, <2>4, <3>2, <3>4 DEF NothingVanishes, PipelineOrder
  <2>5. QED
    BY <2>1, <2>3, <2>4
<1>4. CASE P_SendFail
  <2>1. /\ UNCHANGED <<consQ, chunk, bytes_read, output, dropped, phc, ch, chc>>
        /\ ph = "send" /\ ph' = "none" /\ unsent' = unsent \cup {chunk[phc]}
    BY <1>4 DEF P_SendFail, signals
  <2>2. Unsent = {chunk[phc]} /\ Unsent' = {} /\ Writing' = Writing
        /\ PendingBlocks' = PendingBlocks
    BY <2>1 DEF PendingBlocks
  <2>3. \A b \in Range(output) \cup PendingBlocks \cup Writing : b < chunk[phc]
    BY <1>a, <2>1 DEF PipelineOrder
  <2>4. chunk[phc] \notin Range(output) \cup PendingBlocks \cup Writing
    BY <1>a, <2>1, <2>3
  <2>5. QED
    BY <1>a, <2>1, <2>2, <2>4 DEF NothingVanishes, PipelineOrder
<1>5. CASE C_Exit
  <2>1. /\ UNCHANGED <<chunk, bytes_read, output, unsent, ph, phc, ch, chc>> /\ ch = "none"
        /\ consQ' = <<>> /\ dropped' = dropped \cup PendingBlocks
    BY <1>5 DEF C_Exit, C_Step, ChildRuns, shm, handlers
  <2>2. PendingBlocks' = {} /\ Unsent' = Unsent /\ Writing = {} /\ Writing' = {}
    BY <2>1, EmptyQueue DEF PendingBlocks
  <2>3. PendingBlocks \cap (Range(output) \cup Unsent) = {}
    BY <1>a, PendingApart
  <2>4. QED
    BY <1>a, <2>1, <2>2, <2>3 DEF NothingVanishes, PipelineOrder
<1>6. CASE ConsumerSignal
  <2>1. UNCHANGED <<chunk, bytes_read, output, unsent, ph, phc>> /\ ch = "none" /\ consQ # <<>>
    BY <1>6 DEF ConsumerSignal, shm
  <2>2. Unsent' = Unsent /\ Writing = {}
    BY <2>1
  <2>3. CASE consQ' = <<>> /\ dropped' = dropped \cup PendingBlocks /\ ch' = ch
    <3>1. PendingBlocks' = {} /\ Writing' = {}
      BY <2>1, <2>3, EmptyQueue DEF PendingBlocks
    <3>2. PendingBlocks \cap (Range(output) \cup Unsent) = {}
      BY <1>a, PendingApart
    <3>3. QED
      BY <1>a, <2>1, <2>2, <2>3, <3>1, <3>2 DEF NothingVanishes, PipelineOrder
  <2>4. CASE consQ' = Tail(consQ) /\ chc' = Head(consQ) /\ ch' = "write" /\ dropped' = dropped
    <3>1. /\ Range(consQ) = {Head(consQ)} \cup Range(consQ')
          /\ Head(consQ) \in Chunks
      BY <1>a, <2>1, <2>4, RangeTail
    <3>2. /\ Writing' = {chunk[Head(consQ)]}
          /\ PendingBlocks = {chunk[Head(consQ)]} \cup PendingBlocks'
      BY <2>1, <2>4, <3>1 DEF PendingBlocks
    <3>3. /\ \A i, j \in 1..Len(consQ') : i < j => chunk'[consQ'[i]] < chunk'[consQ'[j]]
          /\ \A c \in Range(consQ') : chunk[Head(consQ)] < chunk[c]
      BY <1>a, <2>1, <2>4, QueueOrderTail DEF PipelineOrder
    <3>4. \A b \in PendingBlocks' \cup Unsent' : chunk'[chc'] < b
      <4>1. \A b \in PendingBlocks' : chunk[Head(consQ)] < b
        BY <2>1, <3>3 DEF PendingBlocks
      <4>2. \A b \in Unsent : chunk[Head(consQ)] < b
        <5>1. chunk[Head(consQ)] \in PendingBlocks
          BY <3>2
        <5>2. ph = "send" => chunk[phc] = bytes_read /\ chunk[Head(consQ)] < bytes_read
          BY <1>a, <5>1 DEF PipelineOrder
        <5>3. QED
          BY <5>2
      <4>3. QED
        BY <2>1, <2>2, <2>4, <4>1, <4>2
    <3>5. QED
      BY <1>a, <2>1, <2>2, <2>4, <3>2, <3>3, <3>4 DEF NothingVanishes, PipelineOrder
  <2>5. QED
    BY <1>6, <2>3, <2>4 DEF ConsumerSignal
<1>7. CASE C_Write
  <2>1. /\ UNCHANGED <<consQ, chunk, bytes_read, unsent, dropped, ph, phc, chc>>
        /\ ch = "write" /\ ch' = "send" /\ output' = Append(output, chunk[chc])
    BY <1>7 DEF C_Write, shm, signals, history
  <2>2. Unsent' = Unsent /\ PendingBlocks' = PendingBlocks
        /\ Writing = {chunk[chc]} /\ Writing' = {}
    BY <2>1 DEF PendingBlocks
  <2>3. Range(output') = Range(output) \cup {chunk[chc]}
    <3>1. chunk[chc] \in Blocks /\ output \in Seq(Blocks)
      BY <1>a, <2>2, InFlightBlocks DEF TypeOK
    <3>2. QED
      BY <2>1, <3>1, RangeAppend
  <2>4. QED
    BY <1>a, <2>1, <2>2, <2>3 DEF NothingVanishes, PipelineOrder
<1>8. CASE C_WriteFail
  <2>1. /\ UNCHANGED <<chunk, bytes_read, output, unsent, ph, phc, chc>>
        /\ ch = "write" /\ ch' = "none" /\ consQ' = <<>>
        /\ dropped' = dropped \cup PendingBlocks \cup {chunk[chc]}
    BY <1>8 DEF C_WriteFail
  <2>2. PendingBlocks' = {} /\ Unsent' = Unsent /\ Writing = {chunk[chc]} /\ Writing' = {}
    BY <2>1, EmptyQueue DEF PendingBlocks
  <2>3. PendingBlocks \cap (Range(output) \cup Unsent) = {}
    BY <1>a, PendingApart
  <2>4. Writing \cap (Range(output) \cup Unsent) = {}
    BY <1>a, <2>1 DEF PipelineOrder
  <2>5. QED
    BY <1>a, <2>1, <2>2, <2>3, <2>4 DEF NothingVanishes, PipelineOrder
<1>9. CASE ProducerSignal \/ P_ReadStop \/ C_Send \/ C_SendFail
  <2>1. /\ UNCHANGED <<consQ, chunk, bytes_read, output, unsent, dropped, chc>>
        /\ (phc' = phc \/ ph # "send")
        /\ (ph' = "send") <=> (ph = "send")
        /\ (ch' = "write") <=> (ch = "write")
    BY <1>9 DEF ProducerSignal, P_ReadStop, C_Send, C_SendFail, shm, signals, history
  <2>2. UNCHANGED <<Unsent, Writing, PendingBlocks, Settled, Lost>>
    BY <2>1 DEF PendingBlocks
  <2>3. QED
    BY <1>a, <2>1, <2>2 DEF NothingVanishes, PipelineOrder
<1>10. CASE StorePid \/ P_Check \/ P_Pause \/ P_Reap \/ P_Leave \/ P_ReadRetry
             \/ C_Open \/ C_Queue \/ C_Check \/ C_Pause \/ C_Leave \/ UNCHANGED vars
  <2>1. UNCHANGED <<consQ, chunk, bytes_read, output, unsent, dropped, ph, phc, ch, chc>>
    BY <1>10
       DEF StorePid, P_Check, P_Pause, P_Reap, P_Leave, P_ReadRetry, C_Open, C_Queue, C_Check,
           C_Pause, C_Leave, vars, shm, signals, handlers, history
  <2>2. QED
    BY <1>1, <2>1
<1>11. QED
  BY <1>2, <1>3, <1>4, <1>5, <1>6, <1>7, <1>8, <1>9, <1>10
     DEF Next, ParentMain, ParentHandler, ChildMain, ChildHandler

\* The block written next is later than all blocks written.
LEMMA OrderStep == IInv /\ [Next]_vars => OutputInOrder'
<1> SUFFICES ASSUME IInv, [Next]_vars PROVE OutputInOrder'
  OBVIOUS
<1>1. CASE UNCHANGED output
  BY <1>1 DEF IInv, OutputInOrder
<1>2. CASE C_Write
  <2>1. ch = "write" /\ output' = Append(output, chunk[chc])
    BY <1>2 DEF C_Write
  <2>2. output \in Seq(Blocks) /\ chunk[chc] \in Blocks
    BY <2>1, InFlightBlocks DEF IInv, TypeOK, InFlight, Writing
  <2>3. \A i \in 1..Len(output) : output[i] < chunk[chc]
    <3>1. \A a \in Range(output) : a < chunk[chc]
      BY <2>1 DEF IInv, PipelineOrder, InFlight, Writing
    <3>2. \A i \in 1..Len(output) : output[i] \in Range(output)
      BY <2>2 DEF Range
    <3>3. QED
      BY <3>1, <3>2
  <2>4. /\ Len(output') = Len(output) + 1 /\ Len(output) \in Nat
        /\ \A i \in 1..Len(output) : output'[i] = output[i]
        /\ output'[Len(output) + 1] = chunk[chc]
    BY <2>1, <2>2
  <2>5. \A i, j \in 1..Len(output) : i < j => output[i] < output[j]
    BY DEF IInv, OutputInOrder
  <2>6. QED
    BY <2>3, <2>4, <2>5 DEF OutputInOrder
<1>3. QED
  BY <1>1, <1>2
     DEF Next, ParentMain, ParentHandler, ChildMain, ChildHandler, vars,
         StorePid, P_Check, P_Pause, P_Reap, P_Leave, ProducerSignal, P_Read, P_ReadRetry,
         P_ReadStop, P_Send, P_SendFail, C_Open, C_Queue, C_Check, C_Pause, C_Leave, C_Exit,
         ConsumerSignal, C_WriteFail, C_Send, C_SendFail

-----------------------------------------------------------------------------
(* Theorems. *)

\* The inductive invariant holds of every state the two processes reach.
THEOREM Invariance == Spec => []IInv
<1>1. IInv /\ [Next]_vars => IInv'
  BY TypeStep, HolderStep, FlowStep, OrderStep DEF IInv, Flow
<1>2. QED
  BY InitInvariant, <1>1, PTL DEF Spec

\* The variables keep their types: every chunk number that a handler receives
\* passes its range check, and no block number runs past the end of the file.
THEOREM TypeCorrect == Spec => []TypeOK
<1>1. IInv => TypeOK
  BY DEF IInv
<1>2. QED
  BY Invariance, <1>1, PTL

\* The handlers never share a chunk, although no lock protects the buffer.
THEOREM ChunksExclusive == Spec => []OneHolder
<1>1. IInv => OneHolder
  BY DEF IInv
<1>2. QED
  BY Invariance, <1>1, PTL

\* Every block read is written, lost for a reason the program can see, or
\* still in a chunk that a signal or a handler stands for.
THEOREM NoneVanishes == Spec => []NothingVanishes
<1>1. IInv => NothingVanishes
  BY DEF IInv
<1>2. QED
  BY Invariance, <1>1, PTL

\* The output file holds blocks of the input in the input's order, each once.
THEOREM OutputOrdered == Spec => []OutputInOrder
<1>1. IInv => OutputInOrder
  BY DEF IInv
<1>2. QED
  BY Invariance, <1>1, PTL

\* A chunk handed to the child is not overwritten before the child wrote it.
THEOREM ChunkUntouched == Spec => UntouchedUntilWritten
<1> DEFINE A == \A c \in Range(consQ) \cup (IF ch = "write" THEN {chc} ELSE {}) :
                    chunk'[c] = chunk[c]
<1>1. IInv /\ [Next]_vars => [A]_vars
  <2> SUFFICES ASSUME IInv, [Next]_vars PROVE [A]_vars
    OBVIOUS
  <2>1. CASE P_Read
    <3>1. /\ chunk' = [chunk EXCEPT ![phc] = bytes_read + 1] /\ ph = "read"
          /\ chunk \in [Chunks -> 0..FileBlocks]
          /\ Range(consQ) \subseteq Chunks /\ chc \in Chunks /\ phc \in Chunks
      BY <2>1 DEF P_Read, IInv, TypeOK, Range
    <3>2. phc \notin Range(consQ) /\ (ch = "write" => chc # phc)
      BY <3>1 DEF IInv, OneHolder, ParentHolds, ChildHolds
    <3>3. QED
      BY <3>1, <3>2
  <2>2. CASE UNCHANGED chunk
    BY <2>2
  <2>3. QED
    BY <2>1, <2>2
       DEF Next, ParentMain, ParentHandler, ChildMain, ChildHandler, vars, shm,
           StorePid, P_Check, P_Pause, P_Reap, P_Leave, ProducerSignal, P_ReadRetry,
           P_ReadStop, P_Send, P_SendFail, C_Open, C_Queue, C_Check, C_Pause, C_Leave, C_Exit,
           ConsumerSignal, C_Write, C_WriteFail, C_Send, C_SendFail
<1>2. QED
  BY Invariance, <1>1, PTL DEF Spec, UntouchedUntilWritten

\* The signals and the shared chunks implement the ordered copy: a read takes
\* a block, a write puts the block that is next, a failure loses blocks.
THEOREM ImplementsOrderedCopy == Spec => CopiesInOrder
<1> USE DEF Copy!vars
<1>a. Copy!Settled = Range(output) \cup Lost
  BY DEF Copy!Settled, Copy!Range, Range
<1>1. Init => Copy!Init
  BY DEF Init, Copy!Init, Lost
<1>2. IInv /\ [Next]_vars => [Copy!Next]_(Copy!vars)
  <2> SUFFICES ASSUME IInv, [Next]_vars PROVE [Copy!Next]_(Copy!vars)
    OBVIOUS
  <2>a. NothingVanishes /\ PipelineOrder /\ InFlight \subseteq Blocks
    BY InFlightBlocks DEF IInv
  <2>b. /\ InFlight \subseteq 1..bytes_read /\ bytes_read \in Nat
        /\ PendingBlocks \cap (Range(output) \cup Lost) = {}
    BY <2>a, PendingApart DEF IInv, TypeOK, NothingVanishes, PipelineOrder, InFlight
  <2>c. ASSUME NEW B \in SUBSET InFlight, B \cap Range(output) = {},
               Lost' = Lost \cup B, UNCHANGED <<bytes_read, output>>
        PROVE  Copy!Next
    <3>1. B \in SUBSET (1..bytes_read) /\ B \cap Lost = {}
      BY <2>a, <2>b, <2>c DEF PipelineOrder
    <3>2. Copy!Lose(B)
      BY <1>a, <2>c, <3>1 DEF Copy!Lose
    <3>3. QED
      BY <3>1, <3>2 DEF Copy!Next
  <2>1. CASE P_Read
    BY <2>1 DEF P_Read, Copy!Next, Copy!Take, Lost, history
  <2>2. CASE C_Write
    <3>1. /\ ch = "write" /\ output' = Append(output, chunk[chc])
          /\ UNCHANGED <<bytes_read, unsent, dropped>>
      BY <2>2 DEF C_Write, shm, history
    <3>2. chunk[chc] \in 1..bytes_read /\ chunk[chc] \notin Range(output) \cup Lost
      BY <2>a, <2>b, <3>1 DEF PipelineOrder, InFlight, Writing
    <3>3. \A a \in 1..(chunk[chc] - 1) : a \in Range(output) \cup Lost
      <4> SUFFICES ASSUME NEW a \in 1..(chunk[chc] - 1), a \notin Range(output) \cup Lost
                   PROVE  FALSE
        OBVIOUS
      <4>1. a \in 1..bytes_read /\ a < chunk[chc] /\ ~(chunk[chc] < a)
        BY <2>b, <3>2
      <4>2. a \in InFlight /\ a \notin Writing
        BY <2>a, <3>1, <4>1 DEF NothingVanishes, Settled, Writing
      <4>3. \A b \in PendingBlocks \cup Unsent : chunk[chc] < b
        BY <2>a, <3>1 DEF PipelineOrder
      <4>4. QED
        BY <4>1, <4>2, <4>3 DEF InFlight
    <3>4. QED
      <4>1. Copy!Put(chunk[chc])
        BY <1>a, <3>1, <3>2, <3>3 DEF Copy!Put, Lost
      <4>2. QED
        BY <3>2, <4>1 DEF Copy!Next
  <2>3. CASE P_Send
    <3>1. /\ ph = "send" /\ UNCHANGED <<bytes_read, output, unsent>>
          /\ (dropped' = dropped \/ dropped' = dropped \cup {chunk[phc]})
      BY <2>3 DEF P_Send, shm
    <3>2. {chunk[phc]} \in SUBSET InFlight /\ {chunk[phc]} \cap Range(output) = {}
      BY <2>a, <2>b, <3>1 DEF PipelineOrder, InFlight, Unsent
    <3>3. CASE dropped' = dropped
      BY <3>1, <3>3 DEF Lost
    <3>4. CASE dropped' = dropped \cup {chunk[phc]}
      BY <2>c, <3>1, <3>2, <3>4 DEF Lost
    <3>5. QED
      BY <3>1, <3>3, <3>4
  <2>4. CASE P_SendFail
    <3>1. /\ ph = "send" /\ UNCHANGED <<bytes_read, output, dropped>>
          /\ unsent' = unsent \cup {chunk[phc]}
      BY <2>4 DEF P_SendFail
    <3>2. {chunk[phc]} \in SUBSET InFlight /\ {chunk[phc]} \cap Range(output) = {}
      BY <2>a, <2>b, <3>1 DEF PipelineOrder, InFlight, Unsent
    <3>3. QED
      BY <2>c, <3>1, <3>2 DEF Lost
  <2>5. CASE C_WriteFail
    <3>1. /\ ch = "write" /\ UNCHANGED <<bytes_read, output, unsent>>
          /\ dropped' = dropped \cup PendingBlocks \cup {chunk[chc]}
      BY <2>5 DEF C_WriteFail
    <3>2. PendingBlocks \cup {chunk[chc]} \in SUBSET InFlight
      BY <3>1 DEF InFlight, Writing
    <3>3. (PendingBlocks \cup {chunk[chc]}) \cap Range(output) = {}
      BY <2>a, <2>b, <3>1 DEF PipelineOrder, InFlight, Writing
    <3>4. QED
      BY <2>c, <3>1, <3>2, <3>3 DEF Lost
  <2>6. CASE C_Exit \/ ConsumerSignal
    <3>1. /\ UNCHANGED <<bytes_read, output, unsent>>
          /\ (dropped' = dropped \/ dropped' = dropped \cup PendingBlocks)
      BY <2>6 DEF C_Exit, ConsumerSignal, shm
    <3>2. PendingBlocks \in SUBSET InFlight /\ PendingBlocks \cap Range(output) = {}
      BY <2>b DEF InFlight
    <3>3. CASE dropped' = dropped
      BY <3>1, <3>3 DEF Lost
    <3>4. CASE dropped' = dropped \cup PendingBlocks
      BY <2>c, <3>1, <3>2, <3>4 DEF Lost
    <3>5. QED
      BY <3>1, <3>3, <3>4
  <2>7. CASE UNCHANGED <<bytes_read, output, unsent, dropped>>
    BY <2>7 DEF Lost
  <2>8. QED
    BY <2>1, <2>2, <2>3, <2>4, <2>5, <2>6, <2>7
       DEF Next, ParentMain, ParentHandler, ChildMain, ChildHandler, vars, shm, history,
           StorePid, P_Check, P_Pause, P_Reap, P_Leave, ProducerSignal, P_ReadRetry,
           P_ReadStop, C_Open, C_Queue, C_Check, C_Pause, C_Leave, C_Send, C_SendFail
<1>3. QED
  BY Invariance, <1>1, <1>2, PTL DEF Spec, CopiesInOrder, Copy!Spec

-----------------------------------------------------------------------------
(* Completeness, when calls do not fail and signals are prompt. *)

Undisturbed == Prompt /\ Faults = {} /\ unsent = {}

\* The producer has ended after the last block, and has no signal to handle any more.
ProducerDone ==
  producer_ended # NOT_ENDED => bytes_read = FileBlocks /\ prodIgn = TRUE /\ prodQ = <<>> /\ ph = "none"

\* The child leaves when the producer has ended and every block is written.
ChildLeaves ==
  /\ cpc \in {"ended", "closed", "detached", "exited"} =>
       producer_ended # NOT_ENDED /\ consQ = <<>> /\ ch = "none"
  /\ cpc # "crashed"

\* The parent leaves when the producer has ended and the child is gone.
ParentLeaves ==
  /\ ppc \in {"waitpid", "ended", "closed", "detached", "done"} => producer_ended # NOT_ENDED
  /\ ppc \in {"ended", "closed", "detached", "done"} => cpc = "exited"
  /\ ppc # "crashed"

NothingDropped == dropped = {} /\ consumer_ended = NOT_ENDED /\ consIgn = FALSE

Orderly == ProducerDone /\ ChildLeaves /\ ParentLeaves /\ NothingDropped

\* No process leaves the cycle of signals before the file is copied: what a process does
\* after the end flags are set finds nothing left to do.
LEMMA OrderlyStep ==
  ASSUME TypeOK, Undisturbed, Orderly, [Next]_vars, Undisturbed'
  PROVE  Orderly'
<1> USE DEF Orderly, ProducerDone, ChildLeaves, ParentLeaves, NothingDropped, NOT_ENDED, PROD_END_SUCC, PROD_END_FAIL,
            shm, signals, mains, handlers, history
<1>1. Prompt /\ Faults = {} /\ unsent = {} /\ unsent' = {}
  BY DEF Undisturbed
<1>2. CASE ParentMain
  BY <1>1, <1>2 DEF ParentMain, StorePid, P_Check, P_Pause, P_Reap, P_Leave, P_Step, ParentRuns, BothRunning, ChildGone
<1>3. CASE ProducerSignal
  BY <1>1, <1>3 DEF ProducerSignal, ParentGone
<1>4. CASE P_Read \/ P_ReadRetry
  BY <1>1, <1>4 DEF P_Read, P_ReadRetry
<1>5. CASE P_ReadStop
  BY <1>1, <1>5 DEF P_ReadStop
<1>6. CASE P_Send
  BY <1>1, <1>6 DEF P_Send, ChildGone
<1>7. CASE P_SendFail
  BY <1>1, <1>7 DEF P_SendFail
<1>8. CASE C_Open \/ C_Check \/ C_Pause \/ C_Leave
  BY <1>1, <1>8 DEF C_Open, C_Check, C_Pause, C_Leave, C_Step, ChildRuns, ChildWaits
<1>9. CASE C_Queue
  BY <1>1, <1>9 DEF C_Queue, C_Step, ChildRuns, SendToParent
<1>10. CASE C_Exit
  <2>1. PendingBlocks = {}
    BY <1>1, <1>10, EmptyQueue DEF C_Exit, C_Step, ChildRuns, PendingBlocks
  <2>2. QED
    BY <1>1, <1>10, <2>1 DEF C_Exit, C_Step, ChildRuns, ParentGone
<1>11. CASE ConsumerSignal
  BY <1>1, <1>11 DEF ConsumerSignal, ChildGone
<1>12. CASE C_Write
  BY <1>1, <1>12 DEF C_Write
<1>13. CASE C_WriteFail
  BY <1>1, <1>13 DEF C_WriteFail
<1>14. CASE C_Send
  BY <1>1, <1>14 DEF C_Send, SendToParent
<1>15. CASE C_SendFail
  BY <1>1, <1>15 DEF C_SendFail, ParentGone
<1>16. CASE UNCHANGED vars
  BY <1>1, <1>16 DEF vars
<1>17. QED
  BY <1>2, <1>3, <1>4, <1>5, <1>6, <1>7, <1>8, <1>9, <1>10, <1>11, <1>12, <1>13, <1>14, <1>15, <1>16
     DEF Next, ParentHandler, ChildMain, ChildHandler

\* A block whose signal could not be sent stays on record.
LEMMA UnsentGrows == [Next]_vars => unsent \subseteq unsent'
BY DEF Next, ParentMain, ParentHandler, ChildMain, ChildHandler, vars, history,
       StorePid, P_Check, P_Pause, P_Reap, P_Leave, ProducerSignal, P_Read, P_ReadRetry,
       P_ReadStop, P_Send, P_SendFail, C_Open, C_Queue, C_Check, C_Pause, C_Leave, C_Exit,
       ConsumerSignal, C_Write, C_WriteFail, C_Send, C_SendFail

\* With prompt signals and calls that do not fail, the copy lacks nothing when the child is
\* gone, unless a block was read before main() had stored the pid of the child.
THEOREM NoneMissing == Spec => []CompleteUnlessUnsent
<1> DEFINE Complete == Undisturbed => Orderly
<1>1. Init => Complete
  BY DEF Init, Orderly, ProducerDone, ChildLeaves, ParentLeaves, NothingDropped
<1>2. IInv /\ Complete /\ [Next]_vars => Complete'
  <2> SUFFICES ASSUME IInv, Complete, [Next]_vars, Undisturbed' PROVE Orderly'
    OBVIOUS
  <2>1. Undisturbed
    BY UnsentGrows DEF Undisturbed
  <2>2. TypeOK
    BY DEF IInv
  <2>3. QED
    BY <2>1, <2>2, OrderlyStep
<1>3. IInv /\ Complete => CompleteUnlessUnsent
  <2> SUFFICES ASSUME IInv, Orderly, unsent = {}
               PROVE  dropped = {} /\ (ChildGone => Range(output) = Blocks)
    BY DEF CompleteUnlessUnsent, Undisturbed
  <2>1. dropped = {}
    BY DEF Orderly, NothingDropped
  <2>2. ASSUME ChildGone PROVE Range(output) = Blocks
    <3>1. cpc = "exited"
      BY <2>2 DEF Orderly, ChildLeaves, ChildGone
    <3>2. consQ = <<>> /\ ch = "none" /\ ph = "none" /\ bytes_read = FileBlocks
      BY <3>1 DEF Orderly, ChildLeaves, ProducerDone
    <3>3. InFlight = {}
      BY <3>2, EmptyQueue DEF InFlight, Unsent, PendingBlocks, Writing
    <3>4. 1..bytes_read = Settled \cup InFlight
      BY DEF IInv, NothingVanishes
    <3>5. QED
      BY <2>1, <3>2, <3>3, <3>4 DEF Settled, Lost, Blocks
  <2>3. QED
    BY <2>1, <2>2
<1>4. QED
  BY <1>1, <1>2, <1>3, Invariance, PTL DEF Spec

=============================================================================
