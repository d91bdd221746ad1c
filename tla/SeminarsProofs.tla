--------------------------- MODULE SeminarsProofs ---------------------------
(* Proofs about FifoCopy, ShellPipeline, DuplexPipe and MonteCarlo as parts of *)
(* Seminars, for any input, any capacity and any set of faults.               *)
EXTENDS Seminars, FoldTheorems, FiniteSetTheorems, TLAPS

-----------------------------------------------------------------------------
(* FifoCopy. *)

\* Values of what the data needs.
FifoTyped ==
  /\ blocks \in 0..FifoBlocks
  /\ fifo \in Seq(Nat) /\ out \in Seq(Nat)
  /\ pp \in {"mknod", "open", "copy", "wait", "done", "failed"}
  /\ cp \in {"unborn", "create", "read", "exited", "failed"}

\* Where the two processes are in relation to one another: a child that reads may be
\* that of an earlier run, but then the name is there and the run has failed, or
\* is about to find the name.
FifoStage ==
  /\ pp \in {"mknod", "open"} => blocks = 0
  /\ cp = "create" => pp = "open" /\ fifo = <<>>
  /\ pp = "open" => cp \in {"create", "read", "failed"}
  /\ pp = "copy" => cp \in {"read", "failed"}
  /\ pp = "wait" => cp \in {"read", "exited", "failed"} /\ blocks = FifoBlocks
  /\ pp = "done" => cp \in {"exited", "failed"}

\* What is in the output and in the FIFO is a part of the input without a gap; the
\* child of this run has all of it before it exits.
FifoData ==
  /\ \A i \in 1..Len(out) : out[i] = i
  /\ cp = "read" => \A k \in 1..Len(fifo) : fifo[k] = Len(out) + k
  /\ cp = "read" /\ pp \in {"open", "copy", "wait"} => Len(out) + Len(fifo) = blocks
  /\ cp = "exited" /\ pp \in {"wait", "done"} => Len(out) = FifoBlocks

\* Who still has to remove the name.
FifoNamed ==
  /\ cp \in {"create", "read"} => named
  /\ pp = "done" => ~named
  /\ ok => pp # "failed" /\ cp # "failed" /\ (pp = "mknod" => ~named)

FifoInv == FifoTyped /\ FifoStage /\ FifoData /\ FifoNamed

\* The length of the file, as fifo_run uses it.
LEMMA FifoConstants == FifoBlocks \in Nat
  BY SeminarsAssumption

\* fifo_run starts with nothing read and no FIFO.
LEMMA FifoInit == Fifo!Init => FifoInv
  BY FifoConstants DEF Fifo!Init, FifoInv, FifoTyped, FifoStage, FifoData, FifoNamed

\* What Append and Tail do to a sequence.
LEMMA SequenceSteps ==
  ASSUME NEW S, NEW s \in Seq(S)
  PROVE  /\ Len(s) \in Nat
         /\ \A e \in S :
              /\ Append(s, e) \in Seq(S) /\ Len(Append(s, e)) = Len(s) + 1
              /\ \A i \in 1..Len(s) + 1 : Append(s, e)[i] = IF i <= Len(s) THEN s[i] ELSE e
         /\ s # <<>> =>
              /\ Tail(s) \in Seq(S) /\ Len(s) >= 1 /\ Len(Tail(s)) = Len(s) - 1
              /\ Head(s) = s[1] /\ Head(s) \in S
              /\ \A i \in 1..Len(s) - 1 : Tail(s)[i] = s[i + 1]
  OBVIOUS

\* The first element of s becomes the last of t: if s goes on where t ends, it still does.
LEMMA MoveElement ==
  ASSUME NEW s \in Seq(Nat), NEW t \in Seq(Nat), s # <<>>,
         \A i \in 1..Len(t) : t[i] = i, \A k \in 1..Len(s) : s[k] = Len(t) + k,
         NEW t2, t2 = Append(t, Head(s)), NEW s2, s2 = Tail(s)
  PROVE  /\ t2 \in Seq(Nat) /\ s2 \in Seq(Nat) /\ Len(t2) + Len(s2) = Len(t) + Len(s)
         /\ \A i \in 1..Len(t2) : t2[i] = i
         /\ \A k \in 1..Len(s2) : s2[k] = Len(t2) + k
<1>1. /\ t2 \in Seq(Nat) /\ Len(t2) = Len(t) + 1 /\ Len(t) \in Nat /\ Len(s) \in Nat
      /\ \A i \in 1..Len(t) + 1 : t2[i] = IF i <= Len(t) THEN t[i] ELSE Head(s)
  BY SequenceSteps
<1>2. /\ s2 \in Seq(Nat) /\ Len(s2) = Len(s) - 1 /\ Len(s) >= 1 /\ Head(s) = Len(t) + 1
      /\ \A k \in 1..Len(s) - 1 : s2[k] = s[k + 1]
  BY SequenceSteps
<1>3. \A i \in 1..Len(t2) : t2[i] = i
  <2> TAKE i \in 1..Len(t2)
  <2>1. CASE i <= Len(t)
    BY <1>1, <2>1
  <2>2. CASE i > Len(t)
    BY <1>1, <1>2, <2>2
  <2>3. QED
    BY <2>1, <2>2, <1>1
<1>4. \A k \in 1..Len(s2) : s2[k] = Len(t2) + k
  BY <1>1, <1>2
<1>5. QED
  BY <1>1, <1>2, <1>3, <1>4

\* The numbers from 1 on, with one more.
LEMMA AppendNext ==
  ASSUME NEW s \in Seq(Nat), \A i \in 1..Len(s) : s[i] = i
  PROVE  /\ Append(s, Len(s) + 1) \in Seq(Nat) /\ Len(Append(s, Len(s) + 1)) = Len(s) + 1
         /\ \A i \in 1..Len(s) + 1 : Append(s, Len(s) + 1)[i] = i
<1>1. Len(s) \in Nat
  OBVIOUS
<1>2. ASSUME NEW i \in 1..Len(s) + 1 PROVE Append(s, Len(s) + 1)[i] = i
  <2>1. CASE i <= Len(s)
    BY <1>1, <2>1
  <2>2. CASE i > Len(s)
    BY <1>1, <2>2
  <2>3. QED
    BY <1>1, <2>1, <2>2
<1>3. QED
  BY <1>1, <1>2

\* The parent makes and removes the name, and the child opens it only in between.
LEMMA FifoNamedNext == FifoInv /\ Fifo!Next => FifoNamed'
<1> SUFFICES ASSUME FifoInv, Fifo!Next PROVE FifoNamed'
  OBVIOUS
<1> USE DEF FifoInv, FifoStage, FifoNamed
<1>1. CASE Fifo!P_Mknod
  BY <1>1 DEF Fifo!P_Mknod
<1>2. CASE Fifo!P_Open \/ Fifo!P_Copy \/ Fifo!P_End
  BY <1>2 DEF Fifo!P_Open, Fifo!P_Copy, Fifo!P_End
<1>3. CASE Fifo!P_Broken \/ Fifo!P_ReadError \/ Fifo!Kill
  BY <1>3 DEF Fifo!P_Broken, Fifo!P_ReadError, Fifo!Kill
<1>4. CASE Fifo!P_Wait
  BY <1>4 DEF Fifo!P_Wait
<1>5. CASE Fifo!C_Create
  BY <1>5 DEF Fifo!C_Create
<1>6. CASE Fifo!C_Copy
  BY <1>6 DEF Fifo!C_Copy
<1>7. CASE Fifo!C_End
  BY <1>7 DEF Fifo!C_End
<1>8. CASE Fifo!Restart
  BY <1>8 DEF Fifo!Restart
<1>9. QED
  BY <1>1, <1>2, <1>3, <1>4, <1>5, <1>6, <1>7, <1>8 DEF Fifo!Next, Fifo!ParentProc, Fifo!ChildProc

\* What the child has written and what is in the FIFO is what the parent has read.
LEMMA FifoDataNext == FifoInv /\ Fifo!Next => FifoTyped' /\ FifoStage' /\ FifoData'
<1> SUFFICES ASSUME FifoInv, Fifo!Next PROVE FifoTyped' /\ FifoStage' /\ FifoData'
  OBVIOUS
<1>0. FifoTyped /\ FifoStage /\ FifoData /\ (cp \in {"create", "read"} => named)
  BY DEF FifoInv, FifoNamed
<1> USE <1>0, FifoConstants DEF FifoTyped, FifoStage, FifoData
<1>1. CASE Fifo!P_Mknod
  <2>1. CASE named
    BY <1>1, <2>1 DEF Fifo!P_Mknod
  <2>2. CASE ~named
    <3>1. pp = "mknod" /\ pp' = "open" /\ cp' = "create" /\ fifo' = <<>> /\ UNCHANGED <<blocks, out>>
      BY <1>1, <2>2 DEF Fifo!P_Mknod
    <3>2. QED
      BY <3>1
  <2>3. QED
    BY <2>1, <2>2
<1>2. CASE Fifo!P_Open
  BY <1>2 DEF Fifo!P_Open
<1>3. CASE Fifo!P_Copy
  <2>1. /\ pp = "copy" /\ cp = "read" /\ blocks < FifoBlocks /\ blocks' = blocks + 1
        /\ fifo' = Append(fifo, blocks + 1) /\ UNCHANGED <<pp, cp, out>>
    BY <1>3 DEF Fifo!P_Copy
  <2>2. QED
    BY <2>1, SequenceSteps
<1>4. CASE Fifo!P_Broken \/ Fifo!P_ReadError \/ Fifo!P_End
  BY <1>4 DEF Fifo!P_Broken, Fifo!P_ReadError, Fifo!P_End
<1>5. CASE Fifo!P_Wait
  BY <1>5 DEF Fifo!P_Wait
<1>6. CASE Fifo!Kill
  BY <1>6 DEF Fifo!Kill
<1>7. CASE Fifo!C_Create
  <2>1. cp = "create" /\ pp = "open" /\ fifo = <<>> /\ UNCHANGED <<fifo, pp, blocks>>
    BY <1>7 DEF Fifo!C_Create
  <2>2. CASE cp' = "read" /\ out' = <<>>
    BY <2>1, <2>2
  <2>3. CASE cp' = "failed" /\ out' = out
    BY <2>1, <2>3
  <2>4. QED
    BY <1>7, <2>2, <2>3 DEF Fifo!C_Create
<1>8. CASE Fifo!C_Copy
  <2>1. cp = "read" /\ fifo # <<>> /\ fifo' = Tail(fifo) /\ UNCHANGED <<pp, blocks>>
    BY <1>8 DEF Fifo!C_Copy
  <2>2. Head(fifo) = Len(out) + 1 /\ fifo' \in Seq(Nat) /\ Len(fifo') = Len(fifo) - 1 /\ Len(fifo) >= 1
    BY <2>1, SequenceSteps
  <2>3. CASE out' = Append(out, Head(fifo)) /\ cp' = cp
    <3>1. /\ out' \in Seq(Nat) /\ fifo' \in Seq(Nat) /\ Len(out') + Len(fifo') = Len(out) + Len(fifo)
          /\ \A i \in 1..Len(out') : out'[i] = i
          /\ \A k \in 1..Len(fifo') : fifo'[k] = Len(out') + k
      <4>1. fifo \in Seq(Nat) /\ out \in Seq(Nat) /\ (\A i \in 1..Len(out) : out[i] = i)
            /\ (\A k \in 1..Len(fifo) : fifo[k] = Len(out) + k)
        BY <2>1
      <4>2. QED
        BY SMTT(30), <2>1, <2>3, <4>1, MoveElement
    <3>2. QED
      BY <2>1, <2>3, <3>1
  <2>4. CASE cp' = "failed" /\ out' = out
    BY <2>1, <2>2, <2>4
  <2>5. QED
    BY <1>8, <2>3, <2>4 DEF Fifo!C_Copy
<1>9. CASE Fifo!C_End
  <2>1. /\ cp = "read" /\ fifo = <<>> /\ pp \notin {"open", "copy"} /\ cp' = "exited"
        /\ UNCHANGED <<fifo, pp, blocks, out>>
    BY <1>9 DEF Fifo!C_End, Fifo!WriterGone
  <2>2. QED
    BY <2>1
<1>10. CASE Fifo!Restart
  BY <1>10 DEF Fifo!Restart
<1>11. QED
  BY <1>1, <1>2, <1>3, <1>4, <1>5, <1>6, <1>7, <1>8, <1>9, <1>10 DEF Fifo!Next, Fifo!ParentProc, Fifo!ChildProc

\* Every step of fifo_run keeps its invariant.
LEMMA FifoStepKeepsInv == FifoInv /\ Fifo!Next => FifoInv'
  BY FifoNamedNext, FifoDataNext DEF FifoInv

\* A step of another program, or none, keeps it too.
LEMMA FifoUnchanged == FifoInv /\ UNCHANGED <<pp, cp, blocks, out, named, fifo, ok>> => FifoInv'
  BY DEF FifoInv, FifoTyped, FifoStage, FifoData, FifoNamed

FifoRuns == program = "fifo_run" => FifoInv

\* The invariant holds whenever it is fifo_run that runs.
LEMMA FifoInvariance == SeminarsSpec => []FifoRuns
<1>1. InitAll => FifoRuns
  <2> SUFFICES ASSUME InitAll, program = "fifo_run" PROVE FifoInv
    BY DEF FifoRuns
  <2>1. Fifo!Init
    BY DEF InitAll, Runs
  <2>2. QED
    BY <2>1, FifoInit
<1>2. FifoRuns /\ [NextAll]_all => FifoRuns'
  <2> SUFFICES ASSUME FifoRuns, [NextAll]_all PROVE FifoRuns'
    OBVIOUS
  <2>1. CASE FifoStep
    BY <2>1, FifoStepKeepsInv DEF FifoStep, FifoRuns, Runs
  <2>2. CASE ShmStep \/ MqStep \/ MqRunsStep \/ DuplexStep \/ ShellStep \/ MonteCarloStep
    BY <2>2 DEF ShmStep, MqStep, MqRunsStep, DuplexStep, ShellStep, MonteCarloStep, FifoRuns, Runs
  <2>3. CASE UNCHANGED all
    <3>1. program' = program /\ UNCHANGED <<pp, cp, blocks, out, named, fifo, ok>>
      BY <2>3 DEF all, copy, fifo_vars
    <3>2. QED
      BY <3>1, FifoUnchanged DEF FifoRuns
  <2>4. QED
    BY <2>1, <2>2, <2>3 DEF NextAll
<1>3. QED
  BY <1>1, <1>2, PTL DEF SeminarsSpec

\* A parent that returns without an error has a complete copy if its child has not
\* failed, also when runs before it have left the name or a child behind.
THEOREM FifoComplete == SeminarsSpec => []FifoCompleteWhenDone
<1>1. FifoRuns => FifoCompleteWhenDone
  <2> SUFFICES ASSUME FifoInv PROVE Fifo!CompleteWhenDone
    BY DEF FifoRuns, FifoCompleteWhenDone, Runs
  <2>1. out = [i \in 1..Len(out) |-> i]
    <3>1. out = [i \in 1..Len(out) |-> out[i]]
      BY DEF FifoInv, FifoTyped
    <3>2. QED
      BY <3>1 DEF FifoInv, FifoData
  <2>2. QED
    BY <2>1 DEF FifoInv, FifoData, Fifo!CompleteWhenDone
<1>2. QED
  BY <1>1, FifoInvariance, PTL

\* Runs that succeed remove the name of the FIFO, whichever of the two processes
\* ends first: no later run finds it.
THEOREM FifoNameGone == SeminarsSpec => []FifoNameRemoved
<1>1. FifoRuns => FifoNameRemoved
  BY DEF FifoRuns, FifoInv, FifoNamed, FifoNameRemoved, Fifo!NameRemoved, Runs
<1>2. QED
  BY <1>1, FifoInvariance, PTL

\* What the parent of FifoCopy can do, the guards of its steps without that of an
\* error of read(), which need not happen, and the child.
FifoParentMoves ==
  \/ pp = "mknod"
  \/ pp = "open" /\ cp \notin {"create", "failed"}
  \/ pp = "copy" /\ blocks < FifoBlocks /\ cp # "failed" /\ Len(fifo) < Capacity
  \/ pp = "copy" /\ blocks < FifoBlocks /\ cp = "failed"
  \/ pp = "copy" /\ blocks = FifoBlocks
  \/ pp = "wait" /\ cp \in {"exited", "failed"}
FifoChildMoves ==
  \/ cp = "create"
  \/ cp = "read" /\ fifo # <<>>
  \/ cp = "read" /\ fifo = <<>> /\ Fifo!WriterGone

\* A parent at a full FIFO, in open() or in wait() and a child at an empty FIFO do
\* not wait for one another: nothing moves only when both have ended, or when the
\* child has failed before it has opened the FIFO.
FifoNoDeadlock == Runs("fifo_run") => FifoParentMoves \/ FifoChildMoves \/ Fifo!Ended

\* Whatever file, capacity and faults: the two processes of FifoCopy do not wait for one
\* another, in open(), at the FIFO or in wait().
THEOREM FifoNeverStuck == SeminarsSpec => []FifoNoDeadlock
<1>1. ASSUME FifoInv, ~FifoParentMoves, ~FifoChildMoves PROVE Fifo!Ended
  <2> USE <1>1 DEF FifoInv, FifoTyped, FifoStage
  <2>1. pp # "copy"
    <3> SUFFICES ASSUME pp = "copy" PROVE FALSE
      OBVIOUS
    <3>1. blocks < FifoBlocks /\ cp = "read"
      BY FifoConstants DEF FifoParentMoves
    <3>2. fifo = <<>>
      BY <3>1 DEF FifoChildMoves
    <3>3. QED
      BY <3>1, <3>2, SeminarsAssumption DEF FifoParentMoves
  <2>2. cp \in {"unborn", "exited", "failed"} \/ (cp = "read" /\ pp = "open")
    BY <2>1 DEF FifoChildMoves, Fifo!WriterGone
  <2>3. pp = "open" => cp = "failed"
    BY <2>2 DEF FifoParentMoves
  <2>4. pp # "wait"
    BY <2>2 DEF FifoParentMoves
  <2>5. QED
    BY <2>1, <2>2, <2>3, <2>4 DEF FifoParentMoves, Fifo!Ended
<1>2. FifoRuns => FifoNoDeadlock
  BY <1>1 DEF FifoRuns, Runs, FifoNoDeadlock
<1>3. QED
  BY <1>2, FifoInvariance, PTL

-----------------------------------------------------------------------------
(* ShellPipeline.  The number of commands is what the parser has made of the  *)
(* line, of which nothing is used here.                                       *)

ChildRecords == [at : {"setup", "exec", "run", "zombie", "reaped"}, code : Int]

\* Values of the children and of what is printed.
ShellTyped ==
  /\ children \in Seq(ChildRecords) /\ printed \in Seq(1..Len(children))
  /\ DOMAIN open = 0..Len(children) /\ open = [p \in 0..Len(children) |-> open[p]]
  /\ spc \in {"parse", "fork", "close", "wait", "done", "refused", "failed"}

\* Which pipe ends the shell has open at each place.
ShellOwnEnds ==
  LET n == Len(children) IN
  /\ spc = "parse" => n = 0 /\ open[0] = {}
  /\ spc = "fork"  => open[0] \subseteq {<<n, "r">>}
  /\ spc = "close" => n >= 1 /\ open[0] \subseteq {<<n - 1, "r">>, <<n, "r">>, <<n, "w">>}
  /\ spc = "wait"  => n = Len(cmds) /\ open[0] \subseteq {<<n, "r">>, <<n, "w">>}

\* A child has inherited the reading end of the pipe in front and both of its own.
ShellChildEnds ==
  \A i \in 1..Len(children) :
    /\ open[i] \subseteq {<<i - 1, "r">>, <<i, "r">>, <<i, "w">>}
    /\ children[i].at # "setup" /\ i # Len(cmds) => <<i, "r">> \notin open[i]

\* The children whose status has been printed are those that have been reaped.
ShellReaped ==
  /\ spc \in {"parse", "fork", "close"} => printed = <<>>
  /\ \A j, k \in 1..Len(printed) : printed[j] = printed[k] => j = k
  /\ \A j \in 1..Len(printed) : children[printed[j]].at = "reaped"
  /\ spc = "done" => \A i \in 1..Len(children) : children[i].at = "reaped"

ShellInv == ShellTyped /\ ShellOwnEnds /\ ShellChildEnds /\ ShellReaped

\* The shell starts with a command line and without children.
LEMMA ShellInit == Shell!Init => ShellInv
  BY DEF Shell!Init, Shell!Shell, ShellInv, ShellTyped, ShellOwnEnds, ShellChildEnds, ShellReaped, ChildRecords

\* A step of a child changes its own state and closes ends of its own.
LEMMA ShellChildSteps ==
  ASSUME ShellInv, NEW i \in DOMAIN children, Shell!ChildProc(i)
  PROVE  /\ UNCHANGED <<line, cmds, spc, printed>>
         /\ \/ UNCHANGED <<children, open>>
            \/ \E x \in ChildRecords, S \in SUBSET open[i] :
                 /\ children[i].at \in {"setup", "exec", "run"} /\ x.at \in {"exec", "run", "zombie"}
                 /\ x.at = "zombie" => S = {}
                 /\ children' = [children EXCEPT ![i] = x] /\ open' = [open EXCEPT ![i] = S]
                 /\ i # Len(cmds) => <<i, "r">> \notin S
<1>1. children[i] \in ChildRecords
  BY DEF ShellInv, ShellTyped
<1>2. i \in 1..Len(children) /\ i \in DOMAIN open /\ open = [p \in DOMAIN open |-> open[p]]
  BY DEF ShellInv, ShellTyped
<1>3. CASE Shell!C_Setup(i)
  <2>1. PICK S \in SUBSET open[i] : open' = [open EXCEPT ![i] = S] /\ (i # Len(cmds) => <<i, "r">> \notin S)
    <3> DEFINE Rest == open[i] \ {<<i, "r">> : x \in {i} \ {Len(cmds)}}
    <3>1. open' = [open EXCEPT ![i] = Rest]
      BY <1>3 DEF Shell!C_Setup, Shell!cmd_count
    <3>2. i # Len(cmds) => <<i, "r">> \notin Rest
      OBVIOUS
    <3>3. QED
      BY <3>1, <3>2
  <2>2. /\ children[i].at = "setup" /\ [children[i] EXCEPT !.at = "exec"] \in ChildRecords
        /\ children' = [children EXCEPT ![i] = [children[i] EXCEPT !.at = "exec"]]
        /\ [children[i] EXCEPT !.at = "exec"].at = "exec"
    BY <1>1, <1>3 DEF Shell!C_Setup, ChildRecords
  <2>3. QED
    BY <1>3, <2>1, <2>2 DEF Shell!C_Setup
<1>4. ASSUME children[i].at \in {"exec", "run"} PROVE i # Len(cmds) => <<i, "r">> \notin open[i]
  BY <1>2, <1>4 DEF ShellInv, ShellChildEnds
<1>5. CASE Shell!C_Exec(i)
  <2>1. open' = [open EXCEPT ![i] = open[i]]
    BY <1>2, <1>5 DEF Shell!C_Exec
  <2>2. /\ children[i].at = "exec" /\ [children[i] EXCEPT !.at = "run"] \in ChildRecords
        /\ children' = [children EXCEPT ![i] = [children[i] EXCEPT !.at = "run"]]
        /\ [children[i] EXCEPT !.at = "run"].at = "run"
    BY <1>1, <1>5 DEF Shell!C_Exec, ChildRecords
  <2>3. QED
    BY <1>4, <1>5, <2>1, <2>2 DEF Shell!C_Exec
<1>6. CASE Shell!X_Write(i) \/ Shell!X_Read(i)
  BY <1>6 DEF Shell!X_Write, Shell!X_Read
<1>7. CASE Shell!C_NoProgram(i) \/ Shell!X_Broken(i) \/ Shell!X_End(i)
  <2>1. PICK code \in Int : Shell!End(i, code) /\ children[i].at \in {"exec", "run"}
    BY <1>7 DEF Shell!C_NoProgram, Shell!X_Broken, Shell!X_End
  <2>2. [at |-> "zombie", code |-> code] \in ChildRecords
    BY DEF ChildRecords
  <2>3. /\ UNCHANGED <<line, cmds, spc, printed>> /\ {} \in SUBSET open[i]
        /\ children' = [children EXCEPT ![i] = [at |-> "zombie", code |-> code]]
        /\ open' = [open EXCEPT ![i] = {}] /\ children[i].at \in {"exec", "run"}
    BY <2>1 DEF Shell!End
  <2>4. [at |-> "zombie", code |-> code].at = "zombie"
    OBVIOUS
  <2>5. QED
    BY <2>2, <2>3, <2>4
<1>8. QED
  BY <1>3, <1>5, <1>6, <1>7 DEF Shell!ChildProc

\* A child that ends, or cannot start its program, ends once.
LEMMA ShellChildKeepsInv ==
  ASSUME ShellInv, NEW i \in DOMAIN children, Shell!ChildProc(i)
  PROVE  ShellInv'
<1>1. CASE UNCHANGED <<children, open, cmds, spc, printed>>
  <2>1. ShellTyped'
    BY <1>1 DEF ShellInv, ShellTyped
  <2>2. ShellOwnEnds'
    BY <1>1 DEF ShellInv, ShellOwnEnds
  <2>3. ShellChildEnds'
    BY <1>1 DEF ShellInv, ShellChildEnds
  <2>4. ShellReaped'
    BY <1>1 DEF ShellInv, ShellReaped
  <2>5. QED
    BY <2>1, <2>2, <2>3, <2>4 DEF ShellInv
<1>2. ASSUME NEW x \in ChildRecords, NEW S \in SUBSET open[i], children[i].at # "reaped", x.at # "setup",
             children' = [children EXCEPT ![i] = x], open' = [open EXCEPT ![i] = S],
             i # Len(cmds) => <<i, "r">> \notin S, UNCHANGED <<cmds, spc, printed>>
      PROVE  ShellInv'
  <2> USE DEF ShellInv, ShellTyped, ShellOwnEnds, ShellChildEnds, ShellReaped
  <2>1. /\ i \in 1..Len(children) /\ children' \in Seq(ChildRecords) /\ Len(children') = Len(children)
        /\ \A k \in 1..Len(children) : children'[k] = IF k = i THEN x ELSE children[k]
    BY <1>2
  <2>2. /\ DOMAIN open' = 0..Len(children) /\ open' = [p \in 0..Len(children) |-> open'[p]]
        /\ \A p \in 0..Len(children) : open'[p] = IF p = i THEN S ELSE open[p]
    BY <1>2
  <2>3. ShellTyped'
    BY <1>2, <2>1, <2>2
  <2>4. open'[0] = open[0]
    BY <2>1, <2>2
  <2>5. ShellOwnEnds'
    BY <1>2, <2>1, <2>4
  <2>6. ShellChildEnds'
    <3>1. \A k \in 1..Len(children) : open'[k] \subseteq open[k]
      BY <1>2, <2>1, <2>2
    <3>2. \A k \in 1..Len(children) : children'[k].at # "setup" /\ k # Len(cmds) => <<k, "r">> \notin open'[k]
      <4> TAKE k \in 1..Len(children)
      <4>1. CASE k = i
        <5>1. children'[i] = x /\ open'[i] = S
          BY <2>1, <2>2
        <5>2. QED
          BY <1>2, <5>1, <4>1
      <4>2. CASE k # i
        <5>1. children'[k] = children[k] /\ open'[k] = open[k]
          BY <2>1, <2>2, <4>2
        <5>2. QED
          BY <5>1
      <4>3. QED
        BY <4>1, <4>2
    <3>3. QED
      BY <1>2, <2>1, <3>1, <3>2
  <2>7. ShellReaped'
    <3>1. \A j \in 1..Len(printed) : printed[j] \in 1..Len(children)
      OBVIOUS
    <3>2. QED
      BY <1>2, <2>1, <3>1
  <2>8. QED
    BY <2>3, <2>5, <2>6, <2>7
<1>3. QED
  BY <1>1, <1>2, ShellChildSteps

\* What EXCEPT does to a sequence.
LEMMA SequenceExcept ==
  ASSUME NEW S, NEW s \in Seq(S), NEW i \in 1..Len(s), NEW e \in S
  PROVE  /\ [s EXCEPT ![i] = e] \in Seq(S) /\ Len([s EXCEPT ![i] = e]) = Len(s)
         /\ \A k \in 1..Len(s) : [s EXCEPT ![i] = e][k] = IF k = i THEN e ELSE s[k]
  OBVIOUS

\* The ends of the shell change, those of the children do not.
LEMMA OwnEndsChange ==
  ASSUME ShellTyped, NEW S, open' = [open EXCEPT ![0] = S]
  PROVE  /\ DOMAIN open' = 0..Len(children) /\ open' = [p \in 0..Len(children) |-> open'[p]]
         /\ open'[0] = S /\ \A k \in 1..Len(children) : open'[k] = open[k]
<1>1. Len(children) \in Nat
  BY DEF ShellTyped
<1>2. open = [p \in 0..Len(children) |-> open[p]]
  BY DEF ShellTyped
<1>3. open' = [p \in 0..Len(children) |-> IF p = 0 THEN S ELSE open[p]]
  BY <1>2
<1>4. 0 \in 0..Len(children) /\ \A k \in 1..Len(children) : k \in 0..Len(children) /\ k # 0
  BY <1>1
<1>5. DOMAIN open' = 0..Len(children) /\ open' = [p \in 0..Len(children) |-> open'[p]]
  BY <1>3, Zenon
<1>6. open'[0] = S /\ \A k \in 1..Len(children) : open'[k] = open[k]
  BY <1>3, <1>4, Zenon
<1>7. QED
  BY <1>5, <1>6

\* fork() gives the child the ends of the pipes it is to have.
LEMMA ShellForkKeepsInv == ShellInv /\ Shell!S_Fork => ShellInv'
<1> SUFFICES ASSUME ShellInv, Shell!S_Fork PROVE ShellInv'
  OBVIOUS
<1> USE DEF ShellInv, ShellTyped, ShellOwnEnds, ShellChildEnds, ShellReaped
<1> DEFINE n == Len(children)
           child == [at |-> "setup", code |-> 0]
           mine == open[0] \cup {<<n + 1, "r">>, <<n + 1, "w">>}
<1>1. /\ spc = "fork" /\ spc' = "close" /\ UNCHANGED <<cmds, printed>> /\ printed = <<>>
      /\ children' = Append(children, child) /\ open' = [p \in 0..n + 1 |-> IF p \in {0, n + 1} THEN mine ELSE open[p]]
  BY DEF Shell!S_Fork, Shell!Forked, Shell!Shell
<1>2. child \in ChildRecords
  BY DEF ChildRecords
<1>3. /\ n \in Nat /\ children' \in Seq(ChildRecords) /\ Len(children') = n + 1
      /\ \A k \in 1..n + 1 : children'[k] = IF k <= n THEN children[k] ELSE child
  BY <1>1, <1>2, SequenceSteps
<1>4. open[0] \subseteq {<<n, "r">>}
  BY <1>1
<1> HIDE DEF child, mine
<1>5. ShellTyped'
  BY <1>1, <1>3
<1>6. open'[0] = mine /\ open'[n + 1] = mine /\ \A k \in 1..n : open'[k] = open[k]
  BY <1>1, <1>3
<1>7. mine \subseteq {<<n, "r">>, <<n + 1, "r">>, <<n + 1, "w">>}
  BY <1>4 DEF mine
<1>8. ShellOwnEnds'
  BY <1>1, <1>3, <1>6, <1>7
<1>9. ShellChildEnds'
  <2>1. ASSUME NEW k \in 1..n + 1
        PROVE  /\ open'[k] \subseteq {<<k - 1, "r">>, <<k, "r">>, <<k, "w">>}
               /\ children'[k].at # "setup" /\ k # Len(cmds) => <<k, "r">> \notin open'[k]
    <3>1. CASE k = n + 1
      <4>1. children'[k].at = "setup" /\ open'[k] = mine /\ k - 1 = n
        BY SMTT(30), <1>3, <1>6, <3>1 DEF child
      <4>2. QED
        BY <1>7, <3>1, <4>1
    <3>2. CASE k # n + 1
      <4>1. k \in 1..n /\ children'[k] = children[k] /\ open'[k] = open[k]
        <5>1. k \in 1..n /\ k <= n
          BY ONLY <1>3, <3>2, k \in 1..n + 1
        <5>2. QED
          BY <1>3, <1>6, <5>1
      <4>2. QED
        BY <4>1
    <3>3. QED
      BY <3>1, <3>2
  <2>2. QED
    BY <1>1, <1>3, <2>1
<1>10. ShellReaped'
  BY <1>1
<1>11. QED
  BY <1>5, <1>8, <1>9, <1>10

\* As many different numbers up to n as n are all of them.
LEMMA AllOfThem ==
  ASSUME NEW n \in Nat, NEW s \in Seq(1..n), Len(s) = n, \A j, k \in 1..n : s[j] = s[k] => j = k,
         NEW i \in 1..n
  PROVE  \E j \in 1..n : s[j] = i
<1>1. s \in Injection(1..n, 1..n)
  <2>1. s \in [1..n -> 1..n]
    OBVIOUS
  <2>2. QED
    BY <2>1 DEF Injection, IsInjective
<1>2. IsFiniteSet(1..n)
  BY FS_Interval
<1>3. s \in Surjection(1..n, 1..n)
  BY <1>1, <1>2, FS_Injection
<1>4. QED
  BY <1>3 DEF Surjection

\* wait() takes one child that has ended and was not taken before.
LEMMA ShellWaitKeepsInv == ShellInv /\ Shell!S_Wait => ShellInv'
<1> SUFFICES ASSUME ShellInv, Shell!S_Wait PROVE ShellInv'
  OBVIOUS
<1> USE DEF ShellInv, ShellTyped, ShellOwnEnds, ShellChildEnds, ShellReaped
<1> DEFINE n == Len(children)
           m == Len(printed)
<1>1. PICK i \in DOMAIN children :
        /\ children[i].at = "zombie" /\ children' = [children EXCEPT ![i].at = "reaped"]
        /\ printed' = Append(printed, i)
  BY DEF Shell!S_Wait
<1>2. /\ spc = "wait" /\ spc' \in {"wait", "done"} /\ (spc' = "done" => m + 1 = n) /\ cmds' = cmds
      /\ \E S \in SUBSET open[0] : open' = [open EXCEPT ![0] = S]
  <2>1. /\ spc = "wait" /\ spc' = (IF m + 1 = Len(cmds) THEN "done" ELSE "wait") /\ cmds' = cmds
        /\ open' = [open EXCEPT ![0] = IF spc' = "done" THEN {} ELSE @]
    BY DEF Shell!S_Wait, Shell!cmd_count, Shell!Shell
  <2>2. QED
    BY <2>1
<1>3. /\ n \in Nat /\ m \in Nat /\ i \in 1..n
      /\ children' \in Seq(ChildRecords) /\ Len(children') = n
      /\ \A k \in 1..n : k # i => children'[k] = children[k]
      /\ children'[i].at = "reaped"
  <2>1. i \in 1..Len(children) /\ children[i] \in ChildRecords
    BY <1>1
  <2>2. [children[i] EXCEPT !.at = "reaped"] \in ChildRecords /\ [children[i] EXCEPT !.at = "reaped"].at = "reaped"
    BY <2>1 DEF ChildRecords
  <2>3. children' = [children EXCEPT ![i] = [children[i] EXCEPT !.at = "reaped"]]
    BY <1>1
  <2>4. n \in Nat /\ m \in Nat /\ children \in Seq(ChildRecords)
    OBVIOUS
  <2>5. PICK e \in ChildRecords : e.at = "reaped" /\ children' = [children EXCEPT ![i] = e]
    BY <2>2, <2>3
  <2>6. QED
    BY ONLY <2>1, <2>4, <2>5, SequenceExcept
<1>4. /\ printed' \in Seq(1..n) /\ Len(printed') = m + 1
      /\ \A j \in 1..m + 1 : printed'[j] = IF j <= m THEN printed[j] ELSE i
  BY <1>1, <1>3, SequenceSteps
<1>5. /\ DOMAIN open' = 0..n /\ open' = [p \in 0..n |-> open'[p]]
      /\ open'[0] \subseteq open[0] /\ \A k \in 1..n : open'[k] = open[k]
  <2>1. PICK S \in SUBSET open[0] : open' = [open EXCEPT ![0] = S]
    BY <1>2
  <2>2. ShellTyped
    OBVIOUS
  <2>3. QED
    BY ONLY ZenonT(30), <2>1, <2>2, OwnEndsChange
<1>6. ShellTyped'
  BY <1>2, <1>3, <1>4, <1>5
<1>7. ShellOwnEnds'
  BY <1>2, <1>3, <1>5
<1>8. ShellChildEnds'
  <2>1. ASSUME NEW k \in 1..n PROVE children'[k].at # "setup" => children[k].at # "setup"
    BY <1>1, <1>3
  <2>2. QED
    BY <1>2, <1>3, <1>5, <2>1
<1>9. \A j \in 1..m + 1 : children'[printed'[j]].at = "reaped"
  <2> TAKE j \in 1..m + 1
  <2>1. CASE j <= m
    <3>1. printed'[j] = printed[j] /\ printed[j] \in 1..n /\ children[printed[j]].at = "reaped" /\ printed[j] # i
      BY <1>1, <1>3, <1>4, <2>1
    <3>2. QED
      BY <1>3, <3>1
  <2>2. CASE j > m
    BY <1>3, <1>4, <2>2
  <2>3. QED
    BY <2>1, <2>2, <1>3
<1>10. \A j, k \in 1..m + 1 : printed'[j] = printed'[k] => j = k
  <2>1. \A j \in 1..m : printed[j] # i
    BY <1>1
  <2>2. \A j, k \in 1..m : printed[j] = printed[k] => j = k
    OBVIOUS
  <2>3. m \in Nat /\ \A j \in 1..m + 1 : (j \in 1..m /\ printed'[j] = printed[j]) \/ (j = m + 1 /\ printed'[j] = i)
    BY <1>3, <1>4
  <2>4. QED
    BY ONLY <2>1, <2>2, <2>3
<1>11. spc' = "done" => \A k \in 1..n : children'[k].at = "reaped"
  <2> SUFFICES ASSUME spc' = "done", NEW k \in 1..n PROVE children'[k].at = "reaped"
    OBVIOUS
  <2>1. PICK j \in 1..n : printed'[j] = k
    <3>1. Len(printed') = n /\ \A j, l \in 1..n : printed'[j] = printed'[l] => j = l
      BY <1>2, <1>3, <1>4, <1>10
    <3>2. n \in Nat /\ printed' \in Seq(1..n) /\ k \in 1..n
      BY <1>3, <1>4
    <3>3. QED
      BY ONLY <3>1, <3>2, AllOfThem
  <2>2. QED
    BY <1>2, <1>3, <1>9, <2>1
<1>12. ShellReaped'
  BY <1>2, <1>3, <1>4, <1>9, <1>10, <1>11
<1>13. QED
  BY <1>6, <1>7, <1>8, <1>12

\* The shell closes the ends it has given to its children.
LEMMA ShellCloseKeepsInv == ShellInv /\ Shell!S_Close => ShellInv'
<1> SUFFICES ASSUME ShellInv, Shell!S_Close PROVE ShellInv'
  OBVIOUS
<1> USE DEF ShellInv, ShellTyped, ShellOwnEnds, ShellChildEnds, ShellReaped
<1> DEFINE n == Len(children)
           Closed == {<<n - 1, "r">>} \cup {<<n, "w">> : x \in {n} \ {Len(cmds)}}
<1>1. /\ spc = "close" /\ spc' = (IF n = Len(cmds) THEN "wait" ELSE "fork") /\ UNCHANGED <<cmds, children, printed>>
      /\ open' = [open EXCEPT ![0] = @ \ Closed]
  BY DEF Shell!S_Close, Shell!Next_i, Shell!Forked, Shell!cmd_count, Shell!Shell
<1>2. n \in Nat /\ n >= 1 /\ open[0] \subseteq {<<n - 1, "r">>, <<n, "r">>, <<n, "w">>}
  BY SMTT(30), <1>1
<1>3. /\ DOMAIN open' = 0..n /\ open' = [p \in 0..n |-> open'[p]]
      /\ open'[0] = open[0] \ Closed /\ \A k \in 1..n : open'[k] = open[k]
  BY ONLY <1>1, OwnEndsChange, ShellInv DEF ShellInv
<1>4. open'[0] \subseteq {<<n, "r">>, <<n, "w">>} /\ (n # Len(cmds) => open'[0] \subseteq {<<n, "r">>})
  BY <1>2, <1>3
<1> HIDE DEF Closed
<1>5. ShellTyped'
  BY <1>1, <1>3
<1>6. ShellOwnEnds'
  BY <1>1, <1>4
<1>7. ShellChildEnds'
  BY <1>1, <1>3
<1>8. ShellReaped'
  BY <1>1
<1>9. QED
  BY <1>5, <1>6, <1>7, <1>8

\* Every step of the shell keeps its invariant.
LEMMA ShellStepKeepsInv == ShellInv /\ Shell!Next => ShellInv'
<1> SUFFICES ASSUME ShellInv, Shell!Next PROVE ShellInv'
  OBVIOUS
<1>1. CASE Shell!S_Parse
  <2>1. /\ spc = "parse" /\ spc' \in {"done", "fork", "refused"} /\ UNCHANGED <<children, open, printed>>
    BY <1>1 DEF Shell!S_Parse
  <2>2. Len(children) = 0 /\ open[0] = {} /\ printed = <<>>
    BY <2>1 DEF ShellInv, ShellOwnEnds, ShellReaped
  <2>3. QED
    BY <2>1, <2>2 DEF ShellInv, ShellTyped, ShellOwnEnds, ShellChildEnds, ShellReaped
<1>2. CASE Shell!S_ForkError
  <2>1. /\ spc' = "failed" /\ open' = [open EXCEPT ![0] = {}] /\ UNCHANGED <<cmds, children, printed>>
    BY <1>2 DEF Shell!S_ForkError, Shell!Shell
  <2>2. /\ DOMAIN open' = 0..Len(children) /\ open' = [p \in 0..Len(children) |-> open'[p]]
        /\ \A k \in 1..Len(children) : open'[k] = open[k]
    BY <2>1, OwnEndsChange DEF ShellInv
  <2>3. ShellTyped' /\ ShellOwnEnds' /\ ShellReaped'
    BY <2>1, <2>2 DEF ShellInv, ShellTyped, ShellOwnEnds, ShellReaped
  <2>4. ShellChildEnds'
    BY <2>1, <2>2 DEF ShellInv, ShellChildEnds
  <2>5. QED
    BY <2>3, <2>4 DEF ShellInv
<1>3. QED
  BY <1>1, <1>2, ShellForkKeepsInv, ShellCloseKeepsInv, ShellWaitKeepsInv, ShellChildKeepsInv
     DEF Shell!Next, Shell!ShellProc

\* A step of another program, or none, keeps it too.
LEMMA ShellUnchanged == ShellInv /\ UNCHANGED shell => ShellInv'
  BY DEF shell, ShellInv, ShellTyped, ShellOwnEnds, ShellChildEnds, ShellReaped

ShellRuns == program = "shell" => ShellInv

\* The invariant holds whenever it is the shell that runs.
LEMMA ShellInvariance == SeminarsSpec => []ShellRuns
<1>1. InitAll => ShellRuns
  <2> SUFFICES ASSUME InitAll, program = "shell" PROVE ShellInv
    BY DEF ShellRuns
  <2>1. Shell!Init
    BY DEF InitAll, Runs
  <2>2. QED
    BY <2>1, ShellInit
<1>2. ShellRuns /\ [NextAll]_all => ShellRuns'
  <2> SUFFICES ASSUME ShellRuns, [NextAll]_all PROVE ShellRuns'
    OBVIOUS
  <2>1. CASE ShellStep
    BY <2>1, ShellStepKeepsInv DEF ShellStep, ShellRuns, Runs
  <2>2. CASE ShmStep \/ MqStep \/ MqRunsStep \/ FifoStep \/ DuplexStep \/ MonteCarloStep
    BY <2>2 DEF ShmStep, MqStep, MqRunsStep, FifoStep, DuplexStep, MonteCarloStep, ShellRuns, Runs
  <2>3. CASE UNCHANGED all
    BY <2>3, ShellUnchanged DEF all, ShellRuns
  <2>4. QED
    BY <2>1, <2>2, <2>3 DEF NextAll
<1>3. QED
  BY <1>1, <1>2, PTL DEF SeminarsSpec

\* Whatever the line is and however far the children have come: once all have been
\* started, no process has a pipe end open that would keep another one waiting.
THEOREM ShellClosesEnds == SeminarsSpec => []ShellEndsClosed
<1>1. ASSUME ShellInv, spc = "wait", NEW k \in 1..Len(cmds) - 1, NEW p \in DOMAIN open
      PROVE  /\ <<k, "w">> \in open[p] => p = k
             /\ <<k, "r">> \in open[p] => p = k + 1 \/ (p = k /\ children[k].at = "setup")
  <2>1. Len(cmds) = Len(children) /\ Len(children) \in Nat /\ p \in 0..Len(children) /\ k \in 1..Len(children)
    BY <1>1 DEF ShellInv, ShellTyped, ShellOwnEnds
  <2>2. CASE p = 0
    <3>1. open[p] \subseteq {<<Len(children), "r">>, <<Len(children), "w">>}
      BY <1>1, <2>2 DEF ShellInv, ShellOwnEnds
    <3>2. QED
      BY <2>1, <3>1
  <2>3. CASE p # 0
    <3>1. /\ open[p] \subseteq {<<p - 1, "r">>, <<p, "r">>, <<p, "w">>}
          /\ children[p].at # "setup" /\ p # Len(cmds) => <<p, "r">> \notin open[p]
      <4>1. p \in 1..Len(children)
        BY <2>1, <2>3
      <4>2. QED
        BY <1>1, <4>1 DEF ShellInv, ShellChildEnds
    <3>2. QED
      BY <2>1, <3>1
  <2>4. QED
    BY <2>2, <2>3
<1>2. ShellRuns => ShellEndsClosed
  BY <1>1 DEF ShellRuns, Runs, ShellEndsClosed, Shell!EndsClosed, Shell!cmd_count
<1>3. QED
  BY <1>2, ShellInvariance, PTL

\* Each child is reaped once, in whatever order they end, and none is left.
THEOREM ShellReapsEachOnce == SeminarsSpec => []ShellEachReapedOnce
<1>1. ASSUME ShellInv PROVE Shell!EachReapedOnce
  <2>1. DOMAIN printed = 1..Len(printed) /\ DOMAIN children = 1..Len(children)
    BY <1>1 DEF ShellInv, ShellTyped
  <2>2. QED
    BY <1>1, <2>1 DEF ShellInv, ShellReaped, Shell!EachReapedOnce, Shell!IsInjective
<1>2. ShellRuns => ShellEachReapedOnce
  BY <1>1 DEF ShellRuns, Runs, ShellEachReapedOnce
<1>3. QED
  BY <1>2, ShellInvariance, PTL

-----------------------------------------------------------------------------
(* The parser of ShellPipeline.  What has been read so far is known after each *)
(* token: the commands that a bar has ended, and the arguments since then.     *)

\* The library's concatenation.
LEMMA FlattenIsConcat == \A seqs : Shell!FlattenSeq(seqs) = Concat(seqs)
<1> SUFFICES ASSUME NEW seqs PROVE Shell!FlattenSeq(seqs) = Concat(seqs)
  OBVIOUS
<1>1. Shell!FlattenSeq(seqs) =
        IF Len(seqs) = 0 THEN seqs
        ELSE (CHOOSE f : f = [i \in 1..Len(seqs) |-> IF i = 1 THEN seqs[i] ELSE f[i - 1] \o seqs[i]])[Len(seqs)]
  BY DEF Shell!FlattenSeq
<1>2. QED
  BY <1>1 DEF Concat, Concatenates

\* A command line as it is written.
Lined(c)   == [k \in DOMAIN c |-> Append(Concat(c[k]), "|")]
WrittenAs(c) == Concat(Lined(c))

LEMMA WrittenIsConcat == \A c : Shell!Written(c) = WrittenAs(c)
<1> SUFFICES ASSUME NEW c PROVE Shell!Written(c) = WrittenAs(c)
  OBVIOUS
<1>1. Shell!Written(c) = Concat([k \in DOMAIN c |-> Append(Shell!FlattenSeq(c[k]), "|")])
  BY FlattenIsConcat DEF Shell!Written, Shell!Bar
<1>2. [k \in DOMAIN c |-> Append(Shell!FlattenSeq(c[k]), "|")] = Lined(c)
  BY FlattenIsConcat DEF Lined
<1>3. QED
  BY <1>1, <1>2 DEF WrittenAs

\* One command more.
LEMMA WrittenAppend ==
  ASSUME NEW S, "|" \in S, NEW c \in Seq(Seq(Seq(S))), NEW l \in Seq(Seq(S))
  PROVE  /\ WrittenAs(c) \in Seq(S) /\ WrittenAs(<<>>) = <<>>
         /\ WrittenAs(Append(c, l)) = WrittenAs(c) \o Append(Concat(l), "|")
<1>1. \A q \in Seq(Seq(S)) : Append(Concat(q), "|") \in Seq(S)
  BY ConcatAppend
<1>2. /\ Lined(c) \in Seq(Seq(S)) /\ Lined(<<>>) = <<>>
  <2>1. Len(c) \in Nat /\ DOMAIN c = 1..Len(c) /\ \A k \in 1..Len(c) : c[k] \in Seq(Seq(S))
    BY LenProperties
  <2>2. \A k \in 1..Len(c) : Append(Concat(c[k]), "|") \in Seq(S)
    BY <1>1, <2>1
  <2>3. QED
    BY <2>1, <2>2 DEF Lined
<1>3. Lined(Append(c, l)) = Append(Lined(c), Append(Concat(l), "|"))
  <2>1. /\ Len(c) \in Nat /\ DOMAIN c = 1..Len(c) /\ DOMAIN Append(c, l) = 1..Len(c) + 1
        /\ \A k \in 1..Len(c) : Append(c, l)[k] = c[k]
        /\ Append(c, l)[Len(c) + 1] = l
    BY AppendProperties, LenProperties
  <2>2. /\ Len(Lined(c)) = Len(c) /\ \A k \in 1..Len(c) : Lined(c)[k] = Append(Concat(c[k]), "|")
    BY <1>2, <2>1 DEF Lined
  <2>3. PICK f, x : f = Lined(Append(c, l)) /\ x = Append(Concat(l), "|")
    OBVIOUS
  <2>4. \A k \in 1..Len(c) + 1 : f[k] = Append(Concat(Append(c, l)[k]), "|") /\ f[k] \in Seq(S)
    <3>1. \A k \in 1..Len(c) + 1 : Append(c, l)[k] \in Seq(Seq(S))
      BY <2>1, LenProperties
    <3>2. QED
      BY <1>1, <2>1, <2>3, <3>1 DEF Lined
  <2>5. f \in [1..Len(c) + 1 -> Seq(S)]
    BY <2>1, <2>3, <2>4 DEF Lined
  <2>6. x \in Seq(S) /\ f[Len(c) + 1] = x /\ \A k \in 1..Len(c) : f[k] = Lined(c)[k]
    <3>1. x \in Seq(S)
      BY <1>1, <2>3
    <3>2. f[Len(c) + 1] = x
      BY <2>1, <2>3, <2>4
    <3>3. ASSUME NEW k \in 1..Len(c) PROVE f[k] = Lined(c)[k]
      <4>1. k \in 1..Len(c) + 1
        BY <2>1
      <4>2. f[k] = Append(Concat(c[k]), "|")
        BY <2>1, <2>4, <4>1
      <4>3. QED
        BY <2>2, <4>2
    <3>4. QED
      BY <3>1, <3>2, <3>3
  <2>7. f = Append(Lined(c), x)
    BY ONLY <1>2, <2>1, <2>2, <2>5, <2>6, AppendAsFunction
  <2>8. QED
    BY <2>3, <2>7
<1>4. QED
  BY <1>1, <1>2, <1>3, ConcatAppend DEF WrittenAs

-----------------------------------------------------------------------------
\* Where the bars are; MAX_ARGS words without one between them.
Bars(s)    == {k \in DOMAIN s : s[k] = "|"}
LongRun(s) == \E k \in DOMAIN s : k + MAX_ARGS - 1 \in DOMAIN s /\ \A j \in k..k + MAX_ARGS - 1 : s[j] # "|"

\* Cardinality is the same one in all modules.
LEMMA ShellCardinality == \A S : Shell!Cardinality(S) = Cardinality(S)
  BY DEF Shell!Cardinality, Cardinality

\* What ShellPipeline calls too long.
LEMMA TooLongIs == \A s : Shell!TooLong(s) <=> Cardinality(Bars(s)) >= MAX_COMMANDS \/ LongRun(s)
  BY ShellCardinality DEF Shell!TooLong, Shell!Bar, Bars, LongRun

\* A word does not add to the bars, a bar adds one.
LEMMA BarsAppend ==
  ASSUME NEW W, NEW s \in Seq(W), NEW x \in W
  PROVE  /\ Cardinality(Bars(s)) \in Nat
         /\ Cardinality(Bars(Append(s, x))) = Cardinality(Bars(s)) + IF x = "|" THEN 1 ELSE 0
<1>1. Len(s) \in Nat /\ DOMAIN s = 1..Len(s) /\ IsFiniteSet(1..Len(s))
  BY FS_Interval
<1>2. IsFiniteSet(Bars(s)) /\ Cardinality(Bars(s)) \in Nat /\ Len(s) + 1 \notin Bars(s)
  <2>1. Bars(s) \in SUBSET (1..Len(s))
    BY <1>1 DEF Bars
  <2>2. QED
    BY <1>1, <2>1, FS_Subset, FS_CardinalityType
<1>3. CASE x = "|"
  <2>1. Bars(Append(s, x)) = Bars(s) \cup {Len(s) + 1}
    BY <1>1, <1>3 DEF Bars
  <2>2. QED
    BY <1>2, <1>3, <2>1, FS_AddElement
<1>4. CASE x # "|"
  <2>1. Bars(Append(s, x)) = Bars(s)
    BY <1>1, <1>4 DEF Bars
  <2>2. QED
    BY <1>2, <1>4, <2>1
<1>5. QED
  BY <1>3, <1>4

\* What is too long stays so.
LEMMA TooLongGrows ==
  ASSUME NEW W, NEW s \in Seq(W), NEW x \in W, Shell!TooLong(s)
  PROVE  Shell!TooLong(Append(s, x))
<1>1. Len(s) \in Nat /\ MAX_ARGS \in Nat /\ MAX_COMMANDS \in Nat
  BY SeminarsAssumption
<1>2. Cardinality(Bars(s)) >= MAX_COMMANDS => Cardinality(Bars(Append(s, x))) >= MAX_COMMANDS
  BY <1>1, BarsAppend
<1>3. LongRun(s) => LongRun(Append(s, x))
  <2> SUFFICES ASSUME LongRun(s) PROVE LongRun(Append(s, x))
    OBVIOUS
  <2>1. PICK k \in DOMAIN s : k + MAX_ARGS - 1 \in DOMAIN s /\ \A j \in k..k + MAX_ARGS - 1 : s[j] # "|"
    BY DEF LongRun
  <2>2. /\ k \in DOMAIN Append(s, x) /\ k + MAX_ARGS - 1 \in DOMAIN Append(s, x)
        /\ \A j \in k..k + MAX_ARGS - 1 : Append(s, x)[j] = s[j]
    BY <1>1, <2>1
  <2>3. QED
    BY <2>1, <2>2 DEF LongRun
<1>4. QED
  BY <1>2, <1>3, TooLongIs

-----------------------------------------------------------------------------
\* Arguments of one word, and a part of a token: none or one word.
Args(W)  == {<<w>> : w \in W \ {"|"}}
Parts(W) == {<<>>} \cup Args(W)

\* s are the commands f, each with its bar, and the arguments l after the last one.
Has(s, f, l, W) ==
  /\ f \in Seq(Seq(Args(W))) /\ l \in Seq(Args(W))
  /\ s = WrittenAs(f) \o Concat(l) /\ ~Shell!TooLong(s)
  /\ Cardinality(Bars(s)) = Len(f)
  /\ Len(l) < MAX_ARGS /\ Len(l) <= Len(s)
  /\ \A k \in Len(s) - Len(l) + 1..Len(s) : s[k] # "|"
  /\ Len(l) < Len(s) => s[Len(s) - Len(l)] = "|"

\* What the parser has made of s: the commands so far, or an error that it deserves.
ReadSoFar(st, s, W) ==
  /\ "|" \in W /\ s \in Seq(W)
  /\ \/ \E f, l : st = [cmds |-> Append(f, l), err |-> "OK"] /\ Has(s, f, l, W)
     \/ \E c, e : st = [cmds |-> c, err |-> e] /\ e # "OK" /\ Shell!TooLong(s)

\* Arguments are sequences of words.
LEMMA ArgsAreWords ==
  ASSUME NEW W
  PROVE  /\ \A l \in Seq(Args(W)) : l \in Seq(Seq(W))
         /\ \A f \in Seq(Seq(Args(W))) : f \in Seq(Seq(Seq(W)))
<1>1. \A w \in W : <<w>> \in Seq(W)
  OBVIOUS
<1>2. Args(W) \subseteq Seq(W)
  BY <1>1 DEF Args
<1>3. \A l \in Seq(Args(W)) : l \in Seq(Seq(W))
  BY <1>2, SeqMonotonic
<1>4. Seq(Args(W)) \subseteq Seq(Seq(W))
  BY <1>3
<1>5. \A f \in Seq(Seq(Args(W))) : f \in Seq(Seq(Seq(W)))
  BY <1>4, SeqMonotonic
<1>6. QED
  BY <1>3, <1>5

\* How long they are.
LEMMA HasNumbers ==
  ASSUME NEW W, NEW s \in Seq(W), NEW f, NEW l, Has(s, f, l, W)
  PROVE  /\ MAX_ARGS \in Nat \ {0, 1} /\ MAX_COMMANDS \in Nat \ {0, 1}
         /\ Len(l) \in Nat /\ Len(f) \in Nat /\ Len(s) \in Nat
         /\ DOMAIN s = 1..Len(s) /\ Len(l) < MAX_ARGS /\ Len(l) <= Len(s) /\ Len(f) < MAX_COMMANDS
<1>1. MAX_ARGS \in Nat \ {0, 1} /\ MAX_COMMANDS \in Nat \ {0, 1}
  BY SeminarsAssumption
<1>2. Len(l) \in Nat /\ Len(f) \in Nat /\ Len(s) \in Nat /\ DOMAIN s = 1..Len(s)
  BY LenProperties DEF Has
<1>3. ~(Cardinality(Bars(s)) >= MAX_COMMANDS) /\ Cardinality(Bars(s)) = Len(f)
  BY TooLongIs DEF Has
<1>4. QED
  BY <1>1, <1>2, <1>3 DEF Has

\* The parts of a token, too.
LEMMA PartsAreWords == ASSUME NEW W PROVE \A part \in Parts(W) : part \in Seq(W)
<1>1. \A w \in W : <<w>> \in Seq(W)
  OBVIOUS
<1>2. <<>> \in Seq(W)
  OBVIOUS
<1>3. QED
  BY <1>1, <1>2 DEF Parts, Args

\* A word more is an argument more.
LEMMA HasWord ==
  ASSUME NEW W, "|" \in W, NEW s \in Seq(W), NEW f, NEW l, Has(s, f, l, W),
         NEW w \in W, w # "|", Len(l) < MAX_ARGS - 1
  PROVE  Has(Append(s, w), f, Append(l, <<w>>), W)
<1>1. f \in Seq(Seq(Args(W))) /\ l \in Seq(Args(W)) /\ <<w>> \in Args(W) /\ Append(l, <<w>>) \in Seq(Args(W))
  <2>1. <<w>> \in Args(W)
    BY DEF Args
  <2>2. QED
    BY <2>1 DEF Has
<1>2. PICK n \in Nat, m \in Nat :
        n = Len(l) /\ m = Len(s) /\ Len(Append(l, <<w>>)) = n + 1 /\ Len(Append(s, w)) = m + 1
  <2>1. Len(l) \in Nat /\ Len(s) \in Nat /\ Len(Append(l, <<w>>)) = Len(l) + 1 /\ Len(Append(s, w)) = Len(s) + 1
    BY <1>1, HasNumbers, AppendProperties
  <2>2. QED
    BY <2>1
<1>3. MAX_ARGS \in Nat /\ MAX_COMMANDS \in Nat
  BY HasNumbers
<1>4. /\ n < MAX_ARGS - 1 /\ n <= m
      /\ \A k \in m - n + 1..m : s[k] # "|"
      /\ n < m => s[m - n] = "|"
  BY <1>2 DEF Has
<1>5. Append(s, w) = WrittenAs(f) \o Concat(Append(l, <<w>>))
  <2>1. <<w>> \in Seq(W) /\ l \in Seq(Seq(W)) /\ f \in Seq(Seq(Seq(W))) /\ <<>> \in Seq(Seq(W))
    BY <1>1, ArgsAreWords
  <2>2. Concat(l) \in Seq(W) /\ Concat(Append(l, <<w>>)) = Concat(l) \o <<w>>
    BY <2>1, ConcatAppend
  <2>3. WrittenAs(f) \in Seq(W)
    BY <2>1, WrittenAppend
  <2>4. PICK a \in Seq(W), b \in Seq(W), c \in Seq(W) : a = WrittenAs(f) /\ b = Concat(l) /\ c = <<w>>
    BY <2>1, <2>2, <2>3
  <2>5. Con(Con(a, b), c) = Con(a, Con(b, c))
    BY ConAssociative
  <2>6. s = Con(a, b) /\ Concat(Append(l, <<w>>)) = Con(b, c)
    BY <2>2, <2>4 DEF Has, Con
  <2>7. Append(s, w) = Con(s, c)
    BY <2>4 DEF Con
  <2>8. QED
    BY <2>4, <2>5, <2>6, <2>7 DEF Con
<1>6. /\ \A k \in 1..m : Append(s, w)[k] = s[k]
      /\ Append(s, w)[m + 1] = w /\ DOMAIN s = 1..m /\ DOMAIN Append(s, w) = 1..m + 1
  BY <1>2
<1>7. ~LongRun(Append(s, w))
  <2> SUFFICES ASSUME NEW k \in 1..m + 1, k + MAX_ARGS - 1 \in 1..m + 1,
                      \A j \in k..k + MAX_ARGS - 1 : Append(s, w)[j] # "|"
               PROVE  FALSE
    BY <1>6 DEF LongRun
  <2>1. CASE k + MAX_ARGS - 1 <= m
    <3>1. k \in DOMAIN s /\ k + MAX_ARGS - 1 \in DOMAIN s /\ \A j \in k..k + MAX_ARGS - 1 : s[j] # "|"
      BY <1>2, <1>3, <1>4, <1>6, <2>1
    <3>2. LongRun(s)
      BY <3>1 DEF LongRun
    <3>3. QED
      BY <3>2, TooLongIs DEF Has
  <2>2. CASE k + MAX_ARGS - 1 = m + 1
    <3>1. m - n \in k..k + MAX_ARGS - 1 /\ m - n \in 1..m /\ n < m
      BY <1>2, <1>3, <1>4, <2>2
    <3>2. QED
      BY <1>4, <1>6, <3>1
  <2>3. QED
    BY <1>2, <1>3, <2>1, <2>2
<1>8. Cardinality(Bars(Append(s, w))) = Len(f) /\ ~(Cardinality(Bars(Append(s, w))) >= MAX_COMMANDS)
  <2>1. Cardinality(Bars(Append(s, w))) = Cardinality(Bars(s)) /\ Cardinality(Bars(s)) \in Nat
    BY BarsAppend
  <2>2. Cardinality(Bars(s)) = Len(f) /\ ~(Cardinality(Bars(s)) >= MAX_COMMANDS)
    BY TooLongIs DEF Has
  <2>3. QED
    BY <2>1, <2>2
<1>9. ~Shell!TooLong(Append(s, w))
  BY <1>7, <1>8, TooLongIs
<1>10. /\ Len(Append(l, <<w>>)) < MAX_ARGS /\ Len(Append(l, <<w>>)) <= Len(Append(s, w))
       /\ \A k \in Len(Append(s, w)) - Len(Append(l, <<w>>)) + 1..Len(Append(s, w)) : Append(s, w)[k] # "|"
       /\ Len(Append(l, <<w>>)) < Len(Append(s, w))
            => Append(s, w)[Len(Append(s, w)) - Len(Append(l, <<w>>))] = "|"
  <2>1. n + 1 < MAX_ARGS /\ n + 1 <= m + 1 /\ (m + 1) - (n + 1) = m - n /\ (m + 1) - (n + 1) + 1 = m - n + 1
    BY <1>2, <1>3, <1>4
  <2>2. \A k \in m - n + 1..m + 1 : Append(s, w)[k] # "|"
    <3> SUFFICES ASSUME NEW k \in m - n + 1..m + 1 PROVE Append(s, w)[k] # "|"
      OBVIOUS
    <3>1. k = m + 1 \/ (k \in m - n + 1..m /\ k \in 1..m)
      BY <1>2, <1>4
    <3>2. QED
      BY <1>4, <1>6, <3>1
  <2>3. n + 1 < m + 1 => Append(s, w)[m - n] = "|"
    BY <1>2, <1>4, <1>6
  <2>4. QED
    BY <1>2, <2>1, <2>2, <2>3
<1>11. QED
  BY <1>1, <1>5, <1>8, <1>9, <1>10 DEF Has

\* There is no room for a word more only if the run of words is too long.
LEMMA HasWordFull ==
  ASSUME NEW W, "|" \in W, NEW s \in Seq(W), NEW f, NEW l, Has(s, f, l, W),
         NEW w \in W, w # "|", Len(l) >= MAX_ARGS - 1
  PROVE  Shell!TooLong(Append(s, w))
<1>1. PICK n \in Nat, m \in Nat : n = Len(l) /\ m = Len(s)
  BY HasNumbers
<1>2. MAX_ARGS \in Nat \ {0, 1} /\ n = MAX_ARGS - 1 /\ n <= m /\ \A k \in m - n + 1..m : s[k] # "|"
  <2>1. MAX_ARGS \in Nat \ {0, 1} /\ Len(l) < MAX_ARGS /\ n <= m
    BY <1>1, HasNumbers
  <2>2. \A k \in m - n + 1..m : s[k] # "|"
    BY <1>1 DEF Has
  <2>3. QED
    BY <1>1, <2>1, <2>2
<1>3. /\ \A k \in 1..m : Append(s, w)[k] = s[k]
      /\ Append(s, w)[m + 1] = w /\ DOMAIN Append(s, w) = 1..m + 1
  BY <1>1
<1>4. m - n + 1 \in DOMAIN Append(s, w) /\ m - n + 1 + MAX_ARGS - 1 \in DOMAIN Append(s, w)
  BY <1>1, <1>2, <1>3
<1>5. ASSUME NEW j \in m - n + 1..m - n + 1 + MAX_ARGS - 1 PROVE Append(s, w)[j] # "|"
  <2>1. j = m + 1 \/ (j \in m - n + 1..m /\ j \in 1..m)
    BY <1>1, <1>2
  <2>2. QED
    BY <1>2, <1>3, <2>1
<1>6. LongRun(Append(s, w))
  BY <1>4, <1>5 DEF LongRun
<1>7. QED
  BY <1>6, TooLongIs

\* With a bar the last command is complete.
LEMMA HasBar ==
  ASSUME NEW W, "|" \in W, NEW s \in Seq(W), NEW f, NEW l, Has(s, f, l, W), Len(f) + 1 < MAX_COMMANDS
  PROVE  Has(Append(s, "|"), Append(f, l), <<>>, W)
<1>1. PICK n \in Nat, m \in Nat : n = Len(f) /\ m = Len(s)
  BY HasNumbers
<1>2. MAX_ARGS \in Nat \ {0, 1} /\ MAX_COMMANDS \in Nat \ {0, 1} /\ DOMAIN s = 1..m
  BY <1>1, HasNumbers
<1>3. f \in Seq(Seq(Args(W))) /\ l \in Seq(Args(W))
  BY DEF Has
<1>4. Append(f, l) \in Seq(Seq(Args(W))) /\ <<>> \in Seq(Args(W)) /\ Len(Append(f, l)) = n + 1 /\ Len(<<>>) = 0
  BY <1>1, <1>3
<1>5. Append(s, "|") = WrittenAs(Append(f, l)) \o Concat(<<>>)
  <2>1. l \in Seq(Seq(W)) /\ f \in Seq(Seq(Seq(W))) /\ <<"|">> \in Seq(W) /\ <<>> \in Seq(Seq(W)) /\ <<>> \in Seq(W)
    BY <1>3, ArgsAreWords
  <2>2. /\ WrittenAs(f) \in Seq(W) /\ Concat(l) \in Seq(W) /\ Concat(<<>>) = <<>>
        /\ WrittenAs(Append(f, l)) = WrittenAs(f) \o Append(Concat(l), "|")
    <3>1. WrittenAs(f) \in Seq(W) /\ WrittenAs(Append(f, l)) = WrittenAs(f) \o Append(Concat(l), "|")
      BY <2>1, WrittenAppend
    <3>2. Concat(l) \in Seq(W) /\ Concat(<<>>) = <<>>
      BY <2>1, ConcatAppend
    <3>3. QED
      BY <3>1, <3>2
  <2>3. WrittenAs(f) \o Append(Concat(l), "|") = Append(WrittenAs(f) \o Concat(l), "|")
    <3>1. PICK a \in Seq(W), b \in Seq(W), c \in Seq(W) : a = WrittenAs(f) /\ b = Concat(l) /\ c = <<"|">>
      BY <2>1, <2>2
    <3>2. Con(Con(a, b), c) = Con(a, Con(b, c))
      BY ConAssociative
    <3>3. Append(b, "|") = Con(b, c) /\ Append(Con(a, b), "|") = Con(Con(a, b), c)
      BY <3>1, AppendIsCon
    <3>4. QED
      BY <3>1, <3>2, <3>3 DEF Con
  <2>4. s = WrittenAs(f) \o Concat(l)
    BY DEF Has
  <2>5. WrittenAs(Append(f, l)) = Append(s, "|") /\ Append(s, "|") \in Seq(W)
    BY <2>2, <2>3, <2>4
  <2>6. Append(s, "|") \o <<>> = Append(s, "|")
    BY <2>5, ConcatEmptySeq
  <2>7. QED
    BY <2>2, <2>5, <2>6
<1>6. /\ \A k \in 1..m : Append(s, "|")[k] = s[k]
      /\ Append(s, "|")[m + 1] = "|" /\ DOMAIN Append(s, "|") = 1..m + 1 /\ Len(Append(s, "|")) = m + 1
  BY <1>1
<1>7. ~LongRun(Append(s, "|"))
  <2> SUFFICES ASSUME NEW k \in 1..m + 1, k + MAX_ARGS - 1 \in 1..m + 1,
                      \A j \in k..k + MAX_ARGS - 1 : Append(s, "|")[j] # "|"
               PROVE  FALSE
    BY <1>6 DEF LongRun
  <2>1. m + 1 \notin k..k + MAX_ARGS - 1
    BY <1>6
  <2>2. k \in DOMAIN s /\ k + MAX_ARGS - 1 \in DOMAIN s /\ \A j \in k..k + MAX_ARGS - 1 : s[j] # "|"
    BY <1>2, <1>6, <2>1
  <2>3. LongRun(s)
    BY <2>2 DEF LongRun
  <2>4. QED
    BY <2>3, TooLongIs DEF Has
<1>8. Cardinality(Bars(Append(s, "|"))) = n + 1 /\ ~(n + 1 >= MAX_COMMANDS)
  <2>1. Cardinality(Bars(Append(s, "|"))) = Cardinality(Bars(s)) + 1 /\ Cardinality(Bars(s)) = n
    BY <1>1, BarsAppend DEF Has
  <2>2. QED
    BY <1>1, <1>2, <2>1
<1>9. ~Shell!TooLong(Append(s, "|"))
  BY <1>7, <1>8, TooLongIs
<1>10. PICK t, g, l0 : t = Append(s, "|") /\ g = Append(f, l) /\ l0 = <<>>
  OBVIOUS
<1>11. /\ Len(l0) = 0 /\ Len(t) = m + 1 /\ Len(g) = n + 1 /\ t[m + 1] = "|" /\ 0 < MAX_ARGS
       /\ g \in Seq(Seq(Args(W))) /\ l0 \in Seq(Args(W)) /\ t = WrittenAs(g) \o Concat(l0)
       /\ ~Shell!TooLong(t) /\ Cardinality(Bars(t)) = n + 1
  <2>1. Len(l0) = 0 /\ Len(t) = m + 1 /\ Len(g) = n + 1 /\ t[m + 1] = "|" /\ 0 < MAX_ARGS
    BY <1>2, <1>4, <1>6, <1>10
  <2>2. g \in Seq(Seq(Args(W))) /\ l0 \in Seq(Args(W))
    BY <1>4, <1>10
  <2>3. t = WrittenAs(g) \o Concat(l0)
    BY <1>5, <1>10
  <2>4. ~Shell!TooLong(t) /\ Cardinality(Bars(t)) = n + 1
    BY <1>8, <1>9, <1>10
  <2>5. QED
    BY <2>1, <2>2, <2>3, <2>4
<1>12. Has(t, g, l0, W)
  BY ONLY <1>11, m \in Nat, n \in Nat DEF Has
<1>13. QED
  BY <1>10, <1>12

\* There is no room for a command more only if there are too many bars.
LEMMA HasBarFull ==
  ASSUME NEW W, "|" \in W, NEW s \in Seq(W), NEW f, NEW l, Has(s, f, l, W), Len(f) + 1 >= MAX_COMMANDS
  PROVE  Shell!TooLong(Append(s, "|"))
<1>1. Cardinality(Bars(Append(s, "|"))) = Cardinality(Bars(s)) + 1 /\ Cardinality(Bars(s)) = Len(f)
  BY BarsAppend DEF Has
<1>2. QED
  BY <1>1, TooLongIs

\* One command without arguments.
Begin == [cmds |-> << <<>> >>, err |-> "OK"]

\* Nothing has been read at the beginning.
LEMMA ReadNothing ==
  ASSUME NEW W, "|" \in W
  PROVE  ReadSoFar(Begin, <<>>, W)
<1>1. /\ <<>> \in Seq(W) /\ <<>> \in Seq(Args(W)) /\ <<>> \in Seq(Seq(Args(W))) /\ Len(<<>>) = 0
      /\ Append(<<>>, <<>>) = << <<>> >> /\ DOMAIN <<>> = {}
  OBVIOUS
<1>2. MAX_ARGS \in Nat \ {0, 1} /\ MAX_COMMANDS \in Nat \ {0, 1}
  BY SeminarsAssumption
<1>3. <<>> = WrittenAs(<<>>) \o Concat(<<>>)
  <2>1. <<>> \in Seq(Seq(W)) /\ <<>> \in Seq(Seq(Seq(W)))
    OBVIOUS
  <2>2. WrittenAs(<<>>) = <<>> /\ Concat(<<>>) = <<>>
    BY <1>1, <2>1, WrittenAppend, ConcatAppend
  <2>3. QED
    BY <1>1, <2>2, ConcatEmptySeq
<1>4. Cardinality(Bars(<<>>)) = 0 /\ ~Shell!TooLong(<<>>)
  <2>1. Bars(<<>>) = {} /\ ~LongRun(<<>>)
    BY <1>1 DEF Bars, LongRun
  <2>2. Cardinality(Bars(<<>>)) = 0
    BY <2>1, FS_EmptySet
  <2>3. QED
    BY <1>2, <2>1, <2>2, TooLongIs
<1>5. Has(<<>>, <<>>, <<>>, W)
  BY <1>1, <1>2, <1>3, <1>4 DEF Has
<1>6. Begin = [cmds |-> Append(<<>>, <<>>), err |-> "OK"]
  BY <1>1 DEF Begin
<1>7. QED
  BY <1>1, <1>5, <1>6 DEF ReadSoFar

\* AddArgument() reads a word.
LEMMA ReadWord ==
  ASSUME NEW W, NEW st, NEW s, ReadSoFar(st, s, W), NEW w \in W, w # "|"
  PROVE  ReadSoFar(Shell!AddArgument(st, <<w>>), Append(s, w), W)
<1>1. "|" \in W /\ s \in Seq(W) /\ Append(s, w) \in Seq(W)
  BY DEF ReadSoFar
<1>2. ASSUME NEW f, NEW l, st = [cmds |-> Append(f, l), err |-> "OK"], Has(s, f, l, W)
      PROVE  ReadSoFar(Shell!AddArgument(st, <<w>>), Append(s, w), W)
  <2>1. /\ f \in Seq(Seq(Args(W))) /\ l \in Seq(Args(W)) /\ Append(f, l) \in Seq(Seq(Args(W)))
        /\ Len(Append(f, l)) = Len(f) + 1 /\ Append(f, l)[Len(f) + 1] = l
        /\ MAX_ARGS \in Nat /\ Len(l) \in Nat /\ Len(f) \in Nat /\ <<w>> \in Args(W)
    <3>1. f \in Seq(Seq(Args(W))) /\ l \in Seq(Args(W)) /\ <<w>> \in Args(W)
      BY <1>2 DEF Has, Args
    <3>2. QED
      BY <1>1, <1>2, <3>1, HasNumbers, AppendProperties
  <2>2. CASE Len(l) >= MAX_ARGS - 1
    <3>1. Shell!AddArgument(st, <<w>>) = [cmds |-> Append(f, l), err |-> "TOO_MANY_ARGS"]
      BY <1>2, <2>1, <2>2 DEF Shell!AddArgument
    <3>2. Shell!TooLong(Append(s, w))
      BY <1>1, <1>2, <2>2, HasWordFull
    <3>3. QED
      BY <1>1, <3>1, <3>2 DEF ReadSoFar
  <2>3. CASE Len(l) < MAX_ARGS - 1
    <3>1. Shell!AddArgument(st, <<w>>)
            = [cmds |-> [Append(f, l) EXCEPT ![Len(f) + 1] = Append(l, <<w>>)], err |-> "OK"]
      <4>1. PICK c : c = Append(f, l) /\ Len(c) = Len(f) + 1 /\ c[Len(f) + 1] = l
        BY <2>1
      <4>2. st = [cmds |-> c, err |-> "OK"] /\ st.cmds = c /\ st.err = "OK"
        BY <1>2, <4>1
      <4>3. ~(Len(c[Len(c)]) >= MAX_ARGS - 1)
        BY <2>1, <2>3, <4>1
      <4>4. Shell!AddArgument(st, <<w>>) = [st EXCEPT !.cmds[Len(c)] = Append(@, <<w>>)]
        BY <4>2, <4>3 DEF Shell!AddArgument
      <4>5. [st EXCEPT !.cmds[Len(c)] = Append(@, <<w>>)]
              = [cmds |-> [c EXCEPT ![Len(c)] = Append(c[Len(c)], <<w>>)], err |-> "OK"]
        <5>1. PICK n, x : n = Len(c) /\ x = Append(c[n], <<w>>)
          OBVIOUS
        <5>2. [st EXCEPT !.cmds[n] = x] = [cmds |-> [c EXCEPT ![n] = x], err |-> "OK"]
          BY ONLY <4>2
        <5>3. [st EXCEPT !.cmds[n] = Append(@, <<w>>)] = [st EXCEPT !.cmds[n] = Append(st.cmds[n], <<w>>)]
          OBVIOUS
        <5>4. QED
          BY <4>2, <5>1, <5>2, <5>3
      <4>6. QED
        BY <4>1, <4>4, <4>5
    <3>2. [Append(f, l) EXCEPT ![Len(f) + 1] = Append(l, <<w>>)] = Append(f, Append(l, <<w>>))
      <4>1. Append(l, <<w>>) \in Seq(Args(W))
        BY <2>1
      <4>2. PICK g : g = [Append(f, l) EXCEPT ![Len(f) + 1] = Append(l, <<w>>)]
        OBVIOUS
      <4>3. /\ g \in [1..Len(f) + 1 -> Seq(Args(W))] /\ g[Len(f) + 1] = Append(l, <<w>>)
            /\ \A k \in 1..Len(f) : g[k] = f[k]
        <5>1. PICK c, x, n : c = Append(f, l) /\ x = Append(l, <<w>>) /\ n = Len(f)
          BY <2>1
        <5> n \in Nat
          BY <2>1, <5>1
        <5>2. /\ c \in [1..n + 1 -> Seq(Args(W))] /\ \A k \in 1..n : c[k] = f[k]
          <6>1. c \in Seq(Seq(Args(W))) /\ Len(c) = n + 1
            BY <2>1, <5>1
          <6>2. c \in [1..n + 1 -> Seq(Args(W))]
            BY <6>1
          <6>3. f \in Seq(Seq(Args(W))) /\ l \in Seq(Args(W)) /\ c = Append(f, l) /\ n = Len(f)
            BY <2>1, <5>1
          <6>4. \A k \in 1..n : c[k] = f[k]
            BY ONLY <6>3, AppendProperties
          <6>5. QED
            BY <6>2, <6>4
        <5>3. x \in Seq(Args(W)) /\ g = [c EXCEPT ![n + 1] = x]
          <6>1. x \in Seq(Args(W))
            BY ONLY <4>1, <5>1
          <6>2. g = [c EXCEPT ![n + 1] = x]
            BY ONLY <4>2, <5>1
          <6>3. QED
            BY <6>1, <6>2
        <5>4. g \in [1..n + 1 -> Seq(Args(W))] /\ g[n + 1] = x /\ \A k \in 1..n : g[k] = c[k]
          BY ONLY <5>2, <5>3, n \in Nat
        <5>5. QED
          BY <5>1, <5>2, <5>4
      <4>4. g = Append(f, Append(l, <<w>>))
        BY ONLY <2>1, <4>1, <4>3, AppendAsFunction
      <4>5. QED
        BY <4>2, <4>4
    <3>3. Has(Append(s, w), f, Append(l, <<w>>), W)
      BY <1>1, <1>2, <2>3, HasWord
    <3>4. QED
      BY <1>1, <3>1, <3>2, <3>3 DEF ReadSoFar
  <2>4. QED
    BY <2>1, <2>2, <2>3
<1>3. ASSUME NEW c, NEW e, st = [cmds |-> c, err |-> e], e # "OK", Shell!TooLong(s)
      PROVE  ReadSoFar(Shell!AddArgument(st, <<w>>), Append(s, w), W)
  <2>1. Shell!AddArgument(st, <<w>>) = st
    BY <1>3 DEF Shell!AddArgument
  <2>2. Shell!TooLong(Append(s, w))
    BY <1>1, <1>3, TooLongGrows
  <2>3. QED
    BY <1>1, <1>3, <2>1, <2>2 DEF ReadSoFar
<1>4. QED
  BY <1>2, <1>3 DEF ReadSoFar

\* InitCommand() reads a bar.
LEMMA ReadBar ==
  ASSUME NEW W, NEW st, NEW s, ReadSoFar(st, s, W)
  PROVE  ReadSoFar(Shell!InitCommand(st), Append(s, "|"), W)
<1>1. "|" \in W /\ s \in Seq(W) /\ Append(s, "|") \in Seq(W)
  BY DEF ReadSoFar
<1>2. ASSUME NEW f, NEW l, st = [cmds |-> Append(f, l), err |-> "OK"], Has(s, f, l, W)
      PROVE  ReadSoFar(Shell!InitCommand(st), Append(s, "|"), W)
  <2>1. /\ Len(Append(f, l)) = Len(f) + 1 /\ Len(f) \in Nat /\ MAX_COMMANDS \in Nat
    <3>1. f \in Seq(Seq(Args(W))) /\ l \in Seq(Args(W))
      BY <1>2 DEF Has
    <3>2. QED
      BY <1>1, <1>2, <3>1, HasNumbers
  <2>2. CASE Len(f) + 1 >= MAX_COMMANDS
    <3>1. Shell!InitCommand(st) = [cmds |-> Append(f, l), err |-> "TOO_MANY_COMMANDS"]
      <4>1. st.err = "OK" /\ Len(st.cmds) >= MAX_COMMANDS
        BY <1>2, <2>1, <2>2
      <4>2. Shell!InitCommand(st) = [st EXCEPT !.err = "TOO_MANY_COMMANDS"]
        BY <4>1 DEF Shell!InitCommand
      <4>3. QED
        BY <1>2, <4>2
    <3>2. Shell!TooLong(Append(s, "|"))
      BY <1>1, <1>2, <2>2, HasBarFull
    <3>3. QED
      BY <1>1, <3>1, <3>2 DEF ReadSoFar
  <2>3. CASE Len(f) + 1 < MAX_COMMANDS
    <3>1. Shell!InitCommand(st) = [cmds |-> Append(Append(f, l), <<>>), err |-> "OK"]
      <4>1. st.err = "OK" /\ st.cmds = Append(f, l) /\ ~(Len(st.cmds) >= MAX_COMMANDS)
        BY <1>2, <2>1, <2>3
      <4>2. Shell!InitCommand(st) = [st EXCEPT !.cmds = Append(Append(f, l), <<>>)]
        BY <4>1 DEF Shell!InitCommand
      <4>3. QED
        BY <1>2, <4>2
    <3>2. Has(Append(s, "|"), Append(f, l), <<>>, W)
      BY <1>1, <1>2, <2>3, HasBar
    <3>3. QED
      BY <1>1, <3>1, <3>2 DEF ReadSoFar
  <2>4. QED
    BY <2>1, <2>2, <2>3
<1>3. ASSUME NEW c, NEW e, st = [cmds |-> c, err |-> e], e # "OK", Shell!TooLong(s)
      PROVE  ReadSoFar(Shell!InitCommand(st), Append(s, "|"), W)
  <2>1. Shell!InitCommand(st) = st
    BY <1>3 DEF Shell!InitCommand
  <2>2. Shell!TooLong(Append(s, "|"))
    BY <1>1, <1>3, TooLongGrows
  <2>3. QED
    BY <1>1, <1>3, <2>1, <2>2 DEF ReadSoFar
<1>4. QED
  BY <1>2, <1>3 DEF ReadSoFar

\* A token with no more than one bar.
OneBarIn(tok) == \A j, k \in DOMAIN tok : tok[j] = "|" /\ tok[k] = "|" => j = k

\* If there is no more than one bar, there are no two.
LEMMA OneBarOnly ==
  ASSUME NEW W, NEW tok \in Seq(W), Shell!Cardinality({j \in DOMAIN tok : tok[j] = Shell!Bar}) <= 1
  PROVE  OneBarIn(tok)
<1> SUFFICES ASSUME NEW j \in DOMAIN tok, NEW k \in DOMAIN tok, tok[j] = "|", tok[k] = "|", j # k PROVE FALSE
  BY DEF OneBarIn
<1>1. DOMAIN tok = 1..Len(tok) /\ Len(tok) \in Nat /\ IsFiniteSet(1..Len(tok))
  BY FS_Interval
<1>2. Bars(tok) \in SUBSET (1..Len(tok)) /\ {j, k} \in SUBSET Bars(tok)
  BY <1>1 DEF Bars
<1>3. IsFiniteSet(Bars(tok)) /\ Cardinality(Bars(tok)) \in Nat
  BY <1>1, <1>2, FS_Subset, FS_CardinalityType
<1>4. Cardinality(Bars(tok)) # 0
  BY <1>2, <1>3, FS_EmptySet
<1>5. Cardinality(Bars(tok)) # 1
  BY <1>2, <1>3, FS_Singleton
<1>6. Cardinality(Bars(tok)) <= 1
  BY ShellCardinality DEF Bars, Shell!Bar
<1>7. QED
  BY <1>3, <1>4, <1>5, <1>6

\* Where the bar is found.
LEMMA BarFound ==
  ASSUME NEW W, NEW tok \in Seq(W), OneBarIn(tok), NEW p \in 1..Len(tok), tok[p] = "|"
  PROVE  /\ Shell!fixBeforeTok(tok) = SubSeq(tok, 1, p - 1)
         /\ Shell!fixAfterTok(tok) = SubSeq(tok, p + 1, Len(tok))
<1>1. {i \in 1..Len(tok) : tok[i] = "|"} = {p}
  BY DEF OneBarIn
<1>2. Shell!Min({p}) = p
  BY DEF Shell!Min
<1>3. Shell!SelectInSeq(tok, LAMBDA x : x = "|") = p
  BY <1>1, <1>2 DEF Shell!SelectInSeq
<1>4. QED
  BY <1>3 DEF Shell!fixBeforeTok, Shell!fixAfterTok, Shell!Bar

\* A token is a word, or a bar with a word or nothing on each side of it.
LEMMA TokenShape ==
  ASSUME NEW W, NEW tok \in Seq(W), tok # <<>>, OneBarIn(tok),
         \A k \in 1..Len(tok) - 1 : "|" \in {tok[k], tok[k + 1]}
  PROVE  \/ "|" \notin Shell!ToSet(tok) /\ \E w \in W \ {"|"} : tok = <<w>>
         \/ /\ "|" \in Shell!ToSet(tok)
            /\ \E b, a \in Parts(W) :
                 /\ Shell!fixBeforeTok(tok) = b /\ Shell!fixAfterTok(tok) = a
                 /\ tok = (b \o <<"|">>) \o a
<1>1. PICK n \in Nat : n = Len(tok) /\ n # 0 /\ DOMAIN tok = 1..n
  BY EmptySeq
<1>2. \A k \in 1..n : tok[k] \in W
  BY <1>1
<1>3. CASE \A k \in 1..n : tok[k] # "|"
  <2>1. n = 1
    <3>1. ~(n > 1)
      BY <1>1, <1>3
    <3>2. QED
      BY <1>1, <3>1
  <2>2. tok = <<tok[1]>> /\ tok[1] \in W \ {"|"}
    BY <1>1, <1>2, <1>3, <2>1
  <2>3. "|" \notin Shell!ToSet(tok)
    BY <1>1, <1>3 DEF Shell!ToSet
  <2>4. QED
    BY <2>2, <2>3
<1>4. ASSUME NEW p \in 1..n, tok[p] = "|"
      PROVE  /\ "|" \in Shell!ToSet(tok)
             /\ \E b, a \in Parts(W) :
                  /\ Shell!fixBeforeTok(tok) = b /\ Shell!fixAfterTok(tok) = a
                  /\ tok = (b \o <<"|">>) \o a
  <2>1. \A k \in 1..n : k # p => tok[k] # "|"
    BY <1>1, <1>4 DEF OneBarIn
  <2>2. p = 1 \/ p = 2
    <3>1. ~(p >= 3)
      <4> SUFFICES ASSUME p >= 3 PROVE FALSE
        OBVIOUS
      <4>1. p - 2 \in 1..n - 1 /\ p - 2 \in 1..n /\ p - 1 \in 1..n /\ p - 2 + 1 = p - 1
        BY <1>1
      <4>2. "|" \in {tok[p - 2], tok[p - 1]}
        BY <1>1, <4>1
      <4>3. QED
        BY <2>1, <4>1, <4>2
    <3>2. QED
      BY <3>1
  <2>3. n = p \/ n = p + 1
    <3>1. ~(n >= p + 2)
      <4> SUFFICES ASSUME n >= p + 2 PROVE FALSE
        OBVIOUS
      <4>1. p + 1 \in 1..n - 1 /\ p + 1 \in 1..n /\ p + 2 \in 1..n /\ p + 1 + 1 = p + 2
        BY <1>1
      <4>2. "|" \in {tok[p + 1], tok[p + 2]}
        BY <1>1, <4>1
      <4>3. QED
        BY <2>1, <4>1, <4>2
    <3>2. QED
      BY <1>1, <3>1
  <2>4. PICK b, a : b = SubSeq(tok, 1, p - 1) /\ a = SubSeq(tok, p + 1, n)
    OBVIOUS
  <2>5. Shell!fixBeforeTok(tok) = b /\ Shell!fixAfterTok(tok) = a
    BY <1>1, <1>4, <2>4, BarFound
  <2>6. "|" \in Shell!ToSet(tok)
    BY <1>1, <1>4 DEF Shell!ToSet
  <2>7. b \in Parts(W) /\ (p = 1 => b = <<>>) /\ (p = 2 => b = <<tok[1]>>)
    <3>1. p = 1 => b = <<>>
      BY <2>4
    <3>2. p = 2 => b = <<tok[1]>> /\ tok[1] \in W \ {"|"}
      BY <1>1, <1>2, <2>1, <2>4, OneElement
    <3>3. QED
      BY <2>2, <3>1, <3>2 DEF Parts, Args
  <2>8. a \in Parts(W) /\ (n = p => a = <<>>) /\ (n = p + 1 => a = <<tok[n]>>)
    <3>1. n = p => a = <<>>
      BY <2>4
    <3>2. n = p + 1 => a = <<tok[n]>> /\ tok[n] \in W \ {"|"}
      BY <1>1, <1>2, <2>1, <2>4, OneElement
    <3>3. QED
      BY <2>3, <3>1, <3>2 DEF Parts, Args
  <2>9. tok = (b \o <<"|">>) \o a
    <3>1. p \in 1..Len(tok) /\ 1 \in 1..p /\ 1 \in 1..Len(tok) + 1 /\ p \in 0..Len(tok) /\ n \in p..Len(tok)
      BY <1>1
    <3>2. SubSeq(tok, 1, p) = SubSeq(tok, 1, p - 1) \o <<tok[p]>>
      BY <1>1, SubSeqRecursiveSecond
    <3>3. SubSeq(tok, 1, p) \o SubSeq(tok, p + 1, n) = SubSeq(tok, 1, n)
      BY <3>1, ConcatAdjacentSubSeq
    <3>4. SubSeq(tok, 1, n) = tok
      BY <1>1, SubSeqFull
    <3>5. QED
      BY <1>4, <2>4, <3>2, <3>3, <3>4
  <2>10. QED
    BY <2>5, <2>6, <2>7, <2>8, <2>9
<1>5. QED
  BY <1>3, <1>4

\* A part of a token.
LEMMA ReadPart ==
  ASSUME NEW W, NEW st, NEW s, ReadSoFar(st, s, W), NEW part \in Parts(W)
  PROVE  ReadSoFar(Shell!AddPart(st, part), s \o part, W)
<1>1. s \in Seq(W)
  BY DEF ReadSoFar
<1>2. CASE part = <<>>
  <2>1. s \o part = s
    BY <1>1, <1>2, ConcatEmptySeq
  <2>2. QED
    BY <1>2, <2>1 DEF Shell!AddPart
<1>3. CASE part # <<>>
  <2>1. PICK w \in W \ {"|"} : part = <<w>>
    BY <1>3 DEF Parts, Args
  <2>2. s \o part = Append(s, w)
    BY <1>1, <2>1
  <2>3. ReadSoFar(Shell!AddArgument(st, <<w>>), Append(s, w), W)
    BY ReadWord
  <2>4. Shell!AddPart(st, part) = Shell!AddArgument(st, <<w>>)
    BY <1>3, <2>1 DEF Shell!AddPart
  <2>5. QED
    BY <2>2, <2>3, <2>4
<1>4. QED
  BY <1>2, <1>3

\* strtok_r() gives such tokens.
IsToken(tok, W) ==
  /\ tok \in Seq(W) /\ tok # <<>> /\ OneBarIn(tok)
  /\ \A k \in 1..Len(tok) - 1 : "|" \in {tok[k], tok[k + 1]}

\* ParseToken reads a token.
LEMMA ReadToken ==
  ASSUME NEW W, NEW st, NEW s, ReadSoFar(st, s, W), NEW tok, IsToken(tok, W)
  PROVE  ReadSoFar(Shell!ParseToken(st, tok), s \o tok, W)
<1>1. s \in Seq(W) /\ "|" \in W
  BY DEF ReadSoFar
<1>2. CASE "|" \notin Shell!ToSet(tok) /\ \E w \in W \ {"|"} : tok = <<w>>
  <2>1. PICK w \in W \ {"|"} : tok = <<w>>
    BY <1>2
  <2>2. Shell!ParseToken(st, tok) = Shell!AddArgument(st, <<w>>)
    BY <1>2, <2>1 DEF Shell!ParseToken, Shell!Bar
  <2>3. s \o tok = Append(s, w)
    BY <1>1, <2>1
  <2>4. ReadSoFar(Shell!AddArgument(st, <<w>>), Append(s, w), W)
    BY ReadWord
  <2>5. QED
    BY <2>2, <2>3, <2>4
<1>3. ASSUME NEW b \in Parts(W), NEW a \in Parts(W), "|" \in Shell!ToSet(tok),
             Shell!fixBeforeTok(tok) = b, Shell!fixAfterTok(tok) = a, tok = (b \o <<"|">>) \o a
      PROVE  ReadSoFar(Shell!ParseToken(st, tok), s \o tok, W)
  <2>1. PICK st1, st2 : st1 = Shell!AddPart(st, b) /\ st2 = Shell!InitCommand(st1)
    OBVIOUS
  <2>2. Shell!ParseToken(st, tok) = Shell!AddPart(st2, a)
    BY <1>3, <2>1 DEF Shell!ParseToken, Shell!Bar
  <2>3. ReadSoFar(st1, s \o b, W)
    BY <2>1, ReadPart
  <2>4. ReadSoFar(st2, Append(s \o b, "|"), W)
    BY <2>1, <2>3, ReadBar
  <2>5. ReadSoFar(Shell!AddPart(st2, a), Append(s \o b, "|") \o a, W)
    BY <2>4, ReadPart
  <2>6. Append(s \o b, "|") \o a = s \o tok
    <3>1. PICK c \in Seq(W) : c = <<"|">>
      BY <1>1, AppendIsCon
    <3>2. a \in Seq(W) /\ b \in Seq(W)
      BY PartsAreWords
    <3>3. Con(Con(Con(s, b), c), a) = Con(s, Con(Con(b, c), a))
      BY <1>1, <3>2, Regroup
    <3>4. \A q, r \in Seq(W) : Con(q, r) \in Seq(W) /\ Append(q, "|") = Con(q, c)
      BY <1>1, <3>1, AppendIsCon
    <3>5. Con(s, b) \in Seq(W)
      BY <1>1, <3>2, <3>4
    <3>6. Con(Append(Con(s, b), "|"), a) = Con(s, Con(Con(b, c), a))
      BY <3>2, <3>3, <3>4, <3>5
    <3>7. QED
      BY <1>3, <3>1, <3>6 DEF Con
  <2>7. QED
    BY <2>2, <2>5, <2>6
<1>4. QED
  BY <1>2, <1>3, TokenShape DEF IsToken

-----------------------------------------------------------------------------
\* What the library's fold computes: the state after each part of the tokens, from
\* that without the last one.
Greatest(s) == CHOOSE x \in s : \A y \in s : x >= y

Parses(iter, tokens) ==
  iter = [s \in SUBSET DOMAIN tokens |->
            IF s = {} THEN Begin ELSE Shell!ParseToken(iter[s \ {Greatest(s)}], tokens[Greatest(s)])]

Parsed(tokens) == (CHOOSE iter : Parses(iter, tokens))[DOMAIN tokens]

\* ParseCommandLine folds so.
LEMMA ParsedByFold ==
  \A tokens : Shell!ParseCommandLine(tokens)
                = IF Shell!Last(Parsed(tokens).cmds) = <<>>
                  THEN [Parsed(tokens) EXCEPT !.cmds = Shell!Front(@)] ELSE Parsed(tokens)
<1> SUFFICES ASSUME NEW tokens PROVE Shell!FoldLeft(Shell!ParseToken, Begin, tokens) = Parsed(tokens)
  BY DEF Shell!ParseCommandLine, Begin
<1>1. QED
  BY DEF Shell!FoldLeft, Shell!MapThenFoldSet, Shell!Max, Parsed, Parses, Greatest

\* The same for the parts of the first n tokens.
ParsesUpTo(iter, n, tokens) ==
  iter = [s \in SUBSET (1..n) |->
            IF s = {} THEN Begin ELSE Shell!ParseToken(iter[s \ {Greatest(s)}], tokens[Greatest(s)])]

\* The greatest of the first numbers.
LEMMA GreatestIs ==
  ASSUME NEW n \in Nat, NEW s \in SUBSET (1..n + 1), n + 1 \in s
  PROVE  Greatest(s) = n + 1
<1>1. \A y \in s : n + 1 >= y
  OBVIOUS
<1>2. ASSUME NEW x \in s, \A y \in s : x >= y PROVE x = n + 1
  <2>1. x >= n + 1 /\ x <= n + 1 /\ x \in Int
    BY <1>2
  <2>2. QED
    BY <2>1
<1>3. QED
  BY <1>1, <1>2 DEF Greatest

\* There is always one token more.
LEMMA ParsesOneMore ==
  ASSUME NEW tokens, NEW n \in Nat, NEW f, ParsesUpTo(f, n, tokens)
  PROVE  \E g : ParsesUpTo(g, n + 1, tokens)
<1> DEFINE g == [s \in SUBSET (1..n + 1) |->
                   IF n + 1 \in s THEN Shell!ParseToken(f[s \ {n + 1}], tokens[n + 1]) ELSE f[s]]
<1>1. \A s \in SUBSET (1..n + 1) : n + 1 \notin s => s \in SUBSET (1..n)
  OBVIOUS
<1>2. ASSUME NEW s \in SUBSET (1..n + 1)
      PROVE  g[s] = IF s = {} THEN Begin ELSE Shell!ParseToken(g[s \ {Greatest(s)}], tokens[Greatest(s)])
  <2>1. CASE n + 1 \in s
    <3>1. Greatest(s) = n + 1 /\ s # {}
      BY <2>1, GreatestIs
    <3>2. g[s] = Shell!ParseToken(f[s \ {n + 1}], tokens[n + 1])
      BY <2>1
    <3>3. s \ {n + 1} \in SUBSET (1..n + 1) /\ n + 1 \notin s \ {n + 1}
      OBVIOUS
    <3>4. g[s \ {n + 1}] = f[s \ {n + 1}]
      BY <3>3
    <3> HIDE DEF g
    <3>5. QED
      BY <3>1, <3>2, <3>4
  <2>2. CASE n + 1 \notin s
    <3>1. s \in SUBSET (1..n)
      BY <1>1, <2>2
    <3>2. PICK t : t = s \ {Greatest(s)}
      OBVIOUS
    <3>3. t \in SUBSET (1..n + 1) /\ n + 1 \notin t
      BY <2>2, <3>2
    <3>4. g[s] = f[s] /\ g[t] = f[t]
      BY <2>2, <3>3
    <3>5. f[s] = IF s = {} THEN Begin ELSE Shell!ParseToken(f[t], tokens[Greatest(s)])
      BY <3>1, <3>2 DEF ParsesUpTo
    <3> HIDE DEF g
    <3>6. QED
      BY <3>2, <3>4, <3>5
  <2>3. QED
    BY <2>1, <2>2
<1>3. g = [s \in SUBSET (1..n + 1) |-> g[s]]
  OBVIOUS
<1> HIDE DEF g
<1>4. g = [s \in SUBSET (1..n + 1) |->
             IF s = {} THEN Begin ELSE Shell!ParseToken(g[s \ {Greatest(s)}], tokens[Greatest(s)])]
  BY <1>2, <1>3
<1>5. QED
  BY <1>4 DEF ParsesUpTo

\* The fold computes what it says.
LEMMA ParsesExists ==
  ASSUME NEW tokens, NEW n \in Nat, DOMAIN tokens = 1..n
  PROVE  \E f : Parses(f, tokens)
<1> DEFINE P == {k \in Nat : \E f : ParsesUpTo(f, k, tokens)}
<1>1. 0 \in P
  <2>1. PICK f : f = [s \in {{}} |-> Begin]
    OBVIOUS
  <2>2. SUBSET (1..0) = {{}}
    OBVIOUS
  <2>3. f = [s \in SUBSET (1..0) |->
               IF s = {} THEN Begin ELSE Shell!ParseToken(f[s \ {Greatest(s)}], tokens[Greatest(s)])]
    BY <2>1, <2>2
  <2>4. QED
    BY <2>3 DEF ParsesUpTo
<1>2. ASSUME NEW k \in Nat, k \in P PROVE k + 1 \in P
  BY <1>2, ParsesOneMore
<1>3. Nat \subseteq P
  <2> HIDE DEF P
  <2>1. QED
    BY <1>1, <1>2, NumbersInduction
<1>4. PICK f : ParsesUpTo(f, n, tokens)
  BY <1>3
<1>5. QED
  BY <1>4 DEF Parses, ParsesUpTo

\* One token more, one step of the parser more.
LEMMA ParsesStep ==
  ASSUME NEW tokens, NEW n \in Nat, DOMAIN tokens = 1..n, NEW f, Parses(f, tokens)
  PROVE  /\ f[1..0] = Begin
         /\ \A k \in Nat : k + 1 <= n => f[1..k + 1] = Shell!ParseToken(f[1..k], tokens[k + 1])
<1>1. f[1..0] = Begin
  <2>1. 1..0 = {} /\ {} \in SUBSET (1..n)
    OBVIOUS
  <2>2. QED
    BY <2>1 DEF Parses
<1>2. ASSUME NEW k \in Nat, k + 1 <= n PROVE f[1..k + 1] = Shell!ParseToken(f[1..k], tokens[k + 1])
  <2>1. 1..k + 1 \in SUBSET (1..n) /\ 1..k + 1 # {} /\ (1..k + 1) \ {k + 1} = 1..k
    <3>1. 1..k + 1 \subseteq 1..n
      BY <1>2
    <3>2. k + 1 \in 1..k + 1
      OBVIOUS
    <3>3. \A i : i \in (1..k + 1) \ {k + 1} <=> i \in 1..k
      OBVIOUS
    <3>4. QED
      BY <3>1, <3>2, <3>3
  <2>2. Greatest(1..k + 1) = k + 1
    BY GreatestIs
  <2>3. PICK s : s = 1..k + 1
    OBVIOUS
  <2>4. f[s] = Shell!ParseToken(f[s \ {Greatest(s)}], tokens[Greatest(s)])
    BY <2>1, <2>3 DEF Parses
  <2>5. QED
    BY <2>1, <2>2, <2>3, <2>4
<1>3. QED
  BY <1>1, <1>2

\* What the parser has made of all tokens.
LEMMA ReadAll ==
  ASSUME NEW W, "|" \in W, NEW T, NEW tokens \in Seq(T), \A tok \in T : IsToken(tok, W)
  PROVE  ReadSoFar(Parsed(tokens), Concat(tokens), W)
<1>1. PICK n \in Nat : n = Len(tokens) /\ DOMAIN tokens = 1..n
  BY LenProperties
<1>2. PICK f : f = (CHOOSE iter : Parses(iter, tokens))
  OBVIOUS
<1>3. Parses(f, tokens)
  BY <1>1, <1>2, ParsesExists
<1>4. \A tok \in T : tok \in Seq(W)
  BY DEF IsToken
<1>5. tokens \in Seq(Seq(W))
  BY <1>4, SeqMonotonic
<1> DEFINE First(k) == SubSeq(tokens, 1, k)
           P == {k \in Nat : k <= n => ReadSoFar(f[1..k], Concat(First(k)), W)}
<1>6. 0 \in P
  <2>2. f[1..0] = Begin
    BY <1>1, <1>3, ParsesStep
  <2>3. First(0) = <<>>
    BY SubSeqEmpty
  <2>4. Concat(<<>>) = <<>>
    BY DEF Concat
  <2>5. ReadSoFar(Begin, <<>>, W)
    BY ReadNothing
  <2> HIDE DEF First
  <2>6. QED
    BY <2>2, <2>3, <2>4, <2>5
<1>7. ASSUME NEW k \in Nat, k \in P PROVE k + 1 \in P
  <2> SUFFICES ASSUME k + 1 <= n PROVE ReadSoFar(f[1..k + 1], Concat(First(k + 1)), W)
    OBVIOUS
  <2>1. PICK t, tok : t = First(k) /\ tok = tokens[k + 1]
    OBVIOUS
  <2>2. tok \in T /\ IsToken(tok, W) /\ tok \in Seq(W)
    BY <1>1, <1>4, <2>1, ElementOfSeq
  <2>3. t \in Seq(Seq(W)) /\ First(k + 1) = Append(t, tok)
    <3>1. \A i \in 1..k : tokens[i] \in Seq(W)
      BY <1>1, <1>5, ElementOfSeq
    <3>2. t \in Seq(Seq(W))
      BY <2>1, <3>1, SubSeqProperties
    <3>3. First(k + 1) = t \o <<tok>>
      BY <1>1, <2>1, SubSeqRecursiveSecond
    <3>4. QED
      BY <2>2, <3>2, <3>3
  <2>4. Concat(First(k + 1)) = Concat(t) \o tok
    BY <2>2, <2>3, ConcatAppend
  <2>5. f[1..k + 1] = Shell!ParseToken(f[1..k], tok)
    BY <1>1, <1>3, <2>1, ParsesStep
  <2>6. ReadSoFar(f[1..k], Concat(t), W)
    BY <1>7, <2>1
  <2>7. QED
    BY <2>2, <2>4, <2>5, <2>6, ReadToken
<1>8. Nat \subseteq P
  <2> HIDE DEF P
  <2>1. QED
    BY <1>6, <1>7, NumbersInduction
<1>9. ReadSoFar(f[1..n], Concat(First(n)), W)
  BY <1>8
<1>10. First(n) = tokens
  BY <1>1, SubSeqFull
<1> HIDE DEF First
<1>11. QED
  BY <1>1, <1>2, <1>9, <1>10 DEF Parsed

\* The commands c are those of s: they are written as s, and each word is an argument.
CommandsOf(c, s) ==
  /\ Shell!Written(c) = IF s = <<>> \/ Shell!Last(s) = Shell!Bar THEN s ELSE Append(s, Shell!Bar)
  /\ \A k \in DOMAIN c : \A j \in DOMAIN c[k] : Len(c[k][j]) = 1 /\ c[k][j] # <<Shell!Bar>>

\* Arguments are one word each.
LEMMA ArgsAreOneWord ==
  ASSUME NEW W, NEW c \in Seq(Seq(Args(W))), NEW k \in DOMAIN c, NEW j \in DOMAIN c[k]
  PROVE  Len(c[k][j]) = 1 /\ c[k][j] # <<"|">>
<1>1. c[k] \in Seq(Args(W))
  OBVIOUS
<1>2. c[k][j] \in Args(W)
  BY <1>1
<1>3. PICK w \in W \ {"|"} : c[k][j] = <<w>>
  BY <1>2 DEF Args
<1>4. QED
  BY <1>3

\* At the end of the line the last command counts if it has arguments.
LEMMA EndOfLine ==
  ASSUME NEW W, "|" \in W, NEW s \in Seq(W), NEW f, NEW l, Has(s, f, l, W)
  PROVE  CommandsOf(IF l = <<>> THEN f ELSE Append(f, l), s)
<1>1. f \in Seq(Seq(Args(W))) /\ l \in Seq(Args(W)) /\ Append(f, l) \in Seq(Seq(Args(W)))
  BY DEF Has
<1>2. f \in Seq(Seq(Seq(W))) /\ l \in Seq(Seq(W)) /\ <<>> \in Seq(Seq(W))
  BY <1>1, ArgsAreWords
<1>3. Len(l) \in Nat /\ Len(s) \in Nat /\ Len(l) <= Len(s)
  BY HasNumbers
<1>4. /\ WrittenAs(f) \in Seq(W) /\ WrittenAs(Append(f, l)) = WrittenAs(f) \o Append(Concat(l), "|")
      /\ Concat(l) \in Seq(W) /\ Concat(<<>>) = <<>>
  BY <1>2, WrittenAppend, ConcatAppend
<1>5. CASE l = <<>>
  <2>1. Len(l) = 0
    BY <1>5
  <2>2. s = WrittenAs(f)
    <3>1. s = WrittenAs(f) \o <<>>
      BY <1>4, <1>5 DEF Has
    <3>2. QED
      BY <1>4, <3>1, ConcatEmptySeq
  <2>3. s = <<>> \/ s[Len(s)] = "|"
    <3>1. CASE Len(s) = 0
      BY <3>1, EmptySeq
    <3>2. CASE Len(s) # 0
      <4>1. Len(l) < Len(s) /\ Len(s) - Len(l) = Len(s)
        BY <1>3, <2>1, <3>2
      <4>2. s[Len(s) - Len(l)] = "|"
        BY <4>1 DEF Has
      <4>3. QED
        BY <4>1, <4>2
    <3>3. QED
      BY <3>1, <3>2
  <2>4. Shell!Written(f) = IF s = <<>> \/ Shell!Last(s) = Shell!Bar THEN s ELSE Append(s, Shell!Bar)
    BY <2>2, <2>3, WrittenIsConcat DEF Shell!Last, Shell!Bar
  <2>5. \A k \in DOMAIN f : \A j \in DOMAIN f[k] : Len(f[k][j]) = 1 /\ f[k][j] # <<Shell!Bar>>
    BY <1>1, ArgsAreOneWord DEF Shell!Bar
  <2>6. QED
    BY <1>5, <2>4, <2>5 DEF CommandsOf
<1>6. CASE l # <<>>
  <2>1. Len(l) # 0 /\ Len(s) # 0 /\ s # <<>>
    <3>1. Len(l) # 0
      BY <1>1, <1>6, EmptySeq
    <3>2. QED
      BY <1>3, <3>1
  <2>2. s[Len(s)] # "|"
    <3>1. Len(s) \in Len(s) - Len(l) + 1..Len(s)
      BY <1>3, <2>1
    <3>2. QED
      BY <3>1 DEF Has
  <2>3. WrittenAs(Append(f, l)) = Append(s, "|")
    <3>1. PICK bar \in Seq(W) : bar = <<"|">> /\ \A r \in Seq(W) : Append(r, "|") = Con(r, bar)
      BY AppendIsCon
    <3>2. s = Con(WrittenAs(f), Concat(l)) /\ WrittenAs(Append(f, l)) = Con(WrittenAs(f), Append(Concat(l), "|"))
      BY <1>4 DEF Con, Has
    <3>3. Con(WrittenAs(f), Con(Concat(l), bar)) = Con(Con(WrittenAs(f), Concat(l)), bar)
      BY <1>4, ConAssociative
    <3>4. QED
      BY <1>4, <3>1, <3>2, <3>3
  <2>4. Shell!Written(Append(f, l)) = IF s = <<>> \/ Shell!Last(s) = Shell!Bar THEN s ELSE Append(s, Shell!Bar)
    BY <2>1, <2>2, <2>3, WrittenIsConcat DEF Shell!Last, Shell!Bar
  <2>5. PICK c \in Seq(Seq(Args(W))) : c = Append(f, l)
    BY <1>1
  <2>6. \A k \in DOMAIN c : \A j \in DOMAIN c[k] : Len(c[k][j]) = 1 /\ c[k][j] # <<Shell!Bar>>
    BY ArgsAreOneWord DEF Shell!Bar
  <2>7. QED
    BY <1>6, <2>4, <2>5, <2>6 DEF CommandsOf
<1>7. QED
  BY <1>5, <1>6

\* No token has more than one bar.
OneBarEach(tokens) ==
  \A k \in DOMAIN tokens : Shell!Cardinality({j \in DOMAIN tokens[k] : tokens[k][j] = Shell!Bar}) <= 1

\* The parser makes commands of every line, or refuses it if it is too long.
LEMMA LineParsed ==
  ASSUME NEW tokens, Shell!IsLine(tokens), OneBarEach(tokens)
  PROVE  /\ Shell!ParseCommandLine(tokens).err # "OK" <=> Shell!TooLong(Shell!FlattenSeq(tokens))
         /\ Shell!ParseCommandLine(tokens).err = "OK"
              => CommandsOf(Shell!ParseCommandLine(tokens).cmds, Shell!FlattenSeq(tokens))
<1>1. PICK T : T = Shell!ToSet(tokens)
  OBVIOUS
<1>2. PICK W : W = {"|"} \cup UNION {Shell!ToSet(tok) : tok \in T}
  OBVIOUS
<1>3. ASSUME NEW tok \in T PROVE IsToken(tok, W)
  <2>1. /\ tok \in Seq(Shell!ToSet(tok)) /\ tok # <<>>
        /\ \A k \in 1..Len(tok) - 1 : "|" \in {tok[k], tok[k + 1]}
    BY <1>1 DEF Shell!IsLine, Shell!Bar
  <2>2. Shell!ToSet(tok) \subseteq W
    BY <1>2
  <2>3. tok \in Seq(W)
    BY <2>1, <2>2, SeqMonotonic
  <2>4. Shell!Cardinality({j \in DOMAIN tok : tok[j] = Shell!Bar}) <= 1
    BY <1>1 DEF OneBarEach, Shell!ToSet
  <2>5. OneBarIn(tok)
    BY <2>3, <2>4, OneBarOnly
  <2>6. QED
    BY <2>1, <2>3, <2>5 DEF IsToken
<1>4. tokens \in Seq(T) /\ "|" \in W
  BY <1>1, <1>2 DEF Shell!IsLine
<1>5. PICK s, st : s = Concat(tokens) /\ st = Parsed(tokens)
  OBVIOUS
<1>6. ReadSoFar(st, s, W) /\ s \in Seq(W) /\ s = Shell!FlattenSeq(tokens)
  BY <1>3, <1>4, <1>5, ReadAll, FlattenIsConcat DEF ReadSoFar
<1>7. Shell!ParseCommandLine(tokens)
        = IF Shell!Last(st.cmds) = <<>> THEN [st EXCEPT !.cmds = Shell!Front(st.cmds)] ELSE st
  BY <1>5, ParsedByFold
<1>8. ASSUME NEW c, NEW e, st = [cmds |-> c, err |-> e], e # "OK", Shell!TooLong(s)
      PROVE  Shell!ParseCommandLine(tokens).err # "OK"
  <2>1. st.err = e /\ [st EXCEPT !.cmds = Shell!Front(st.cmds)].err = e
    BY <1>8
  <2>2. QED
    BY <1>7, <1>8, <2>1
<1>9. ASSUME NEW f, NEW l, st = [cmds |-> Append(f, l), err |-> "OK"], Has(s, f, l, W)
      PROVE  /\ Shell!ParseCommandLine(tokens).err = "OK" /\ ~Shell!TooLong(s)
             /\ CommandsOf(Shell!ParseCommandLine(tokens).cmds, s)
  <2>1. f \in Seq(Seq(Args(W))) /\ l \in Seq(Args(W)) /\ ~Shell!TooLong(s)
    BY <1>9 DEF Has
  <2>2. PICK c : c = Append(f, l)
    OBVIOUS
  <2>3. Shell!Last(c) = l /\ Shell!Front(c) = f
    <3>1. /\ c \in Seq(Seq(Args(W))) /\ Len(c) = Len(f) + 1 /\ Len(f) \in Nat /\ c[Len(f) + 1] = l
          /\ \A k \in 1..Len(f) : c[k] = f[k]
      BY <2>1, <2>2, AppendProperties, LenProperties
    <3>2. Shell!Last(c) = l
      BY <3>1 DEF Shell!Last
    <3>3. SubSeq(c, 1, Len(f)) \in Seq(Seq(Args(W))) /\ Len(SubSeq(c, 1, Len(f))) = Len(f)
          /\ \A k \in 1..Len(f) : SubSeq(c, 1, Len(f))[k] = f[k]
      BY <3>1, SubSeqProperties
    <3>4. SubSeq(c, 1, Len(f)) = f
      BY <2>1, <3>3, SeqEqual
    <3>5. QED
      BY <3>1, <3>2, <3>4 DEF Shell!Front
  <2>4. st.cmds = c /\ st.err = "OK" /\ [st EXCEPT !.cmds = f].err = "OK" /\ [st EXCEPT !.cmds = f].cmds = f
    BY <1>9, <2>2
  <2>5. /\ Shell!ParseCommandLine(tokens).err = "OK"
        /\ Shell!ParseCommandLine(tokens).cmds = IF l = <<>> THEN f ELSE c
    BY <1>7, <2>3, <2>4
  <2>6. CommandsOf(IF l = <<>> THEN f ELSE c, s)
    BY <1>4, <1>6, <1>9, <2>2, EndOfLine
  <2>7. QED
    BY <2>1, <2>5, <2>6
<1>10. QED
  BY <1>6, <1>8, <1>9 DEF ReadSoFar

\* What the line is and what has been made of it.
ShellRead == line \in Lines /\ Shell!CommandsAsWritten

\* Parsing a line.
LEMMA ShellParseReads == ShellRead /\ Shell!S_Parse => ShellRead'
<1> SUFFICES ASSUME line \in Lines, Shell!S_Parse PROVE ShellRead'
  BY DEF ShellRead
<1>1. line' = line /\ line \in Lines /\ Shell!IsLine(line)
  BY LinesAssumption DEF Shell!S_Parse
<1>2. PICK r : r = Shell!ParseCommandLine(line)
  OBVIOUS
<1>3. /\ r.err = "OK" => cmds' = r.cmds /\ spc' \in {"done", "fork"}
      /\ r.err # "OK" => spc' = "refused"
  BY <1>2 DEF Shell!S_Parse
<1>4. ASSUME OneBarEach(line)
      PROVE  /\ spc' = "refused" <=> Shell!TooLong(Shell!FlattenSeq(line))
             /\ spc' # "refused" => CommandsOf(cmds', Shell!FlattenSeq(line))
  BY <1>1, <1>2, <1>3, <1>4, LineParsed
<1>5. Shell!CommandsAsWritten'
  BY <1>1, <1>4 DEF Shell!CommandsAsWritten, OneBarEach, CommandsOf, Shell!Stream
<1>6. QED
  BY <1>1, <1>5 DEF ShellRead

\* What a step that neither reads the line nor makes commands may change.
ReadsNothing == UNCHANGED <<line, cmds>> /\ (spc' = "refused" <=> spc = "refused") /\ (spc' = "parse" <=> spc = "parse")

\* Such a step keeps what has been read.
LEMMA ShellReadStays == ShellRead /\ ReadsNothing => ShellRead'
<1> SUFFICES ASSUME ShellRead, ReadsNothing PROVE ShellRead'
  OBVIOUS
<1>1. Shell!Stream' = Shell!Stream /\ Shell!Written(cmds)' = Shell!Written(cmds)
  BY DEF ReadsNothing, Shell!Stream
<1>2. QED
  BY <1>1 DEF ReadsNothing, ShellRead, Shell!CommandsAsWritten

\* Every other step is one.
LEMMA ShellOthersRead ==
  ASSUME Shell!Next, ~Shell!S_Parse
  PROVE  ReadsNothing
<1>1. CASE Shell!S_Fork \/ Shell!S_ForkError
  BY <1>1 DEF Shell!S_Fork, Shell!S_ForkError, ReadsNothing
<1>2. CASE Shell!S_Close \/ Shell!S_Wait
  BY <1>2 DEF Shell!S_Close, Shell!Next_i, Shell!S_Wait, ReadsNothing
<1>3. ASSUME NEW i \in DOMAIN children, Shell!ChildProc(i) PROVE ReadsNothing
  <2>1. UNCHANGED <<line, spc, cmds>>
    BY <1>3 DEF Shell!ChildProc, Shell!C_Setup, Shell!C_Exec, Shell!C_NoProgram, Shell!X_Write,
                Shell!X_Broken, Shell!X_Read, Shell!X_End, Shell!End
  <2>2. QED
    BY <2>1 DEF ReadsNothing
<1>4. QED
  BY <1>1, <1>2, <1>3 DEF Shell!Next, Shell!ShellProc

ShellRunsRead == program = "shell" => ShellRead

\* The commands that run are those of the line, whatever it is and however long:
\* they make up the line again, and a line is refused only if it is too long.
THEOREM ShellReadsLine == SeminarsSpec => []ShellCommandsAsWritten
<1>1. InitAll => ShellRunsRead
  <2> SUFFICES ASSUME InitAll, program = "shell" PROVE ShellRead
    BY DEF ShellRunsRead
  <2>1. Shell!Init
    BY DEF InitAll, Runs
  <2>2. QED
    BY <2>1 DEF Shell!Init, ShellRead, Shell!CommandsAsWritten
<1>2. ShellRunsRead /\ [NextAll]_all => ShellRunsRead'
  <2> SUFFICES ASSUME ShellRunsRead, [NextAll]_all PROVE ShellRunsRead'
    OBVIOUS
  <2>1. CASE ShellStep
    BY <2>1, ShellParseReads, ShellOthersRead, ShellReadStays DEF ShellStep, ShellRunsRead, Runs
  <2>2. CASE ShmStep \/ MqStep \/ MqRunsStep \/ FifoStep \/ DuplexStep \/ MonteCarloStep
    BY <2>2 DEF ShmStep, MqStep, MqRunsStep, FifoStep, DuplexStep, MonteCarloStep, ShellRunsRead, Runs
  <2>3. CASE UNCHANGED all
    <3>1. ReadsNothing /\ program' = program
      BY <2>3 DEF all, shell, ReadsNothing
    <3>2. QED
      BY <3>1, ShellReadStays DEF ShellRunsRead
  <2>4. QED
    BY <2>1, <2>2, <2>3 DEF NextAll
<1>3. ShellRunsRead => ShellCommandsAsWritten
  BY DEF ShellRunsRead, ShellRead, ShellCommandsAsWritten, Runs
<1>4. QED
  BY <1>1, <1>2, <1>3, PTL DEF SeminarsSpec

-----------------------------------------------------------------------------
(* ShellPipeline never gets stuck.  The parser makes a sequence of commands of *)
(* every line, also of one with two bars in a token.                           *)

IsCommands(c) == \E S : c \in Seq(Seq(S)) /\ c # <<>>

Formed(st) == \E c, e : st = [cmds |-> c, err |-> e] /\ IsCommands(c)

\* The parser begins with one command and only adds to them.
LEMMA FormedBegin == Formed(Begin)
<1>1. << <<>> >> \in Seq(Seq({})) /\ << <<>> >> # <<>>
  OBVIOUS
<1>2. QED
  BY <1>1 DEF Begin, Formed, IsCommands

LEMMA FormedArgument ==
  ASSUME NEW st, Formed(st), NEW arg
  PROVE  Formed(Shell!AddArgument(st, arg))
<1>1. PICK c, e : st = [cmds |-> c, err |-> e] /\ IsCommands(c)
  BY DEF Formed
<1>2. PICK S : c \in Seq(Seq(S)) /\ c # <<>>
  BY <1>1 DEF IsCommands
<1>3. PICK T : T = S \cup {arg}
  OBVIOUS
<1>4. c \in Seq(Seq(T)) /\ Len(c) \in 1..Len(c)
  <2>1. Seq(S) \subseteq Seq(T)
    BY <1>3, SeqMonotonic
  <2>2. c \in Seq(Seq(T))
    BY <1>2, <2>1, SeqMonotonic
  <2>3. QED
    BY <1>2, <2>2, EmptySeq, LenProperties
<1>5. Append(c[Len(c)], arg) \in Seq(T)
  BY <1>3, <1>4, ElementOfSeq, AppendProperties
<1>6. PICK d : d = [c EXCEPT ![Len(c)] = Append(@, arg)]
  OBVIOUS
<1>7. d \in Seq(Seq(T)) /\ Len(d) = Len(c)
  BY ONLY <1>4, <1>5, <1>6, SequenceExcept
<1>8. IsCommands(d)
  BY <1>4, <1>7, EmptySeq DEF IsCommands
<1>9. [st EXCEPT !.cmds[Len(st.cmds)] = Append(@, arg)] = [cmds |-> d, err |-> e]
  <2>1. st.cmds = c /\ [st EXCEPT !.cmds = d] = [cmds |-> d, err |-> e]
    BY <1>1
  <2>2. [st.cmds EXCEPT ![Len(st.cmds)] = Append(@, arg)] = d
    BY <2>1, <1>6, Zenon
  <2>3. [st EXCEPT !.cmds[Len(st.cmds)] = Append(@, arg)] = [st EXCEPT !.cmds = d]
    BY <2>2, Zenon
  <2>4. QED
    BY <2>1, <2>3
<1>10. [st EXCEPT !.err = "TOO_MANY_ARGS"] = [cmds |-> c, err |-> "TOO_MANY_ARGS"]
  BY <1>1
<1>11. Shell!AddArgument(st, arg) \in {st, [cmds |-> d, err |-> e], [cmds |-> c, err |-> "TOO_MANY_ARGS"]}
  <2>1. Shell!AddArgument(st, arg) \in
          {st, [st EXCEPT !.cmds[Len(st.cmds)] = Append(@, arg)], [st EXCEPT !.err = "TOO_MANY_ARGS"]}
    BY ZenonT(30) DEF Shell!AddArgument
  <2>2. QED
    BY <2>1, <1>9, <1>10
<1>12. QED
  BY <1>1, <1>8, <1>11 DEF Formed

LEMMA FormedCommand ==
  ASSUME NEW st, Formed(st)
  PROVE  Formed(Shell!InitCommand(st))
<1>1. PICK c, e : st = [cmds |-> c, err |-> e] /\ IsCommands(c)
  BY DEF Formed
<1>2. PICK S : c \in Seq(Seq(S)) /\ c # <<>>
  BY <1>1 DEF IsCommands
<1>3. <<>> \in Seq(S)
  BY EmptySeq
<1>4. PICK d : d = Append(c, <<>>)
  OBVIOUS
<1>5. IsCommands(d)
  BY <1>2, <1>3, <1>4, AppendProperties DEF IsCommands
<1>6. [st EXCEPT !.cmds = Append(@, <<>>)] = [cmds |-> d, err |-> e]
  BY <1>1, <1>4
<1>7. [st EXCEPT !.err = "TOO_MANY_COMMANDS"] = [cmds |-> c, err |-> "TOO_MANY_COMMANDS"]
  BY <1>1
<1>8. Shell!InitCommand(st) \in {st, [cmds |-> d, err |-> e], [cmds |-> c, err |-> "TOO_MANY_COMMANDS"]}
  BY <1>6, <1>7 DEF Shell!InitCommand
<1>9. QED
  BY <1>1, <1>5, <1>8 DEF Formed

LEMMA FormedToken ==
  ASSUME NEW st, Formed(st), NEW tok
  PROVE  Formed(Shell!ParseToken(st, tok))
<1>1. \A u, part : Formed(u) => Formed(Shell!AddPart(u, part))
  BY FormedArgument DEF Shell!AddPart
<1>2. PICK u, before, after :
        u = Shell!AddPart(st, before) /\ Shell!ParseToken(st, tok) \in
          {Shell!AddPart(Shell!InitCommand(u), after), Shell!AddArgument(st, tok)}
  BY DEF Shell!ParseToken
<1>3. QED
  BY <1>1, <1>2, FormedArgument, FormedCommand

\* So every line becomes a sequence of commands, which may be empty.
LEMMA ParsedCommands ==
  ASSUME NEW tokens, Shell!IsLine(tokens)
  PROVE  /\ Len(Shell!ParseCommandLine(tokens).cmds) \in Nat
         /\ Shell!ParseCommandLine(tokens).cmds # <<>> => Len(Shell!ParseCommandLine(tokens).cmds) > 0
<1>1. PICK n \in Nat : n = Len(tokens) /\ DOMAIN tokens = 1..n
  BY LenProperties DEF Shell!IsLine
<1>2. PICK f : f = (CHOOSE iter : Parses(iter, tokens))
  OBVIOUS
<1>3. Parses(f, tokens)
  BY <1>1, <1>2, ParsesExists
<1> DEFINE P == {k \in Nat : k <= n => Formed(f[1..k])}
<1>4. 0 \in P
  BY <1>1, <1>3, ParsesStep, FormedBegin
<1>5. ASSUME NEW k \in Nat, k \in P PROVE k + 1 \in P
  <2> SUFFICES ASSUME k + 1 <= n PROVE Formed(f[1..k + 1])
    OBVIOUS
  <2>1. Formed(f[1..k])
    BY <1>5
  <2>2. QED
    BY <1>1, <1>3, <2>1, ParsesStep, FormedToken
<1>6. Nat \subseteq P
  <2> HIDE DEF P
  <2>1. QED
    BY <1>4, <1>5, NumbersInduction
<1>7. Formed(Parsed(tokens))
  BY <1>1, <1>2, <1>6 DEF Parsed
<1>8. PICK c, e : Parsed(tokens) = [cmds |-> c, err |-> e] /\ IsCommands(c)
  BY <1>7 DEF Formed
<1>9. PICK S : c \in Seq(Seq(S)) /\ c # <<>>
  BY <1>8 DEF IsCommands
<1>10. Shell!Front(c) \in Seq(Seq(S))
  <2>1. Len(c) - 1 \in Int /\ \A i \in 1..Len(c) - 1 : c[i] \in Seq(S)
    BY <1>9, LenProperties, ElementOfSeq
  <2>2. QED
    BY <2>1, SubSeqProperties DEF Shell!Front
<1>11. Shell!ParseCommandLine(tokens).cmds \in {c, Shell!Front(c)}
  <2>1. [Parsed(tokens) EXCEPT !.cmds = Shell!Front(@)].cmds = Shell!Front(c) /\ Parsed(tokens).cmds = c
    BY <1>8
  <2>2. QED
    BY <2>1, ParsedByFold
<1>12. Shell!ParseCommandLine(tokens).cmds \in Seq(Seq(S))
  BY <1>9, <1>10, <1>11
<1>13. QED
  BY <1>12, EmptySeq, LenProperties

\* A command is forked only while one is left, and the shell waits only while a
\* status is missing.
ShellCommands ==
  /\ line \in Lines /\ Len(cmds) \in Nat /\ Len(children) <= Len(cmds)
  /\ spc = "fork"    => Len(children) < Len(cmds)
  /\ spc = "refused" => Len(children) = 0
  /\ spc = "failed"  => open[0] = {}
  /\ spc = "wait"    => Len(printed) < Len(children)

\* A child that has ended has no pipe end open; one that was reaped is printed.
ShellEnded ==
  \A i \in 1..Len(children) :
    /\ children[i].at \in {"zombie", "reaped"} => open[i] = {}
    /\ children[i].at = "reaped" => \E j \in 1..Len(printed) : printed[j] = i

\* A pipe and a child for every command that has been forked.
ShellContents ==
  /\ held \in Seq(Nat) /\ Len(held) = Len(children)
  /\ content \in Seq(Nat) /\ Len(content) = Len(children)

ShellMore == ShellCommands /\ ShellEnded /\ ShellContents

\* So it is before the line is parsed.
LEMMA ShellMoreInit == Shell!Init => ShellMore
  BY EmptySeq DEF Shell!Init, Shell!Shell, ShellMore, ShellCommands, ShellEnded, ShellContents

\* What the parser returns is not empty if the shell goes on.
LEMMA ShellParseMore == ShellInv /\ ShellMore /\ Shell!S_Parse => ShellMore'
<1> SUFFICES ASSUME ShellInv, ShellMore, Shell!S_Parse PROVE ShellMore'
  OBVIOUS
<1>1. /\ Len(children) = 0 /\ line \in Lines /\ Len(cmds) \in Nat
      /\ UNCHANGED <<line, children, open, content, held, printed>>
  BY DEF Shell!S_Parse, ShellMore, ShellCommands, ShellInv, ShellOwnEnds
<1>2. PICK r : r = Shell!ParseCommandLine(line)
  OBVIOUS
<1>3. Len(r.cmds) \in Nat /\ (r.cmds # <<>> => Len(r.cmds) > 0)
  BY <1>1, <1>2, LinesAssumption, ParsedCommands
<1>4. \/ cmds' = r.cmds /\ spc' = IF r.cmds = <<>> THEN "done" ELSE "fork"
      \/ spc' = "refused" /\ cmds' = cmds
  BY <1>2 DEF Shell!S_Parse
<1>5. ShellCommands'
  BY <1>1, <1>3, <1>4 DEF ShellCommands
<1>6. ShellEnded' /\ ShellContents'
  BY <1>1 DEF ShellMore, ShellEnded, ShellContents
<1>7. QED
  BY <1>5, <1>6 DEF ShellMore

\* fork() adds a child that runs, and an empty pipe.
LEMMA ShellForkMore == ShellInv /\ ShellMore /\ Shell!S_Fork => ShellMore'
<1> SUFFICES ASSUME ShellInv, ShellMore, Shell!S_Fork PROVE ShellMore'
  OBVIOUS
<1> DEFINE n == Len(children)
           child == [at |-> "setup", code |-> 0]
<1>1. /\ spc = "fork" /\ spc' = "close" /\ UNCHANGED <<line, cmds, printed>>
      /\ children' = Append(children, child) /\ content' = Append(content, 0) /\ held' = Append(held, 0)
  BY DEF Shell!S_Fork
<1>2. \A k \in 1..n : open'[k] = open[k]
  BY DEF Shell!S_Fork, Shell!Forked, Shell!Shell, ShellInv, ShellTyped
<1>3. /\ n \in Nat /\ Len(children') = n + 1
      /\ \A k \in 1..n + 1 : children'[k] = IF k <= n THEN children[k] ELSE child
  <2>1. child \in ChildRecords /\ children \in Seq(ChildRecords)
    BY DEF ChildRecords, ShellInv, ShellTyped
  <2>2. QED
    BY ONLY <1>1, <2>1, SequenceSteps
<1>4. ShellCommands'
  BY <1>1, <1>3 DEF ShellMore, ShellCommands
<1>5. ShellEnded'
  <2> SUFFICES ASSUME NEW k \in 1..n + 1
               PROVE  /\ children'[k].at \in {"zombie", "reaped"} => open'[k] = {}
                      /\ children'[k].at = "reaped" => \E j \in 1..Len(printed) : printed[j] = k
    BY <1>1, <1>3 DEF ShellEnded
  <2>1. CASE k <= n
    BY <1>2, <1>3, <2>1 DEF ShellMore, ShellEnded
  <2>2. CASE k > n
    <3>1. children'[k].at = "setup"
      BY <1>3, <2>2
    <3>2. QED
      BY <3>1
  <2>3. QED
    BY <1>3, <2>1, <2>2
<1>6. ShellContents'
  BY <1>1, <1>3, SequenceSteps DEF ShellMore, ShellContents
<1>7. QED
  BY <1>4, <1>5, <1>6 DEF ShellMore

\* The ends that the shell closes are its own.
LEMMA ShellCloseMore == ShellInv /\ ShellMore /\ (Shell!S_Close \/ Shell!S_ForkError) => ShellMore'
<1> SUFFICES ASSUME ShellInv, ShellMore, Shell!S_Close \/ Shell!S_ForkError PROVE ShellMore'
  OBVIOUS
<1>1. UNCHANGED <<line, cmds, children, content, held, printed>>
  BY DEF Shell!S_Close, Shell!S_ForkError
<1>2. \/ spc = "close" /\ spc' = IF Len(children) = Len(cmds) THEN "wait" ELSE "fork"
      \/ spc' = "failed" /\ open' = [open EXCEPT ![0] = {}]
  BY DEF Shell!S_Close, Shell!S_ForkError, Shell!Next_i, Shell!Forked, Shell!cmd_count, Shell!Shell
<1>3. PICK S : open' = [open EXCEPT ![0] = S] /\ (spc' = "failed" => S = {})
  <2>1. CASE Shell!S_Close
    <3>1. \E S : open' = [open EXCEPT ![0] = S]
      BY <2>1 DEF Shell!S_Close, Shell!Shell
    <3>2. spc' # "failed"
      BY <2>1 DEF Shell!S_Close, Shell!Next_i
    <3>3. QED
      BY <3>1, <3>2
  <2>2. CASE Shell!S_ForkError
    BY <2>2 DEF Shell!S_ForkError, Shell!Shell
  <2>3. QED
    BY <2>1, <2>2
<1>4. open'[0] = S /\ \A k \in 1..Len(children) : open'[k] = open[k]
  BY <1>3, OwnEndsChange DEF ShellInv
<1>5. spc = "close" => Len(children) >= 1 /\ Len(printed) = 0
  BY DEF ShellInv, ShellOwnEnds, ShellReaped
<1>6. Len(children) \in Nat
  BY DEF ShellInv, ShellTyped
<1>7. ShellCommands'
  BY <1>1, <1>2, <1>3, <1>4, <1>5, <1>6 DEF ShellMore, ShellCommands
<1>8. ShellEnded' /\ ShellContents'
  BY <1>1, <1>4 DEF ShellMore, ShellEnded, ShellContents
<1>9. QED
  BY <1>7, <1>8 DEF ShellMore

\* The child that wait() takes is the one whose status is printed.
LEMMA ShellWaitMore == ShellInv /\ ShellMore /\ Shell!S_Wait => ShellMore'
<1> SUFFICES ASSUME ShellInv, ShellMore, Shell!S_Wait PROVE ShellMore'
  OBVIOUS
<1> DEFINE n == Len(children)
           m == Len(printed)
<1>1. /\ spc = "wait" /\ spc' = (IF m + 1 = Len(cmds) THEN "done" ELSE "wait")
      /\ UNCHANGED <<line, cmds, content, held>>
  BY DEF Shell!S_Wait, Shell!cmd_count
<1>2. PICK i \in DOMAIN children :
        /\ children[i].at = "zombie" /\ children' = [children EXCEPT ![i].at = "reaped"]
        /\ printed' = Append(printed, i)
  BY DEF Shell!S_Wait
<1>3. /\ n \in Nat /\ n = Len(cmds) /\ m \in Nat /\ m < n /\ i \in 1..n
      /\ children \in Seq(ChildRecords) /\ printed \in Seq(1..n)
  BY <1>1, <1>2 DEF ShellInv, ShellTyped, ShellOwnEnds, ShellMore, ShellCommands
<1>4. Len(children') = n /\ \A k \in 1..n : k # i => children'[k] = children[k]
  BY <1>2, <1>3
<1>5. Len(printed') = m + 1 /\ \A j \in 1..m + 1 : printed'[j] = IF j <= m THEN printed[j] ELSE i
  BY <1>2, <1>3, SequenceSteps
<1>6. \A k \in 1..n : open'[k] = open[k]
  <2>1. \E S : open' = [open EXCEPT ![0] = S]
    BY DEF Shell!S_Wait, Shell!Shell
  <2>2. QED
    BY <2>1, OwnEndsChange DEF ShellInv
<1>7. ShellCommands'
  BY <1>1, <1>3, <1>4, <1>5 DEF ShellMore, ShellCommands
<1>8. ShellEnded'
  <2> SUFFICES ASSUME NEW k \in 1..n
               PROVE  /\ children'[k].at \in {"zombie", "reaped"} => open'[k] = {}
                      /\ children'[k].at = "reaped" => \E j \in 1..m + 1 : printed'[j] = k
    BY <1>4, <1>5 DEF ShellEnded
  <2>1. CASE k = i
    <3>1. open[i] = {}
      BY <1>2, <1>3 DEF ShellMore, ShellEnded
    <3>2. m + 1 \in 1..m + 1 /\ printed'[m + 1] = i
      BY <1>3, <1>5
    <3>3. QED
      BY <1>6, <2>1, <3>1, <3>2
  <2>2. CASE k # i
    <3>1. children'[k] = children[k] /\ open'[k] = open[k]
      BY <1>4, <1>6, <2>2
    <3>2. ASSUME children[k].at = "reaped" PROVE \E j \in 1..m + 1 : printed'[j] = k
      <4>1. PICK j \in 1..m : printed[j] = k
        BY <3>2 DEF ShellMore, ShellEnded
      <4>2. j \in 1..m + 1 /\ printed'[j] = k
        BY <1>3, <1>5, <4>1
      <4>3. QED
        BY <4>2
    <3>3. QED
      BY <3>1, <3>2 DEF ShellMore, ShellEnded
  <2>3. QED
    BY <2>1, <2>2
<1>9. ShellContents'
  BY <1>1, <1>4 DEF ShellMore, ShellContents
<1>10. QED
  BY <1>7, <1>8, <1>9 DEF ShellMore

\* A child moves blocks, or changes its own state; its ends are closed when it ends.
LEMMA ShellChildMore ==
  ASSUME ShellInv, ShellMore, NEW i \in DOMAIN children, Shell!ChildProc(i)
  PROVE  ShellMore'
<1>1. /\ i \in 1..Len(children) /\ Len(children) \in Nat /\ children \in Seq(ChildRecords)
      /\ open = [p \in 0..Len(children) |-> open[p]] /\ printed \in Seq(1..Len(children))
  BY DEF ShellInv, ShellTyped
<1>2. UNCHANGED <<line, cmds, spc, printed>>
  BY ShellChildSteps
<1>3. /\ Len(children') = Len(children) /\ open'[0] = open[0]
      /\ \A k \in 1..Len(children) :
           \/ children'[k] = children[k] /\ open'[k] = open[k]
           \/ children'[k].at \in {"exec", "run"}
           \/ children'[k].at = "zombie" /\ open'[k] = {}
  <2>1. CASE UNCHANGED <<children, open>>
    BY <2>1
  <2>2. CASE ~UNCHANGED <<children, open>>
    <3>1. PICK x \in ChildRecords, S \in SUBSET open[i] :
            /\ children[i].at \in {"setup", "exec", "run"} /\ x.at \in {"exec", "run", "zombie"}
            /\ x.at = "zombie" => S = {}
            /\ children' = [children EXCEPT ![i] = x] /\ open' = [open EXCEPT ![i] = S]
            /\ i # Len(cmds) => <<i, "r">> \notin S
      BY ZenonT(30), <2>2, ShellChildSteps
    <3>2. /\ Len(children') = Len(children)
          /\ \A k \in 1..Len(children) : children'[k] = IF k = i THEN x ELSE children[k]
      BY ONLY <1>1, <3>1, SequenceExcept
    <3>3. \A p \in 0..Len(children) : open'[p] = IF p = i THEN S ELSE open[p]
      BY <1>1, <3>1
    <3>4. open'[0] = open[0]
      BY <1>1, <3>3
    <3>5. QED
      BY <1>1, <3>1, <3>2, <3>3, <3>4
  <2>3. QED
    BY <2>1, <2>2
<1>4. ShellCommands'
  BY <1>2, <1>3 DEF ShellMore, ShellCommands
<1>5. ShellEnded'
  <2> SUFFICES ASSUME NEW k \in 1..Len(children)
               PROVE  /\ children'[k].at \in {"zombie", "reaped"} => open'[k] = {}
                      /\ children'[k].at = "reaped" => \E j \in 1..Len(printed) : printed[j] = k
    BY <1>2, <1>3 DEF ShellEnded
  <2>1. CASE children'[k] = children[k] /\ open'[k] = open[k]
    BY <2>1 DEF ShellMore, ShellEnded
  <2>2. CASE children'[k].at \in {"exec", "run"}
    BY <2>2
  <2>3. CASE children'[k].at = "zombie" /\ open'[k] = {}
    BY <2>3
  <2>4. QED
    BY ONLY <1>3, <2>1, <2>2, <2>3
<1>6. held' \in Seq(Nat) /\ Len(held') = Len(held) /\ content' \in Seq(Nat) /\ Len(content') = Len(content)
  <2> USE DEF ShellMore, ShellContents
  <2>1. CASE UNCHANGED <<held, content>>
    BY <2>1
  <2>2. CASE Shell!C_Exec(i)
    <3>1. PICK b \in Nat : held' = [held EXCEPT ![i] = b] /\ content' = content
      BY <2>2, SeminarsAssumption DEF Shell!C_Exec
    <3>2. QED
      BY <1>1, <3>1, SequenceExcept
  <2>3. CASE Shell!X_Write(i)
    <3>1. held[i] \in Nat /\ held[i] > 0 /\ held[i] - 1 \in Nat /\ content[i] \in Nat /\ content[i] + 1 \in Nat
      BY <1>1, <2>3 DEF Shell!X_Write
    <3>2. PICK h \in Nat, c \in Nat :
            /\ held' = [held EXCEPT ![i] = h]
            /\ content' = content \/ content' = [content EXCEPT ![i] = c]
      BY <2>3, <3>1 DEF Shell!X_Write
    <3>3. /\ i \in 1..Len(held) /\ i \in 1..Len(content)
          /\ held \in Seq(Nat) /\ content \in Seq(Nat)
      BY <1>1
    <3>4. held' \in Seq(Nat) /\ Len(held') = Len(held)
      BY ONLY <3>2, <3>3, SequenceExcept
    <3>5. content' \in Seq(Nat) /\ Len(content') = Len(content)
      <4>1. [content EXCEPT ![i] = c] \in Seq(Nat) /\ Len([content EXCEPT ![i] = c]) = Len(content)
        BY ONLY <3>3, c \in Nat, SequenceExcept
      <4>2. QED
        BY <3>2, <3>3, <4>1
    <3>6. QED
      BY <3>4, <3>5
  <2>4. CASE Shell!X_Read(i)
    <3>1. i - 1 \in 1..Len(content) /\ content[i - 1] \in Nat /\ content[i - 1] - 1 \in Nat
      BY <1>1, <2>4 DEF Shell!X_Read
    <3>2. /\ held' = [held EXCEPT ![i] = 1]
          /\ content' = [content EXCEPT ![i - 1] = content[i - 1] - 1]
      BY <2>4 DEF Shell!X_Read
    <3>3. QED
      BY <1>1, <3>1, <3>2, SequenceExcept
  <2>5. QED
    BY <2>1, <2>2, <2>3, <2>4
       DEF Shell!ChildProc, Shell!C_Setup, Shell!C_NoProgram, Shell!X_Broken, Shell!X_End, Shell!End
<1>7. ShellContents'
  BY <1>3, <1>6 DEF ShellMore, ShellContents
<1>8. QED
  BY <1>4, <1>5, <1>7 DEF ShellMore

ShellRunsMore == program = "shell" => ShellInv /\ ShellMore

\* So it is in every state of the shell.
LEMMA ShellMoreInvariance == SeminarsSpec => []ShellRunsMore
<1>1. InitAll /\ ShellRuns => ShellRunsMore
  BY ShellMoreInit DEF InitAll, Runs, ShellRuns, ShellRunsMore
<1>2. ShellRunsMore /\ ShellRuns' /\ [NextAll]_all => ShellRunsMore'
  <2> SUFFICES ASSUME ShellRunsMore, ShellRuns', [NextAll]_all, program' = "shell" PROVE ShellMore'
    BY DEF ShellRuns, ShellRunsMore
  <2>1. CASE ShellStep
    <3>1. ShellInv /\ ShellMore /\ Shell!Next
      BY <2>1 DEF ShellStep, ShellRunsMore, Runs
    <3>2. QED
      BY <3>1, ShellParseMore, ShellForkMore, ShellCloseMore, ShellWaitMore, ShellChildMore
         DEF Shell!Next, Shell!ShellProc
  <2>2. CASE ShmStep \/ MqStep \/ MqRunsStep \/ FifoStep \/ DuplexStep \/ MonteCarloStep
    BY <2>2 DEF ShmStep, MqStep, MqRunsStep, FifoStep, DuplexStep, MonteCarloStep, Runs
  <2>3. CASE UNCHANGED all
    BY <2>3 DEF all, shell, ShellRunsMore, ShellMore, ShellCommands, ShellEnded, ShellContents
  <2>4. QED
    BY <2>1, <2>2, <2>3 DEF NextAll
<1>3. QED
  BY <1>1, <1>2, ShellInvariance, PTL DEF SeminarsSpec

\* What moves a child: each is the guard of one of its actions.
ShellChildMoves(i) ==
  \/ children[i].at \in {"setup", "exec"}
  \/ /\ children[i].at = "run" /\ held[i] > 0
     /\ \/ i = Len(cmds) \/ content[i] < Capacity
        \/ \A p \in DOMAIN open : <<i, "r">> \notin open[p]
  \/ /\ children[i].at = "run" /\ held[i] = 0
     /\ \/ Shell!Program(i) \in {<<"cat">>, <<"head">>} /\ i > 1 /\ content[i - 1] > 0
        \/ Shell!Program(i) = <<"cat">> => Shell!NoMore(i)

ShellItselfMoves ==
  \/ spc \in {"parse", "fork", "close"}
  \/ spc = "wait" /\ \E i \in DOMAIN children : children[i].at = "zombie"

\* No two commands wait for one another, none waits for the shell, and the shell for
\* none that waits: a chain of writers at full pipes ends at one that can go on, and
\* so does a chain of readers at empty ones.
ShellNoDeadlock ==
  Runs("shell") => ShellItselfMoves \/ (\E i \in DOMAIN children : ShellChildMoves(i)) \/ Shell!Ended

\* Nothing moves.
Stuck == ShellInv /\ ShellMore /\ ~ShellItselfMoves /\ \A i \in DOMAIN children : ~ShellChildMoves(i)

\* Then the shell waits or has ended, and a child either runs or has ended.
LEMMA StuckStates ==
  ASSUME Stuck
  PROVE  /\ Len(children) \in Nat /\ DOMAIN children = 1..Len(children) /\ Len(children) <= Len(cmds)
         /\ Len(cmds) \in Nat /\ DOMAIN open = 0..Len(children)
         /\ spc \in {"wait", "done", "refused", "failed"}
         /\ \A i \in 1..Len(children) :
              /\ held[i] \in Nat /\ content[i] \in Nat
              /\ children[i].at \in {"run", "zombie", "reaped"}
              /\ open[i] # {} => children[i].at = "run"
              /\ \A k \in Nat : <<k, "r">> \in open[i] => k = i - 1 \/ (k = i /\ i = Len(cmds))
              /\ \A k \in Nat : <<k, "w">> \in open[i] => k = i
<1>1. /\ Len(children) \in Nat /\ DOMAIN children = 1..Len(children)
      /\ DOMAIN open = 0..Len(children) /\ children \in Seq(ChildRecords)
  BY DEF Stuck, ShellInv, ShellTyped
<1>2. /\ Len(cmds) \in Nat /\ Len(children) <= Len(cmds)
      /\ spc \in {"wait", "done", "refused", "failed"}
  BY DEF Stuck, ShellMore, ShellCommands, ShellItselfMoves, ShellInv, ShellTyped
<1>3. ASSUME NEW i \in 1..Len(children)
      PROVE  /\ held[i] \in Nat /\ content[i] \in Nat
             /\ children[i].at \in {"run", "zombie", "reaped"}
             /\ open[i] # {} => children[i].at = "run"
             /\ open[i] \subseteq {<<i - 1, "r">>, <<i, "r">>, <<i, "w">>}
             /\ i # Len(cmds) => <<i, "r">> \notin open[i]
  <2>1. held[i] \in Nat /\ content[i] \in Nat
    BY DEF Stuck, ShellMore, ShellContents
  <2>2. children[i].at \in {"run", "zombie", "reaped"}
    <3>1. i \in DOMAIN children /\ children[i] \in ChildRecords
      BY <1>1
    <3>2. children[i].at \in {"setup", "exec", "run", "zombie", "reaped"}
      BY <3>1 DEF ChildRecords
    <3>3. children[i].at \notin {"setup", "exec"}
      BY <3>1 DEF Stuck, ShellChildMoves
    <3>4. QED
      BY <3>2, <3>3
  <2>3. open[i] # {} => children[i].at = "run"
    BY <2>2 DEF Stuck, ShellMore, ShellEnded
  <2>4. /\ open[i] \subseteq {<<i - 1, "r">>, <<i, "r">>, <<i, "w">>}
        /\ i # Len(cmds) => <<i, "r">> \notin open[i]
    BY <2>2 DEF Stuck, ShellInv, ShellChildEnds
  <2>5. QED
    BY <2>1, <2>2, <2>3, <2>4
<1>4. ASSUME NEW i \in 1..Len(children), NEW k \in Nat
      PROVE  /\ <<k, "r">> \in open[i] => k = i - 1 \/ (k = i /\ i = Len(cmds))
             /\ <<k, "w">> \in open[i] => k = i
  BY <1>3
<1>5. QED
  BY <1>1, <1>2, <1>3, <1>4

\* The shell has no end of a pipe between two commands open.
LEMMA StuckOwnEnds ==
  ASSUME Stuck, NEW k \in Nat, Len(children) # 0, k < Len(cmds), spc \in {"wait", "failed"}
  PROVE  <<k, "r">> \notin open[0] /\ <<k, "w">> \notin open[0]
<1>1. CASE spc = "wait"
  BY <1>1, StuckStates DEF Stuck, ShellInv, ShellOwnEnds
<1>2. CASE spc = "failed"
  BY <1>2 DEF Stuck, ShellMore, ShellCommands
<1>3. QED
  BY <1>1, <1>2

Waits(i) == i \in 1..Len(children) /\ children[i].at = "run"
\* A child waits at a full pipe, or at an empty one.
WaitsToWrite(i) == Waits(i) /\ held[i] # 0
WaitsToRead(i)  == Waits(i) /\ held[i] = 0

\* The reader of a full pipe waits at a full pipe itself.
LEMMA NextWaitsToWrite ==
  ASSUME Stuck, spc \in {"wait", "failed"}, NEW i, WaitsToWrite(i)
  PROVE  WaitsToWrite(i + 1)
<1>1. i \in 1..Len(children) /\ i \in DOMAIN children /\ held[i] \in Nat /\ held[i] > 0 /\ content[i] \in Nat
  BY StuckStates DEF WaitsToWrite, Waits
<1>2. i # Len(cmds) /\ ~(content[i] < Capacity) /\ \E p \in DOMAIN open : <<i, "r">> \in open[p]
  BY <1>1 DEF Stuck, ShellChildMoves, WaitsToWrite, Waits
<1>3. PICK p \in 0..Len(children) : <<i, "r">> \in open[p]
  BY <1>2, StuckStates
<1>4. Len(children) \in Nat /\ Len(cmds) \in Nat /\ Len(children) <= Len(cmds) /\ Len(children) # 0 /\ i < Len(cmds)
  BY <1>1, <1>2, StuckStates
<1>5. p # 0
  <2>1. i \in Nat
    BY <1>1, <1>4
  <2>2. <<i, "r">> \notin open[0]
    BY <1>4, <2>1, StuckOwnEnds
  <2>3. QED
    BY <1>3, <2>2
<1>6. p = i + 1
  <2>1. p \in 1..Len(children) /\ i \in Nat
    BY <1>1, <1>3, <1>4, <1>5
  <2>2. i = p - 1 \/ (i = p /\ p = Len(cmds))
    BY <1>3, <2>1, StuckStates
  <2>3. QED
    BY <1>2, <2>1, <2>2
<1>7. Waits(i + 1) /\ held[i + 1] \in Nat /\ i + 1 \in DOMAIN children
  <2>1. p \in 1..Len(children)
    BY <1>3, <1>4, <1>5
  <2>2. QED
    BY <1>3, <1>6, <2>1, StuckStates DEF Waits
<1>8. held[i + 1] # 0
  <2> SUFFICES ASSUME held[i + 1] = 0 PROVE FALSE
    OBVIOUS
  <2>1. (i + 1) - 1 = i /\ i + 1 > 1 /\ content[i] > 0
    <3>1. Capacity \in Nat /\ Capacity > 0 /\ i \in Nat /\ i >= 1
      <4>1. Capacity \in Nat \ {0}
        BY SeminarsAssumption
      <4>2. QED
        BY ONLY <1>1, <1>4, <4>1
    <3>2. PICK c : c = content[i] /\ c \in Nat /\ ~(c < Capacity)
      BY <1>1, <1>2, Zenon
    <3>3. c > 0
      BY ONLY <3>1, <3>2
    <3>4. (i + 1) - 1 = i /\ i + 1 > 1
      BY ONLY <3>1
    <3>5. QED
      BY <3>2, <3>3, <3>4
  <2>2. Shell!Program(i + 1) \notin {<<"cat">>, <<"head">>} \/ ~(content[i] > 0)
    BY <1>7, <2>1 DEF Stuck, ShellChildMoves, Waits
  <2>3. Shell!Program(i + 1) = <<"cat">>
    BY <1>7 DEF Stuck, ShellChildMoves, Waits
  <2>4. QED
    BY <2>1, <2>2, <2>3
<1>9. QED
  BY <1>7, <1>8 DEF WaitsToWrite

\* No child waits at a full pipe: the last that does would have one behind it.
LEMMA NoneWaitsToWrite ==
  ASSUME Stuck, spc \in {"wait", "failed"}, NEW i
  PROVE  ~WaitsToWrite(i)
<1> DEFINE P == {k \in Nat : \A j \in 1..Len(children) : k + j >= Len(children) => ~WaitsToWrite(j)}
<1>1. Len(children) \in Nat
  BY StuckStates
<1>2. 0 \in P
  <2> SUFFICES ASSUME NEW j \in 1..Len(children), j >= Len(children), WaitsToWrite(j) PROVE FALSE
    BY <1>1
  <2>1. WaitsToWrite(j + 1)
    BY NextWaitsToWrite
  <2>2. QED
    BY <1>1, <2>1 DEF WaitsToWrite, Waits
<1>3. ASSUME NEW k \in Nat, k \in P PROVE k + 1 \in P
  <2> SUFFICES ASSUME NEW j \in 1..Len(children), k + 1 + j >= Len(children), WaitsToWrite(j) PROVE FALSE
    OBVIOUS
  <2>1. WaitsToWrite(j + 1)
    BY NextWaitsToWrite
  <2>2. j + 1 \in 1..Len(children) /\ k + (j + 1) >= Len(children)
    BY <1>1, <2>1 DEF WaitsToWrite, Waits
  <2>3. QED
    BY <1>3, <2>1, <2>2
<1>4. Nat \subseteq P
  <2> HIDE DEF P
  <2>1. QED
    BY <1>2, <1>3, NumbersInduction
<1>5. Len(children) \in P
  BY <1>1, <1>4
<1>6. \A j \in 1..Len(children) : ~WaitsToWrite(j)
  BY <1>1, <1>5
<1>7. QED
  BY <1>6 DEF WaitsToWrite, Waits

\* The writer of an empty pipe waits at an empty pipe itself.
LEMMA LastWaitsToRead ==
  ASSUME Stuck, spc \in {"wait", "failed"}, NEW i, WaitsToRead(i)
  PROVE  WaitsToRead(i - 1)
<1>1. /\ i \in 1..Len(children) /\ i \in DOMAIN children /\ children[i].at = "run" /\ held[i] = 0
      /\ Len(children) \in Nat /\ Len(cmds) \in Nat /\ Len(children) <= Len(cmds) /\ Len(children) # 0
  BY StuckStates DEF WaitsToRead, Waits
<1>2. Shell!Program(i) = <<"cat">> /\ ~Shell!NoMore(i) /\ ~(i > 1 /\ content[i - 1] > 0)
  BY <1>1 DEF Stuck, ShellChildMoves
<1>3. i # 1 /\ ~(content[i - 1] = 0 /\ \A p \in DOMAIN open : <<i - 1, "w">> \notin open[p])
  BY <1>2 DEF Shell!NoMore
<1>4. i \in Nat /\ i > 1 /\ i - 1 \in 1..Len(children) /\ i - 1 \in Nat /\ i - 1 < Len(cmds)
  BY <1>1, <1>3
<1>5. content[i - 1] = 0
  <2>1. content[i - 1] \in Nat /\ ~(content[i - 1] > 0)
    BY <1>2, <1>4, StuckStates
  <2>2. QED
    BY ONLY <2>1
<1>6. PICK p \in 0..Len(children) : <<i - 1, "w">> \in open[p]
  BY <1>3, <1>5, StuckStates
<1>7. p # 0
  <2>1. <<i - 1, "w">> \notin open[0]
    BY <1>1, <1>4, StuckOwnEnds
  <2>2. QED
    BY <1>6, <2>1
<1>8. p \in 1..Len(children)
  BY <1>1, <1>7
<1>9. i - 1 = p /\ children[p].at = "run"
  BY <1>4, <1>6, <1>8, StuckStates
<1>10. ~WaitsToWrite(i - 1)
  BY NoneWaitsToWrite
<1>11. QED
  BY <1>8, <1>9, <1>10 DEF WaitsToRead, WaitsToWrite, Waits

\* Nor does one wait at an empty pipe: the first that does would have one in front.
LEMMA NoneWaitsToRead ==
  ASSUME Stuck, spc \in {"wait", "failed"}, NEW i
  PROVE  ~WaitsToRead(i)
<1> SUFFICES ASSUME WaitsToRead(i) PROVE FALSE
  OBVIOUS
<1> DEFINE Those == {k \in 1..Len(children) : WaitsToRead(k)}
<1>1. Len(children) \in Nat /\ Those \in SUBSET Nat /\ i \in Those
  BY StuckStates DEF WaitsToRead, Waits
<1>2. PICK k \in Those : \A j \in Those : k <= j
  <2> HIDE DEF Those
  <2>1. QED
    BY <1>1, LeastNumber
<1>3. WaitsToRead(k - 1)
  BY LastWaitsToRead
<1>4. k - 1 \in Those /\ k \in Nat
  BY <1>1, <1>3 DEF WaitsToRead, Waits
<1>5. QED
  BY <1>2, <1>4

\* The shell waits only if not all children have been printed, and so not all reaped.
LEMMA NotAllReaped ==
  ASSUME ShellInv, ShellMore, spc = "wait"
  PROVE  \E i \in 1..Len(children) : children[i].at # "reaped"
<1> SUFFICES ASSUME \A i \in 1..Len(children) : children[i].at = "reaped" PROVE FALSE
  OBVIOUS
<1> DEFINE n == Len(children)
           m == Len(printed)
<1>1. n \in Nat /\ m \in Nat /\ m < n /\ printed \in [1..m -> 1..n]
  BY DEF ShellInv, ShellTyped, ShellMore, ShellCommands
<1>2. \A i \in 1..n : \E j \in 1..m : printed[j] = i
  BY DEF ShellMore, ShellEnded
<1> HIDE DEF n, m
<1>3. printed \in Surjection(1..m, 1..n)
  BY <1>1, <1>2 DEF Surjection
<1>4. IsFiniteSet(1..m) /\ Cardinality(1..m) = m /\ Cardinality(1..n) = n
  BY <1>1, FS_Interval
<1>5. Cardinality(1..n) <= Cardinality(1..m)
  BY <1>3, <1>4, FS_Surjection
<1>6. QED
  BY <1>1, <1>4, <1>5

\* Whatever line, programs and capacity of the pipes: a pipeline goes on until the shell
\* and all commands have ended.
THEOREM ShellNeverStuck == SeminarsSpec => []ShellNoDeadlock
<1>1. Stuck => Shell!Ended
  <2> SUFFICES ASSUME Stuck PROVE Shell!Ended
    OBVIOUS
  <2>1. spc \in {"wait", "failed"} => \A i \in 1..Len(children) : children[i].at \in {"zombie", "reaped"}
    <3>1. ASSUME spc \in {"wait", "failed"}, NEW i \in 1..Len(children) PROVE children[i].at # "run"
      BY <3>1, NoneWaitsToRead, NoneWaitsToWrite DEF WaitsToRead, WaitsToWrite, Waits
    <3>2. QED
      BY <3>1, StuckStates
  <2>2. DOMAIN children = 1..Len(children) /\ spc \in {"wait", "done", "refused", "failed"}
    BY StuckStates
  <2>3. spc # "wait"
    <3> SUFFICES ASSUME spc = "wait" PROVE FALSE
      OBVIOUS
    <3>1. \A i \in 1..Len(children) : children[i].at # "zombie"
      BY <2>2 DEF Stuck, ShellItselfMoves
    <3>2. QED
      BY <2>1, <3>1, NotAllReaped DEF Stuck
  <2>4. spc = "refused" => Len(children) = 0
    BY DEF Stuck, ShellMore, ShellCommands
  <2>5. spc = "done" => \A i \in 1..Len(children) : children[i].at = "reaped"
    BY DEF Stuck, ShellInv, ShellReaped
  <2>6. QED
    BY <2>1, <2>2, <2>3, <2>4, <2>5 DEF Shell!Ended
<1>2. ShellRunsMore => ShellNoDeadlock
  BY <1>1 DEF ShellRunsMore, Runs, ShellNoDeadlock, Stuck
<1>3. QED
  BY <1>2, ShellMoreInvariance, PTL

-----------------------------------------------------------------------------
(* MonteCarlo. *)

ThreadRecords ==
  [at : {"bind", "draw", "lock", "read", "write", "unlock", "ended"}, core : Nat,
   err : {0, -1, MonteCarlo!EINVAL}, local : Int, read : Int]

\* The threads have been created in the order of their numbers.
MonteCarloTyped(created) ==
  /\ num_threads_sqrt \in Int /\ num_cores \in Nat /\ counter \in Int
  /\ threads \in [0..created - 1 -> ThreadRecords]

\* Each thread is to run on the processor with its own number, and finds that number
\* too large only if it is; all of them have been created when the main thread waits
\* for them.
MonteCarloThreads(created) ==
  /\ \A i \in 0..created - 1 : threads[i].core = i /\ (threads[i].err = -1 => i >= num_cores)
  /\ mpc = "create" => num_threads_sqrt # 0
  /\ mpc = "join" => num_threads_sqrt # 0
  /\ mpc \in {"join", "done"} /\ num_threads_sqrt > 0 => created = num_threads_sqrt * num_threads_sqrt
  /\ mpc = "done" => num_threads_sqrt > 0
  /\ mpc = "create" => created = 0 \/ created <= num_threads_sqrt * num_threads_sqrt
  /\ mpc \in {"enter", "refused", "crashed", "create", "join", "done"}
  /\ mpc = "enter" => created = 0

MonteCarloInv == \E created \in Nat : MonteCarloTyped(created) /\ MonteCarloThreads(created)

\* No thread has been created and none has drawn a point.
LEMMA MonteCarloInit == MonteCarlo!Init => MonteCarloInv
<1> SUFFICES ASSUME MonteCarlo!Init PROVE MonteCarloInv
  OBVIOUS
<1>1. threads \in [0..0 - 1 -> ThreadRecords]
  BY DEF MonteCarlo!Init
<1>2. num_threads_sqrt \in Int /\ num_cores \in Nat /\ counter \in Int /\ mpc = "enter"
  BY SeminarsAssumption DEF MonteCarlo!Init
<1>3. MonteCarloTyped(0) /\ MonteCarloThreads(0)
  BY <1>1, <1>2 DEF MonteCarloTyped, MonteCarloThreads
<1>4. QED
  BY <1>3 DEF MonteCarloInv

\* There are n numbers below n.
LEMMA CountUpTo ==
  ASSUME NEW n \in Nat
  PROVE  Cardinality(0..n - 1) = n
<1>1. n - 1 \in Int /\ 0 \in Int
  OBVIOUS
<1>2. Cardinality(0..n - 1) = IF 0 > n - 1 THEN 0 ELSE n - 1 - 0 + 1
  BY ONLY <1>1, FS_Interval
<1>3. QED
  BY <1>2

\* The number of threads is counted as the library does.
LEMMA SameCardinality == \A S : MonteCarlo!Cardinality(S) = Cardinality(S)
  BY DEF MonteCarlo!Cardinality, Cardinality

\* The number of threads is the number of them that have been created.
LEMMA CreatedThreads ==
  ASSUME NEW created \in Nat, DOMAIN threads = 0..created - 1
  PROVE  MonteCarlo!Created = created
  BY CountUpTo, SameCardinality DEF MonteCarlo!Created

\* A thread of which the same can be said as of t, after the check of its processor.
SameThread(t, u) == t.core = u.core /\ (t.err = -1 => u.err = -1 \/ u.core >= num_cores)

\* A step of a thread leaves its processor alone, and it is refused only one that the
\* machine does not have or the kernel does not give.
LEMMA MonteCarloThreadSteps ==
  ASSUME NEW created \in Nat, MonteCarloTyped(created), NEW i \in DOMAIN threads, MonteCarlo!MonteCarloThread(i)
  PROVE  /\ UNCHANGED <<mpc, num_threads_sqrt, num_cores>> /\ counter' \in Int
         /\ \E t \in ThreadRecords : SameThread(t, threads[i]) /\ threads' = [threads EXCEPT ![i] = t]
<1> USE DEF MonteCarloTyped, SameThread
<1>1. threads[i] \in ThreadRecords /\ threads[i].local \in Int /\ threads[i].read \in Int
  BY DEF ThreadRecords
<1>2. ASSUME NEW to \in {"draw", "lock", "read", "write", "unlock", "ended"}
      PROVE  /\ [threads[i] EXCEPT !.at = to] \in ThreadRecords
             /\ SameThread([threads[i] EXCEPT !.at = to], threads[i])
  BY <1>1 DEF ThreadRecords
<1>3. ASSUME NEW from, NEW to \in {"draw", "lock", "read", "write", "unlock", "ended"}, MonteCarlo!Step(i, from, to)
      PROVE  \E t \in ThreadRecords : SameThread(t, threads[i]) /\ threads' = [threads EXCEPT ![i] = t]
  <2>1. threads' = [threads EXCEPT ![i] = [threads[i] EXCEPT !.at = to]]
    BY <1>3 DEF MonteCarlo!Step
  <2>2. QED
    BY <1>2, <2>1
<1>4. CASE MonteCarlo!set_this_thread_to_core(i)
  <2>1. PICK err \in IF threads[i].core < num_cores THEN {0, MonteCarlo!EINVAL} ELSE {-1} :
          threads' = [threads EXCEPT ![i].at = IF err = 0 THEN "draw" ELSE "ended", ![i].err = err]
    BY <1>4 DEF MonteCarlo!set_this_thread_to_core
  <2> DEFINE t == [threads[i] EXCEPT !.at = IF err = 0 THEN "draw" ELSE "ended", !.err = err]
  <2>2. threads' = [threads EXCEPT ![i] = t] /\ UNCHANGED <<mpc, num_threads_sqrt, num_cores, counter>>
    BY <1>4, <2>1 DEF MonteCarlo!set_this_thread_to_core
  <2>3. t \in ThreadRecords /\ t.core = threads[i].core /\ t.err = err
    <3>1. err \in {0, MonteCarlo!EINVAL, -1} /\ (IF err = 0 THEN "draw" ELSE "ended") \in {"draw", "ended"}
      BY <2>1
    <3>2. QED
      BY <1>1, <3>1 DEF ThreadRecords
  <2>4. err = -1 => threads[i].core >= num_cores
    BY <1>1, <2>1 DEF ThreadRecords, MonteCarlo!EINVAL
  <2>5. QED
    BY <2>2, <2>3, <2>4
<1>5. CASE MonteCarlo!Lock(i)
  BY <1>3, <1>5 DEF MonteCarlo!Lock
<1>6. CASE MonteCarlo!Unlock(i)
  BY <1>3, <1>6 DEF MonteCarlo!Unlock
<1>7. CASE MonteCarlo!Store(i)
  <2>1. UNCHANGED <<mpc, num_threads_sqrt, num_cores>> /\ counter' \in Int
    BY <1>1, <1>7 DEF MonteCarlo!Store
  <2>2. QED
    BY <1>3, <1>7, <2>1 DEF MonteCarlo!Store
<1>8. CASE MonteCarlo!Load(i)
  <2> DEFINE t == [threads[i] EXCEPT !.at = "write", !.read = counter]
  <2>1. threads' = [threads EXCEPT ![i] = t] /\ UNCHANGED <<mpc, num_threads_sqrt, num_cores, counter>>
    BY <1>8 DEF MonteCarlo!Load
  <2>2. t \in ThreadRecords /\ SameThread(t, threads[i])
    BY <1>1 DEF ThreadRecords
  <2>3. QED
    BY <2>1, <2>2
<1>9. CASE MonteCarlo!Draw(i)
  <2>1. PICK n \in 0..MonteCarlo!points_per_thread : threads' = [threads EXCEPT ![i].at = "lock", ![i].local = n]
    BY <1>9 DEF MonteCarlo!Draw
  <2> DEFINE t == [threads[i] EXCEPT !.at = "lock", !.local = n]
  <2>2. threads' = [threads EXCEPT ![i] = t]
    BY <2>1
  <2>3. t \in ThreadRecords /\ SameThread(t, threads[i])
    BY <1>1, n \in Int DEF ThreadRecords
  <2>4. QED
    BY <1>9, <2>2, <2>3 DEF MonteCarlo!Draw
<1>10. QED
  BY <1>4, <1>5, <1>6, <1>7, <1>8, <1>9 DEF MonteCarlo!MonteCarloThread

\* Every step of the integration keeps its invariant.
LEMMA MonteCarloStepKeepsInv == MonteCarloInv /\ MonteCarlo!Next => MonteCarloInv'
<1> SUFFICES ASSUME MonteCarloInv, MonteCarlo!Next PROVE MonteCarloInv'
  OBVIOUS
<1>1. PICK created \in Nat : MonteCarloTyped(created) /\ MonteCarloThreads(created)
  BY DEF MonteCarloInv
<1>2. DOMAIN threads = 0..created - 1 /\ MonteCarlo!Created = created
  BY <1>1, CreatedThreads DEF MonteCarloTyped
<1>3. CASE MonteCarlo!Enter
  BY <1>1, <1>3 DEF MonteCarlo!Enter, MonteCarlo!NoNumber, MonteCarloInv, MonteCarloTyped, MonteCarloThreads
<1>4. CASE MonteCarlo!CreateThread
  <2> DEFINE thread == [at |-> "bind", core |-> created, err |-> 0, local |-> 0, read |-> 0]
  <2>1. /\ threads' = [i \in 0..created |-> IF i = created THEN thread ELSE threads[i]]
        /\ mpc = "create" /\ UNCHANGED <<mpc, num_threads_sqrt, num_cores, counter>>
    BY <1>2, <1>4 DEF MonteCarlo!CreateThread, MonteCarlo!assigned_core
  <2>2. thread \in ThreadRecords /\ thread.core = created /\ thread.err = 0
    BY DEF ThreadRecords
  <2> HIDE DEF thread
  <2>3. threads' \in [0..created + 1 - 1 -> ThreadRecords]
    BY <1>1, <2>1, <2>2 DEF MonteCarloTyped
  <2>4. MonteCarloTyped(created + 1)'
    BY <1>1, <2>1, <2>3 DEF MonteCarloTyped
  <2>5. \A i \in 0..created + 1 - 1 : threads'[i].core = i /\ (threads'[i].err = -1 => i >= num_cores)
    BY <1>1, <2>1, <2>2 DEF MonteCarloThreads
  <2>6. created < num_threads_sqrt * num_threads_sqrt
    BY <1>2, <1>4 DEF MonteCarlo!CreateThread, MonteCarlo!num_threads
  <2>7. MonteCarloThreads(created + 1)'
    BY <1>1, <2>1, <2>5, <2>6 DEF MonteCarloThreads, MonteCarloTyped
  <2>8. QED
    BY <2>4, <2>7 DEF MonteCarloInv
<1>5. CASE MonteCarlo!AllCreated
  <2>1. MonteCarloTyped(created)' /\ MonteCarloThreads(created)'
    BY <1>1, <1>2, <1>5 DEF MonteCarlo!AllCreated, MonteCarlo!num_threads, MonteCarloTyped, MonteCarloThreads
  <2>2. QED
    BY <2>1 DEF MonteCarloInv
<1>6. CASE MonteCarlo!Join
  <2>1. MonteCarloTyped(created)' /\ MonteCarloThreads(created)'
    BY <1>1, <1>6 DEF MonteCarlo!Join, MonteCarloTyped, MonteCarloThreads
  <2>2. QED
    BY <2>1 DEF MonteCarloInv
<1>7. ASSUME NEW i \in DOMAIN threads, MonteCarlo!MonteCarloThread(i) PROVE MonteCarloInv'
  <2>1. /\ UNCHANGED <<mpc, num_threads_sqrt, num_cores>> /\ counter' \in Int
        /\ \E t \in ThreadRecords : SameThread(t, threads[i]) /\ threads' = [threads EXCEPT ![i] = t]
    BY <1>1, <1>7, MonteCarloThreadSteps
  <2>2. /\ threads' \in [0..created - 1 -> ThreadRecords]
        /\ \A k \in 0..created - 1 : threads'[k].core = k /\ (threads'[k].err = -1 => k >= num_cores)
    BY <1>1, <2>1 DEF MonteCarloTyped, MonteCarloThreads, SameThread
  <2>3. MonteCarloTyped(created)' /\ MonteCarloThreads(created)'
    BY <1>1, <2>1, <2>2 DEF MonteCarloTyped, MonteCarloThreads
  <2>4. QED
    BY <2>3 DEF MonteCarloInv
<1>8. QED
  BY <1>3, <1>4, <1>5, <1>6, <1>7 DEF MonteCarlo!Next, MonteCarlo!Main

\* A step of another program, or none, keeps it too.
LEMMA MonteCarloUnchanged == MonteCarloInv /\ UNCHANGED montecarlo => MonteCarloInv'
  BY DEF montecarlo, MonteCarloInv, MonteCarloTyped, MonteCarloThreads

MonteCarloRuns == program = "monte_carlo" => MonteCarloInv

\* The invariant holds whenever it is the integration that runs.
LEMMA MonteCarloInvariance == SeminarsSpec => []MonteCarloRuns
<1>1. InitAll => MonteCarloRuns
  <2> SUFFICES ASSUME InitAll, program = "monte_carlo" PROVE MonteCarloInv
    BY DEF MonteCarloRuns
  <2>1. MonteCarlo!Init
    BY DEF InitAll, Runs
  <2>2. QED
    BY <2>1, MonteCarloInit
<1>2. MonteCarloRuns /\ [NextAll]_all => MonteCarloRuns'
  <2> SUFFICES ASSUME MonteCarloRuns, [NextAll]_all PROVE MonteCarloRuns'
    OBVIOUS
  <2>1. CASE MonteCarloStep
    BY <2>1, MonteCarloStepKeepsInv DEF MonteCarloStep, MonteCarloRuns, Runs
  <2>2. CASE ShmStep \/ MqStep \/ MqRunsStep \/ FifoStep \/ DuplexStep \/ ShellStep
    BY <2>2 DEF ShmStep, MqStep, MqRunsStep, FifoStep, DuplexStep, ShellStep, MonteCarloRuns, Runs
  <2>3. CASE UNCHANGED all
    BY <2>3, MonteCarloUnchanged DEF all, MonteCarloRuns
  <2>4. QED
    BY <2>1, <2>2, <2>3 DEF NextAll
<1>3. QED
  BY <1>1, <1>2, PTL DEF SeminarsSpec

\* A division leaves a rest that is smaller than the divisor.
LEMMA Division ==
  ASSUME NEW a \in Nat, NEW b \in Nat \ {0}
  PROVE  b * (a \div b) <= a /\ a - b * (a \div b) < b
  OBVIOUS

\* Two groups of threads that are all the threads draw what all draw.
LEMMA Shares ==
  ASSUME NEW a \in Nat, NEW b \in Nat, NEW q \in Nat
  PROVE  a * q + b * q = (a + b) * q
  OBVIOUS

\* Whatever number is entered and however many processors there are, as long as each
\* thread has one: beyond the shares of the threads that the kernel has refused their
\* processor, fewer points are missing than there are threads.
THEOREM MonteCarloDrawsNearlyAll == SeminarsSpec => []NearlyAllDrawn
<1>1. ASSUME MonteCarloInv, mpc = "done", MonteCarlo!num_threads <= num_cores
      PROVE  MonteCarlo!NearlyAllDrawn
  <2> DEFINE n == num_threads_sqrt * num_threads_sqrt
             A == MonteCarlo!ThreadsWith({0})
             B == MonteCarlo!ThreadsWith({MonteCarlo!EINVAL})
             q == TOTAL_POINTS \div n
  <2>1. PICK created \in Nat : MonteCarloTyped(created) /\ MonteCarloThreads(created)
    BY <1>1 DEF MonteCarloInv
  <2>2. num_threads_sqrt \in Int /\ num_threads_sqrt > 0 /\ created = n /\ n \in Nat \ {0}
    BY <1>1, <2>1 DEF MonteCarloTyped, MonteCarloThreads
  <2>3. A \cup B = 0..n - 1 /\ A \cap B = {}
    <3>1. \A i \in 0..n - 1 : threads[i] \in ThreadRecords /\ (threads[i].err = -1 => i >= num_cores)
      BY <2>1, <2>2 DEF MonteCarloTyped, MonteCarloThreads
    <3>2. DOMAIN threads = 0..n - 1 /\ num_cores \in Nat /\ n <= num_cores
      BY <1>1, <2>1, <2>2 DEF MonteCarloTyped, MonteCarlo!num_threads
    <3>3. \A i \in 0..n - 1 : threads[i].err \in {0, MonteCarlo!EINVAL}
      BY <2>2, <3>1, <3>2 DEF ThreadRecords
    <3>4. QED
      BY <3>2, <3>3 DEF MonteCarlo!ThreadsWith, MonteCarlo!EINVAL
  <2>4. /\ MonteCarlo!Cardinality(A) \in Nat /\ MonteCarlo!Cardinality(B) \in Nat
        /\ MonteCarlo!Cardinality(A) + MonteCarlo!Cardinality(B) = n
    <3>1. IsFiniteSet(0..n - 1) /\ Cardinality(0..n - 1) = n
      <4>1. n - 1 \in Int /\ 0 \in Int
        BY <2>2
      <4>2. IsFiniteSet(0..n - 1)
        BY ONLY <4>1, FS_Interval
      <4>3. QED
        BY <2>2, <4>2, CountUpTo
    <3>2. IsFiniteSet(A) /\ IsFiniteSet(B)
      BY ONLY <2>3, <3>1, FS_Subset
    <3>3. Cardinality(A) \in Nat /\ Cardinality(B) \in Nat
      BY ONLY <3>2, FS_CardinalityType
    <3>4. Cardinality(A \cup B) = Cardinality(A) + Cardinality(B) - Cardinality(A \cap B)
      BY ONLY <3>2, FS_Union
    <3>5. Cardinality(A \cap B) = 0
      BY ONLY <2>3, FS_EmptySet
    <3>6. MonteCarlo!Cardinality(A) = Cardinality(A) /\ MonteCarlo!Cardinality(B) = Cardinality(B)
      BY ONLY SameCardinality, Zenon
    <3>7. Cardinality(A) + Cardinality(B) = n
      <4> DEFINE a == Cardinality(A)
                 b == Cardinality(B)
                 c == Cardinality(A \cap B)
                 d == Cardinality(A \cup B)
      <4>1. a \in Nat /\ b \in Nat /\ c = 0 /\ d = n /\ d = a + b - c
        BY ONLY <2>3, <3>1, <3>3, <3>4, <3>5, Zenon
      <4> HIDE DEF a, b, c, d
      <4>2. a + b = n
        BY <4>1
      <4>3. QED
        BY ONLY <4>2, Zenon DEF a, b
    <3>8. QED
      BY ONLY <3>3, <3>6, <3>7, Zenon
  <2>5. TOTAL_POINTS \in Nat
    BY SeminarsAssumption
  <2>6. MonteCarlo!Drawn = MonteCarlo!Cardinality(A) * q /\ MonteCarlo!points_per_thread = q /\ MonteCarlo!num_threads = n
    BY DEF MonteCarlo!Drawn, MonteCarlo!points_per_thread, MonteCarlo!num_threads
  <2> HIDE DEF n, A, B
  <2>7. n * q <= TOTAL_POINTS /\ TOTAL_POINTS - n * q < n /\ q \in Nat
    BY <2>2, <2>5, Division
  <2>8. MonteCarlo!Cardinality(A) * q + MonteCarlo!Cardinality(B) * q = n * q
    <3>1. q \in Nat
      BY <2>7
    <3> HIDE DEF q
    <3>2. QED
      BY <2>4, <3>1, Shares
  <2>9. QED
    <3>1. MonteCarlo!Cardinality(A) * q \in Int /\ MonteCarlo!Cardinality(B) * q \in Int
      BY <2>4, <2>7
    <3> DEFINE drawn == MonteCarlo!Drawn
               refused == MonteCarlo!Cardinality(B) * q
    <3>2. drawn + refused <= TOTAL_POINTS /\ TOTAL_POINTS - drawn - refused < n
      BY <2>5, <2>6, <2>7, <2>8, <3>1
    <3>3. QED
      BY <2>6, <3>2, Zenon DEF MonteCarlo!NearlyAllDrawn, B
<1>2. MonteCarloRuns => NearlyAllDrawn
  <2>1. ~(mpc = "done" /\ MonteCarlo!num_threads <= num_cores) => MonteCarlo!NearlyAllDrawn
    BY DEF MonteCarlo!NearlyAllDrawn
  <2>2. QED
    BY <1>1, <2>1 DEF MonteCarloRuns, Runs, NearlyAllDrawn
<1>3. QED
  BY <1>2, MonteCarloInvariance, PTL

-----------------------------------------------------------------------------
(* MonteCarlo: what the counter is the sum of. *)

\* The fold of the library is the sum.
LEMMA FoldIsSum == \A fun : MonteCarlo!FoldFunction(+, 0, fun) = SumOf(fun)
<1> SUFFICES ASSUME NEW fun PROVE MonteCarlo!FoldFunction(+, 0, fun) = SumOf(fun)
  OBVIOUS
<1> DEFINE D == DOMAIN fun
<1>1. MonteCarlo!FoldFunction(+, 0, fun) =
        (CHOOSE sum : sum = [s \in SUBSET D |->
           IF s = {} THEN 0 ELSE fun[CHOOSE x \in s : TRUE] + sum[s \ {CHOOSE x \in s : TRUE}]])[D]
  BY DEF MonteCarlo!FoldFunction, MonteCarlo!FoldFunctionOnSet, MonteCarlo!MapThenFoldSet
<1>2. QED
  BY <1>1 DEF SumOf, IsSum, Pick

Counted == {j \in DOMAIN threads : threads[j].at \in {"unlock", "ended"}}

CountedLocals == [i \in Counted |-> threads[i].local]

\* A thread between its two calls holds the mutex, the counter is then what it has
\* read, and a thread that gives up has counted nothing.
Counting ==
  /\ \A i \in DOMAIN threads :
       /\ threads[i].at \in {"read", "write", "unlock"} => mutex = i
       /\ threads[i].at = "write" => threads[i].read = counter
       /\ threads[i].at = "bind" => threads[i].local = 0
  /\ mutex # -1 => mutex \in DOMAIN threads /\ threads[mutex].at \in {"read", "write", "unlock"}
  /\ counter = SumOf(CountedLocals)

\* There are finitely many threads, and each has counted some number.
LEMMA LocalsOfThreads ==
  ASSUME NEW created \in Nat, NEW t \in [0..created - 1 -> ThreadRecords], NEW C \in SUBSET DOMAIN t
  PROVE  IsFiniteSet(C) /\ [i \in C |-> t[i].local] \in [C -> Int]
<1>1. created - 1 \in Int /\ 0 \in Int /\ C \in SUBSET (0..created - 1)
  OBVIOUS
<1>2. IsFiniteSet(0..created - 1)
  BY ONLY <1>1, FS_Interval
<1>3. IsFiniteSet(C)
  BY ONLY <1>1, <1>2, FS_Subset
<1>4. \A i \in C : t[i].local \in Int
  BY <1>1 DEF ThreadRecords
<1>5. QED
  BY <1>3, <1>4

\* As long as no thread is counted the sum stays.
LEMMA SameCounted ==
  ASSUME Counted' = Counted, \A i \in Counted : threads'[i].local = threads[i].local
  PROVE  CountedLocals' = CountedLocals
  BY DEF CountedLocals

\* A thread that is counted adds what it has found.
LEMMA OneMoreCounted ==
  ASSUME MonteCarloInv, MonteCarloInv', NEW i, i \notin Counted, Counted' = Counted \cup {i},
         \A j \in Counted : threads'[j].local = threads[j].local
  PROVE  SumOf(CountedLocals)' = SumOf(CountedLocals) + threads'[i].local
<1>1. PICK D, E, f, g : D = Counted /\ E = Counted' /\ f = CountedLocals /\ g = CountedLocals'
  OBVIOUS
<1>2. IsFiniteSet(D) /\ f \in [D -> Int]
  <2>1. PICK created \in Nat : threads \in [0..created - 1 -> ThreadRecords]
    BY DEF MonteCarloInv, MonteCarloTyped
  <2>2. Counted \in SUBSET DOMAIN threads
    BY DEF Counted
  <2>3. QED
    BY <1>1, <2>1, <2>2, LocalsOfThreads DEF CountedLocals
<1>3. CountedLocals' \in [Counted' -> Int]
  <2>1. PICK created \in Nat : threads' \in [0..created - 1 -> ThreadRecords]
    BY DEF MonteCarloInv, MonteCarloTyped
  <2>2. Counted' \in SUBSET DOMAIN threads'
    BY DEF Counted
  <2>3. QED
    BY <2>1, <2>2, LocalsOfThreads DEF CountedLocals
<1>4. E = D \cup {i} /\ g \in [E -> Int]
  BY <1>1, <1>3
<1>5. i \notin D /\ g[i] = threads'[i].local /\ \A j \in D : g[j] = f[j]
  BY <1>1 DEF CountedLocals
<1>6. OneElementMore(f, g, i)
  BY <1>2, <1>4, <1>5 DEF OneElementMore
<1>7. SumOf(g) = SumOf(f) + g[i]
  BY ONLY <1>6, SumOfOneMore
<1>8. QED
  BY <1>1, <1>5, <1>7

\* At the start nothing has been counted.
LEMMA CountingInit == MonteCarlo!Init => Counting
<1> SUFFICES ASSUME MonteCarlo!Init PROVE Counting
  OBVIOUS
<1>1. DOMAIN threads = {} /\ counter = 0 /\ mutex = -1
  BY DEF MonteCarlo!Init
<1>2. Counted = {} /\ CountedLocals \in [{} -> Int]
  BY <1>1 DEF Counted, CountedLocals
<1>3. SumOf(CountedLocals) = 0
  BY ONLY <1>2, SumIsNumber, FS_EmptySet
<1>4. QED
  BY <1>1, <1>3 DEF Counting

\* The steps of the threads keep what is said of the mutex and the counter.
LEMMA CountingThreadStep ==
  ASSUME MonteCarloInv, MonteCarloInv', Counting, NEW i \in DOMAIN threads, MonteCarlo!MonteCarloThread(i)
  PROVE  Counting'
<1>1. PICK created \in Nat : MonteCarloTyped(created)
  BY DEF MonteCarloInv
<1>2. /\ DOMAIN threads = 0..created - 1 /\ i \in Nat /\ counter \in Int /\ threads[i] \in ThreadRecords
      /\ \A j \in DOMAIN threads : j \in Nat
  BY <1>1 DEF MonteCarloTyped
<1>3. ASSUME NEW t \in ThreadRecords, threads' = [threads EXCEPT ![i] = t],
             threads[i].at \in {"unlock", "ended"} <=> t.at \in {"unlock", "ended"},
             threads[i].at \in {"unlock", "ended"} => t.local = threads[i].local, counter' = counter
      PROVE  counter' = SumOf(CountedLocals)'
  <2>1. Counted' = Counted /\ \A j \in Counted : threads'[j].local = threads[j].local
    BY <1>3 DEF Counted
  <2>2. CountedLocals' = CountedLocals
    BY <2>1, SameCounted
  <2>3. QED
    BY <1>3, <2>2 DEF Counting
<1>4. ASSUME NEW t \in ThreadRecords, threads' = [threads EXCEPT ![i] = t],
             threads[i].at \notin {"unlock", "ended"}, t.at \in {"unlock", "ended"}, counter' = counter + t.local
      PROVE  counter' = SumOf(CountedLocals)'
  <2>1. i \notin Counted /\ Counted' = Counted \cup {i} /\ threads'[i] = t
        /\ \A j \in Counted : threads'[j].local = threads[j].local
    BY <1>4 DEF Counted
  <2>2. SumOf(CountedLocals)' = SumOf(CountedLocals) + threads'[i].local
    BY ONLY <2>1, MonteCarloInv, MonteCarloInv', OneMoreCounted
  <2>3. QED
    BY <1>4, <2>1, <2>2 DEF Counting
<1>5. CASE MonteCarlo!set_this_thread_to_core(i)
  <2>0. PICK err \in IF threads[i].core < num_cores THEN {0, MonteCarlo!EINVAL} ELSE {-1} :
          threads' = [threads EXCEPT ![i].at = IF err = 0 THEN "draw" ELSE "ended", ![i].err = err]
    BY <1>5 DEF MonteCarlo!set_this_thread_to_core
  <2> DEFINE to == IF err = 0 THEN "draw" ELSE "ended"
             t == [threads[i] EXCEPT !.at = to, !.err = err]
  <2>1. threads[i].at = "bind" /\ threads' = [threads EXCEPT ![i] = t] /\ UNCHANGED <<mutex, counter>>
    BY <1>5, <2>0 DEF MonteCarlo!set_this_thread_to_core
  <2>2. to \in {"draw", "ended"} /\ threads[i].local = 0
    BY <2>1 DEF Counting
  <2>3. t \in ThreadRecords /\ t.at = to /\ t.local = 0
    BY <1>2, <2>0, <2>2 DEF ThreadRecords
  <2> HIDE DEF t, to
  <2>4. counter' = SumOf(CountedLocals)'
    <3>1. CASE to = "draw"
      BY <1>3, <2>1, <2>3, <3>1
    <3>2. CASE to = "ended"
      <4>1. counter' = counter + t.local
        BY <1>2, <2>1, <2>3
      <4>2. QED
        BY <1>4, <2>1, <2>3, <3>2, <4>1
    <3>3. QED
      BY <2>2, <3>1, <3>2
  <2>5. QED
    BY <2>1, <2>2, <2>3, <2>4 DEF Counting
<1>6. CASE MonteCarlo!Draw(i)
  <2>1. PICK n \in 0..MonteCarlo!points_per_thread : threads' = [threads EXCEPT ![i].at = "lock", ![i].local = n]
    BY <1>6 DEF MonteCarlo!Draw
  <2> DEFINE t == [threads[i] EXCEPT !.at = "lock", !.local = n]
  <2>2. threads[i].at = "draw" /\ threads' = [threads EXCEPT ![i] = t] /\ UNCHANGED <<mutex, counter>>
    BY <1>6, <2>1 DEF MonteCarlo!Draw
  <2>3. t \in ThreadRecords /\ t.at = "lock"
    BY <1>2, n \in Int DEF ThreadRecords
  <2> HIDE DEF t
  <2>4. counter' = SumOf(CountedLocals)'
    BY <1>3, <2>2, <2>3
  <2>5. QED
    BY <2>2, <2>3, <2>4 DEF Counting
<1>7. CASE MonteCarlo!Lock(i)
  <2> DEFINE t == [threads[i] EXCEPT !.at = "read"]
  <2>1. threads[i].at = "lock" /\ threads' = [threads EXCEPT ![i] = t] /\ mutex = -1 /\ mutex' = i /\ counter' = counter
    BY <1>7 DEF MonteCarlo!Lock, MonteCarlo!Step
  <2>2. t \in ThreadRecords /\ t.at = "read"
    BY <1>2 DEF ThreadRecords
  <2> HIDE DEF t
  <2>3. counter' = SumOf(CountedLocals)'
    BY <1>3, <2>1, <2>2
  <2>4. \A j \in DOMAIN threads : threads[j].at \notin {"read", "write", "unlock"}
    <3>1. \A j \in DOMAIN threads : mutex # j
      BY <1>2, <2>1
    <3>2. QED
      BY <3>1 DEF Counting
  <2>5. QED
    BY <2>1, <2>2, <2>3, <2>4 DEF Counting
<1>8. CASE MonteCarlo!Load(i)
  <2> DEFINE t == [threads[i] EXCEPT !.at = "write", !.read = counter]
  <2>1. threads[i].at = "read" /\ threads' = [threads EXCEPT ![i] = t] /\ UNCHANGED <<mutex, counter>>
    BY <1>8 DEF MonteCarlo!Load
  <2>2. t \in ThreadRecords /\ t.at = "write" /\ t.read = counter
    BY <1>2 DEF ThreadRecords
  <2> HIDE DEF t
  <2>3. counter' = SumOf(CountedLocals)'
    BY <1>3, <2>1, <2>2
  <2>4. QED
    BY <2>1, <2>2, <2>3 DEF Counting
<1>9. CASE MonteCarlo!Store(i)
  <2> DEFINE t == [threads[i] EXCEPT !.at = "unlock"]
  <2>1. threads[i].at = "write" /\ threads' = [threads EXCEPT ![i] = t] /\ mutex' = mutex
        /\ counter' = threads[i].read + threads[i].local
    BY <1>9 DEF MonteCarlo!Store, MonteCarlo!Step
  <2>2. t \in ThreadRecords /\ t.at = "unlock" /\ t.local = threads[i].local
    BY <1>2 DEF ThreadRecords
  <2> HIDE DEF t
  <2>3. threads[i].read = counter /\ \A j \in DOMAIN threads \ {i} : threads[j].at # "write"
    BY <2>1 DEF Counting
  <2>4. counter' = counter + t.local
    BY <2>1, <2>2, <2>3
  <2>5. counter' = SumOf(CountedLocals)'
    BY <1>4, <2>1, <2>2, <2>4
  <2>6. QED
    BY <2>1, <2>2, <2>3, <2>5 DEF Counting
<1>10. CASE MonteCarlo!Unlock(i)
  <2> DEFINE t == [threads[i] EXCEPT !.at = "ended"]
  <2>1. threads[i].at = "unlock" /\ threads' = [threads EXCEPT ![i] = t] /\ mutex' = -1 /\ counter' = counter
    BY <1>10 DEF MonteCarlo!Unlock, MonteCarlo!Step
  <2>2. t \in ThreadRecords /\ t.at = "ended" /\ t.local = threads[i].local
    BY <1>2 DEF ThreadRecords
  <2> HIDE DEF t
  <2>3. counter' = SumOf(CountedLocals)'
    BY <1>3, <2>1, <2>2
  <2>4. \A j \in DOMAIN threads \ {i} : threads[j].at \notin {"read", "write", "unlock"}
    BY <2>1 DEF Counting
  <2>5. QED
    BY <2>1, <2>2, <2>3, <2>4 DEF Counting
<1>11. QED
  BY <1>5, <1>6, <1>7, <1>8, <1>9, <1>10 DEF MonteCarlo!MonteCarloThread

\* A new thread has counted nothing and is not counted.
LEMMA CountingCreate ==
  ASSUME MonteCarloInv, Counting, MonteCarlo!CreateThread
  PROVE  Counting'
<1>1. PICK created \in Nat : MonteCarloTyped(created)
  BY DEF MonteCarloInv
<1>2. DOMAIN threads = 0..created - 1 /\ MonteCarlo!Created = created
  BY <1>1, CreatedThreads DEF MonteCarloTyped
<1> DEFINE thread == [at |-> "bind", core |-> created, err |-> 0, local |-> 0, read |-> 0]
<1>3. /\ threads' = [i \in 0..created |-> IF i = created THEN thread ELSE threads[i]]
      /\ UNCHANGED <<mutex, counter>>
  BY <1>2 DEF MonteCarlo!CreateThread, MonteCarlo!assigned_core
<1>4. thread.at = "bind" /\ thread.local = 0
  OBVIOUS
<1> HIDE DEF thread
<1>5. /\ DOMAIN threads' = DOMAIN threads \cup {created} /\ threads'[created] = thread
      /\ \A i \in DOMAIN threads : threads'[i] = threads[i]
  BY <1>2, <1>3
<1>6. Counted' = Counted /\ \A i \in Counted : threads'[i].local = threads[i].local
  BY <1>4, <1>5 DEF Counted
<1>7. CountedLocals' = CountedLocals
  BY <1>6, SameCounted
<1>8. QED
  BY <1>3, <1>4, <1>5, <1>7 DEF Counting

MonteCarloCounts == program = "monte_carlo" => Counting

\* The counter is the sum whenever it is the integration that runs.
LEMMA CountingInvariance == SeminarsSpec => []MonteCarloCounts
<1>1. InitAll => MonteCarloCounts
  <2> SUFFICES ASSUME InitAll, program = "monte_carlo" PROVE Counting
    BY DEF MonteCarloCounts
  <2>1. MonteCarlo!Init
    BY DEF InitAll, Runs
  <2>2. QED
    BY <2>1, CountingInit
<1>2. MonteCarloRuns /\ MonteCarloRuns' /\ MonteCarloCounts /\ [NextAll]_all => MonteCarloCounts'
  <2> SUFFICES ASSUME MonteCarloRuns, MonteCarloRuns', MonteCarloCounts, [NextAll]_all,
                      program' = "monte_carlo"
               PROVE  Counting'
    BY DEF MonteCarloCounts
  <2>1. ASSUME UNCHANGED <<threads, mutex, counter>>, Counting PROVE Counting'
    BY <2>1 DEF Counting, CountedLocals, Counted
  <2>2. CASE MonteCarloStep
    <3>1. MonteCarloInv /\ MonteCarloInv' /\ Counting /\ MonteCarlo!Next
      BY <2>2 DEF MonteCarloStep, MonteCarloRuns, MonteCarloCounts, Runs
    <3>2. CASE MonteCarlo!Enter \/ MonteCarlo!AllCreated \/ MonteCarlo!Join
      BY <2>1, <3>1, <3>2 DEF MonteCarlo!Enter, MonteCarlo!AllCreated, MonteCarlo!Join
    <3>3. QED
      BY <3>1, <3>2, CountingCreate, CountingThreadStep DEF MonteCarlo!Next, MonteCarlo!Main
  <2>3. CASE ShmStep \/ MqStep \/ MqRunsStep \/ FifoStep \/ DuplexStep \/ ShellStep
    BY <2>3 DEF ShmStep, MqStep, MqRunsStep, FifoStep, DuplexStep, ShellStep, Runs
  <2>4. CASE UNCHANGED all
    BY <2>1, <2>4 DEF all, montecarlo, MonteCarloCounts
  <2>5. QED
    BY <2>2, <2>3, <2>4 DEF NextAll
<1>3. QED
  BY <1>1, <1>2, MonteCarloInvariance, PTL DEF SeminarsSpec

\* Whatever order the threads act in, for any number of them and any points: no
\* update of the shared counter is lost, because no other thread writes it between
\* the reading and the writing of one that holds the mutex.
THEOREM NoUpdateLost == SeminarsSpec => []CounterIsSum
<1>1. Counting => MonteCarlo!CounterIsSum
  <2> SUFFICES ASSUME Counting PROVE MonteCarlo!CounterIsSum
    OBVIOUS
  <2>1. MonteCarlo!FoldFunction(+, 0, CountedLocals) = SumOf(CountedLocals)
    BY FoldIsSum
  <2>2. QED
    BY <2>1 DEF Counting, MonteCarlo!CounterIsSum, CountedLocals, Counted
<1>2. MonteCarloCounts => CounterIsSum
  BY <1>1 DEF MonteCarloCounts, Runs, CounterIsSum
<1>3. QED
  BY <1>2, CountingInvariance, PTL

\* What the threads of MonteCarlo can do, the guards of their steps.
MonteCarloMainMoves ==
  \/ mpc = "enter"
  \/ mpc = "create" /\ MonteCarlo!Created < MonteCarlo!num_threads /\ num_threads_sqrt > 0
  \/ mpc = "create" /\ (MonteCarlo!Created = MonteCarlo!num_threads \/ num_threads_sqrt < 0)
  \/ mpc = "join" /\ \A i \in DOMAIN threads : threads[i].at = "ended"
MonteCarloThreadMoves(i) ==
  \/ threads[i].at \in {"bind", "draw", "read", "write", "unlock"}
  \/ threads[i].at = "lock" /\ mutex = -1

\* Nobody waits for a mutex that nobody will unlock, nor in pthread_join() for a
\* thread that cannot end, and the main thread creates no thread too many: nothing
\* moves only when the program has ended.
MonteCarloNoDeadlock ==
  Runs("monte_carlo") =>
    \/ MonteCarloMainMoves \/ \E i \in DOMAIN threads : MonteCarloThreadMoves(i)
    \/ MonteCarlo!Ended

\* Whatever number of threads: MonteCarlo goes on until the main thread has joined all.
THEOREM MonteCarloNeverStuck == SeminarsSpec => []MonteCarloNoDeadlock
<1>1. ASSUME MonteCarloInv, Counting, ~MonteCarloMainMoves, \A i \in DOMAIN threads : ~MonteCarloThreadMoves(i)
      PROVE  MonteCarlo!Ended
  <2>1. PICK created \in Nat : MonteCarloTyped(created) /\ MonteCarloThreads(created)
    BY <1>1 DEF MonteCarloInv
  <2>2. DOMAIN threads = 0..created - 1 /\ MonteCarlo!Created = created
    BY <2>1, CreatedThreads DEF MonteCarloTyped
  <2>3. mpc # "create"
    BY <1>1, <2>1, <2>2 DEF MonteCarloMainMoves, MonteCarlo!num_threads, MonteCarloTyped, MonteCarloThreads
  <2>4. mpc # "join"
    <3> SUFFICES ASSUME mpc = "join" PROVE FALSE
      OBVIOUS
    <3>1. PICK i \in DOMAIN threads : threads[i].at # "ended"
      BY <1>1 DEF MonteCarloMainMoves
    <3>2. threads[i].at = "lock" /\ mutex # -1
      BY <1>1, <2>1, <3>1 DEF MonteCarloThreadMoves, MonteCarloTyped, ThreadRecords
    <3>3. mutex \in DOMAIN threads /\ threads[mutex].at \in {"read", "write", "unlock"}
      BY <1>1, <3>2 DEF Counting
    <3>4. QED
      BY <1>1, <3>3 DEF MonteCarloThreadMoves
  <2>5. QED
    BY <1>1, <2>1, <2>3, <2>4 DEF MonteCarloMainMoves, MonteCarlo!Ended, MonteCarloThreads
<1>2. MonteCarloRuns /\ MonteCarloCounts => MonteCarloNoDeadlock
  BY <1>1 DEF MonteCarloRuns, MonteCarloCounts, Runs, MonteCarloNoDeadlock
<1>3. QED
  BY <1>2, MonteCarloInvariance, CountingInvariance, PTL

-----------------------------------------------------------------------------
(* DuplexPipe. *)

\* f is the lowest number that is not in D.
Lowest(f, D) == f \in Nat /\ f \notin D /\ \A k \in 0..f - 1 : k \in D

\* The lowest free descriptor is free and no other is lower.
LEMMA MinOfNumbers ==
  ASSUME NEW S \in SUBSET Nat, S # {}
  PROVE  Duplex!Min(S) \in S /\ \A y \in S : Duplex!Min(S) <= y
<1>1. PICK x \in S : \A y \in S : <<y, x>> \notin OpToRel(<, Nat)
  BY NatLessThanWellFounded, WFMin
<1>2. \A y \in S : x <= y
  <2> SUFFICES ASSUME NEW y \in S, y < x PROVE FALSE
    OBVIOUS
  <2>1. <<y, x>> \in Nat \X Nat /\ <<y, x>>[1] = y /\ <<y, x>>[2] = x
    OBVIOUS
  <2>2. <<y, x>> \in {ss \in Nat \X Nat : ss[1] < ss[2]}
    BY <2>1
  <2>3. QED
    BY <1>1, <2>2 DEF OpToRel
<1>3. QED
  BY <1>2 DEF Duplex!Min

\* What open() and pipe() return: the lowest number that is free.
LEMMA LowestFree ==
  ASSUME NEW t, IsFiniteSet(DOMAIN t), DOMAIN t \subseteq Nat
  PROVE  Lowest(Duplex!LowestFd(t), DOMAIN t)
<1> DEFINE c == Cardinality(DOMAIN t)
           S == 0..c \ DOMAIN t
<1>1. c \in Nat
  BY FS_CardinalityType
<1>2. S # {}
  <2>1. IsFiniteSet(0..c) /\ Cardinality(0..c) = c + 1
    BY <1>1, FS_Interval
  <2>2. 0..c \subseteq DOMAIN t => Cardinality(0..c) <= c
    BY FS_Subset
  <2>3. QED
    BY <1>1, <2>1, <2>2
<1>3. Duplex!LowestFd(t) = Duplex!Min(S)
  BY DEF Duplex!LowestFd, Duplex!Cardinality, Cardinality
<1>4. Duplex!Min(S) \in S /\ \A y \in S : Duplex!Min(S) <= y
  BY <1>1, <1>2, MinOfNumbers
<1> HIDE DEF c
<1>5. QED
  BY <1>1, <1>3, <1>4 DEF Lowest

\* There is one way to number the descriptors that open() and pipe() return.
LEMMA LowestUnique ==
  ASSUME NEW D, NEW f, NEW g, Lowest(f, D), Lowest(g, D)
  PROVE  f = g
  BY DEF Lowest

\* What a process has after open() or pipe(), and after close().
LEMMA Opened ==
  ASSUME NEW t, IsFiniteSet(DOMAIN t) /\ DOMAIN t \subseteq Nat, NEW what
  PROVE  LET u == Duplex!With(t, what)
             f == Duplex!LowestFd(t)
         IN /\ Lowest(f, DOMAIN t)
            /\ DOMAIN u = DOMAIN t \cup {f} /\ IsFiniteSet(DOMAIN u) /\ DOMAIN u \subseteq Nat
            /\ u[f] = what /\ \A k \in DOMAIN t : u[k] = t[k]
<1> DEFINE f == Duplex!LowestFd(t)
           u == Duplex!With(t, what)
<1>1. Lowest(f, DOMAIN t)
  BY LowestFree
<1>2. u = [k \in DOMAIN t \cup {f} |-> IF k = f THEN what ELSE t[k]]
  BY DEF Duplex!With
<1> HIDE DEF f, u
<1>3. IsFiniteSet(DOMAIN t \cup {f})
  BY FS_AddElement
<1>4. /\ DOMAIN u = DOMAIN t \cup {f} /\ IsFiniteSet(DOMAIN u) /\ DOMAIN u \subseteq Nat
      /\ u[f] = what /\ \A k \in DOMAIN t : u[k] = t[k]
  BY <1>1, <1>2, <1>3 DEF Lowest
<1>5. QED
  BY <1>1, <1>4 DEF f, u

\* close() takes the ends out of the table and nothing else.
LEMMA Closed ==
  ASSUME NEW t, NEW S
  PROVE  DOMAIN Duplex!Without(t, S) = DOMAIN t \ S
  BY DEF Duplex!Without

\* The pipes have got the lowest numbers that were free, and the two files those of
\* the ends that have just been closed: what is read from the first pipe comes from
\* parent.txt, what is written to the second one goes to child.txt.
NumberedBy(T, a, b, c, d) ==
  /\ IsFiniteSet(T) /\ T \subseteq Nat
  /\ Lowest(a, T) /\ Lowest(b, T \cup {a}) /\ Lowest(c, T \cup {a, b}) /\ Lowest(d, T \cup {a, b, c})

Numbered(T, direct, back) == NumberedBy(T, direct[1], direct[2], back[1], back[2])

ReadsAndWrites(mine, a, d) == a \in DOMAIN mine /\ mine[a] = "input" /\ d \in DOMAIN mine /\ mine[d] = "output"

DuplexFiles(T) ==
  LET mine == files["parent"] IN
  /\ DOMAIN files = {"parent", "child"} /\ files = [p \in {"parent", "child"} |-> files[p]]
  /\ pp = "close" => DOMAIN mine = T \cup {fd_direct[1], fd_direct[2], fd_back[1], fd_back[2]}
  /\ pp = "open"  => DOMAIN mine = T \cup {fd_direct[2], fd_back[1]}
  /\ pp \in {"read", "send", "receive", "write"} =>
       ReadsAndWrites(mine, fd_direct[1], fd_back[2])

DuplexDescriptors == \E T : Numbered(T, fd_direct, fd_back) /\ DuplexFiles(T)

\* How many blocks the copy has in the end.
Copied(n) == IF n > 0 /\ n % 2 = 0 /\ size[n] < Full THEN n - 1 ELSE n

\* A round of the loop takes two blocks, the second of which has the length of the
\* first, and so is not a short one.
DuplexRounds ==
  LET k == Len(out) IN
  /\ pp \in {"close", "open"} => k = 0 /\ blocks = 0
  /\ pp = "read" => k = blocks /\ blocks % 2 = 0 /\ (blocks > 0 => size[blocks] = Full)
  /\ pp = "send" => k + 1 = blocks /\ data = blocks /\ blocks % 2 = 1
  /\ pp = "receive" => k = blocks /\ data = blocks /\ blocks % 2 = 1
  /\ pp = "write" => k + 1 = blocks /\ data = blocks /\ blocks % 2 = 0 /\ size[blocks] = Full
  /\ pp \in {"end", "wait", "done"} => k = Copied(Len(size))

DuplexTyped ==
  /\ size \in Seq(1..Full) /\ \A i \in 1..Len(size) - 1 : size[i] = Full
  /\ out \in Seq(Nat) /\ \A i \in 1..Len(out) : out[i] = i
  /\ blocks \in 0..Len(size) /\ Full \in Nat
  /\ pp \in {"close", "open", "read", "send", "receive", "write", "end", "wait", "done", "failed"}

DuplexInv == DuplexDescriptors /\ DuplexTyped /\ DuplexRounds

\* The pipes are empty and no file is open.
LEMMA DuplexInit == Duplex!Init => DuplexInv
<1> SUFFICES ASSUME Duplex!Init PROVE DuplexInv
  OBVIOUS
<1>1. PICK fds \in Inherited :
        LET t1 == [fd \in fds |-> "other"]
            t2 == Duplex!With(t1, "direct out")   t3 == Duplex!With(t2, "direct in")
            t4 == Duplex!With(t3, "back out")     t5 == Duplex!With(t4, "back in")
        IN /\ fd_direct = <<Duplex!LowestFd(t1), Duplex!LowestFd(t2)>>
           /\ fd_back   = <<Duplex!LowestFd(t3), Duplex!LowestFd(t4)>>
           /\ files = [p \in {"parent", "child"} |-> t5]
  BY DEF Duplex!Init
<1> DEFINE t1 == [fd \in fds |-> "other"]
           t2 == Duplex!With(t1, "direct out")
           t3 == Duplex!With(t2, "direct in")
           t4 == Duplex!With(t3, "back out")
           t5 == Duplex!With(t4, "back in")
           a == Duplex!LowestFd(t1)
           b == Duplex!LowestFd(t2)
           c == Duplex!LowestFd(t3)
           d == Duplex!LowestFd(t4)
<1>2. fd_direct = <<a, b>> /\ fd_back = <<c, d>> /\ files = [p \in {"parent", "child"} |-> t5]
  BY <1>1
<1>3. IsFiniteSet(fds) /\ fds \subseteq Nat
  BY SeminarsAssumption
<1>4. DOMAIN t1 = fds /\ IsFiniteSet(DOMAIN t1) /\ DOMAIN t1 \subseteq Nat
  BY <1>3
<1> HIDE DEF t1
<1>5. DOMAIN t2 = DOMAIN t1 \cup {a} /\ IsFiniteSet(DOMAIN t2) /\ DOMAIN t2 \subseteq Nat /\ Lowest(a, DOMAIN t1)
  BY ONLY <1>4, Opened
<1> HIDE DEF t2, a
<1>6. DOMAIN t3 = DOMAIN t2 \cup {b} /\ IsFiniteSet(DOMAIN t3) /\ DOMAIN t3 \subseteq Nat /\ Lowest(b, DOMAIN t2)
  BY ONLY <1>5, Opened
<1> HIDE DEF t3, b
<1>7. DOMAIN t4 = DOMAIN t3 \cup {c} /\ IsFiniteSet(DOMAIN t4) /\ DOMAIN t4 \subseteq Nat /\ Lowest(c, DOMAIN t3)
  BY ONLY <1>6, Opened
<1> HIDE DEF t4, c
<1>8. DOMAIN t5 = DOMAIN t4 \cup {d} /\ Lowest(d, DOMAIN t4)
  BY ONLY <1>7, Opened
<1> HIDE DEF t5, d
<1>9. DOMAIN t2 = fds \cup {a} /\ DOMAIN t3 = fds \cup {a, b} /\ DOMAIN t4 = fds \cup {a, b, c} /\ DOMAIN t5 = fds \cup {a, b, c, d}
  BY <1>4, <1>5, <1>6, <1>7, <1>8
<1>10. fd_direct[1] = a /\ fd_direct[2] = b /\ fd_back[1] = c /\ fd_back[2] = d
  BY <1>2
<1>11. Numbered(fds, fd_direct, fd_back)
  BY <1>3, <1>4, <1>5, <1>6, <1>7, <1>8, <1>9, <1>10 DEF Numbered, NumberedBy
<1>12. pp = "close" /\ blocks = 0 /\ out = <<>> /\ size \in Files
  BY DEF Duplex!Init
<1>13. DuplexFiles(fds)
  BY <1>2, <1>9, <1>10, <1>12 DEF DuplexFiles
<1>14. DuplexTyped /\ DuplexRounds
  BY <1>12, SeminarsAssumption DEF DuplexTyped, DuplexRounds
<1>15. QED
  BY <1>11, <1>13, <1>14 DEF DuplexInv, DuplexDescriptors

\* The two files get the numbers of the two ends that have been closed.
LEMMA FilesGetNumbers ==
  ASSUME NEW T, NEW a, NEW b, NEW c, NEW d, NumberedBy(T, a, b, c, d), NEW t, DOMAIN t = T \cup {b, c}
  PROVE  ReadsAndWrites(Duplex!With(Duplex!With(t, "input"), "output"), a, d)
<1> DEFINE u == Duplex!With(Duplex!With(t, "input"), "output")
<1>1. /\ Lowest(a, T) /\ Lowest(b, T \cup {a}) /\ Lowest(c, T \cup {a, b}) /\ Lowest(d, T \cup {a, b, c})
      /\ IsFiniteSet(T) /\ T \subseteq Nat
  BY DEF NumberedBy
<1> DEFINE v == Duplex!With(t, "input")
<1>2. IsFiniteSet(DOMAIN t) /\ DOMAIN t \subseteq Nat
  <2>1. IsFiniteSet(T \cup {b}) /\ IsFiniteSet((T \cup {b}) \cup {c})
    BY <1>1, FS_AddElement
  <2>2. (T \cup {b}) \cup {c} = DOMAIN t
    OBVIOUS
  <2>3. QED
    BY <1>1, <2>1, <2>2 DEF Lowest
<1>3. Lowest(a, DOMAIN t)
  BY <1>1 DEF Lowest
<1>4. Duplex!LowestFd(t) = a
  BY <1>2, <1>3, LowestFree, LowestUnique
<1>5. DOMAIN v = T \cup {a, b, c} /\ v[a] = "input" /\ IsFiniteSet(DOMAIN v) /\ DOMAIN v \subseteq Nat
  <2>1. DOMAIN t = T \cup {b, c} /\ T \cup {b, c} \cup {a} = T \cup {a, b, c}
    OBVIOUS
  <2>2. QED
    BY ONLY <1>2, <1>4, <2>1, Opened
<1>6. u = Duplex!With(v, "output")
  OBVIOUS
<1> HIDE DEF v, u
<1>7. Duplex!LowestFd(v) = d
  <2>1. Lowest(d, DOMAIN v) /\ IsFiniteSet(DOMAIN v) /\ DOMAIN v \subseteq Nat
    BY <1>1, <1>5
  <2>2. Lowest(Duplex!LowestFd(v), DOMAIN v)
    BY ONLY <2>1, LowestFree
  <2>3. QED
    BY ONLY <2>1, <2>2, LowestUnique
<1>8. DOMAIN u = DOMAIN v \cup {d} /\ u[d] = "output" /\ \A k \in DOMAIN v : u[k] = v[k]
  <2>1. DOMAIN Duplex!With(v, "output") = DOMAIN v \cup {Duplex!LowestFd(v)}
        /\ Duplex!With(v, "output")[Duplex!LowestFd(v)] = "output"
        /\ \A k \in DOMAIN v : Duplex!With(v, "output")[k] = v[k]
    BY ONLY <1>5, Opened
  <2>2. QED
    BY <1>6, <1>7, <2>1
<1>9. QED
  BY <1>5, <1>8 DEF u, ReadsAndWrites

\* The child changes its own descriptors only.
LEMMA DuplexChildSteps ==
  ASSUME DuplexInv, Duplex!ChildProc
  PROVE  UNCHANGED <<fd_direct, fd_back, size, blocks, data, pp, out>> /\ files'["parent"] = files["parent"]
         /\ DOMAIN files' = DOMAIN files /\ files' = [p \in {"parent", "child"} |-> files'[p]]
<1>1. PICK T : DuplexFiles(T)
  BY DEF DuplexInv, DuplexDescriptors
<1>2. files = [p \in {"parent", "child"} |-> files[p]]
  BY <1>1 DEF DuplexFiles
<1>3. ASSUME NEW S, files' = [files EXCEPT !["child"] = Duplex!Without(@, S)]
      PROVE  /\ files'["parent"] = files["parent"]
             /\ DOMAIN files' = DOMAIN files /\ files' = [p \in {"parent", "child"} |-> files'[p]]
  BY <1>2, <1>3
<1>4. CASE Duplex!C_Close
  BY <1>3, <1>4 DEF Duplex!C_Close, Duplex!duplex
<1>5. CASE Duplex!C_Echo
  BY <1>2, <1>3, <1>5 DEF Duplex!C_Echo, Duplex!duplex
<1>6. QED
  BY <1>4, <1>5 DEF Duplex!ChildProc

\* The parent changes its own descriptors when it closes and opens.
LEMMA DuplexParentFiles == DuplexInv /\ Duplex!ParentProc => DuplexDescriptors'
<1> SUFFICES ASSUME DuplexInv, Duplex!ParentProc PROVE DuplexDescriptors'
  OBVIOUS
<1>1. PICK T : Numbered(T, fd_direct, fd_back) /\ DuplexFiles(T)
  BY DEF DuplexInv, DuplexDescriptors
<1>2. fd_direct' = fd_direct /\ fd_back' = fd_back
  BY DEF Duplex!ParentProc, Duplex!P_Close, Duplex!P_Open, Duplex!P_Read, Duplex!P_Send, Duplex!P_Receive,
         Duplex!P_Write, Duplex!P_CloseAll, Duplex!P_Wait, Duplex!duplex
<1>3. SUFFICES DuplexFiles(T)'
  BY <1>1, <1>2 DEF DuplexDescriptors, Numbered
<1>4. files = [p \in {"parent", "child"} |-> files[p]]
  BY <1>1 DEF DuplexFiles
<1>5. ASSUME NEW mine, files' = [files EXCEPT !["parent"] = mine]
      PROVE  DOMAIN files' = {"parent", "child"} /\ files' = [p \in {"parent", "child"} |-> files'[p]] /\ files'["parent"] = mine
  BY <1>4, <1>5
<1>6. CASE Duplex!P_Close
  <2> DEFINE mine == Duplex!Without(files["parent"], {fd_direct[1], fd_back[2]})
  <2>1. pp = "close" /\ pp' = "open" /\ files' = [files EXCEPT !["parent"] = mine]
    BY <1>6 DEF Duplex!P_Close, Duplex!CloseParentPipes
  <2>2. DOMAIN files["parent"] = T \cup {fd_direct[1], fd_direct[2], fd_back[1], fd_back[2]}
    BY <1>1, <2>1 DEF DuplexFiles
  <2>3. DOMAIN mine = DOMAIN files["parent"] \ {fd_direct[1], fd_back[2]}
    BY ONLY Closed
  <2>4. DOMAIN mine = T \cup {fd_direct[2], fd_back[1]}
    BY <1>1, <2>2, <2>3 DEF Numbered, NumberedBy, Lowest
  <2> HIDE DEF mine
  <2>5. QED
    BY <1>2, <1>5, <2>1, <2>4 DEF DuplexFiles
<1>7. CASE Duplex!P_Open
  <2> DEFINE mine == Duplex!With(Duplex!With(files["parent"], "input"), "output")
  <2>1. pp = "open" /\ DOMAIN files["parent"] = T \cup {fd_direct[2], fd_back[1]}
    BY <1>1, <1>7 DEF Duplex!P_Open, DuplexFiles
  <2>2. CASE pp' = "read" /\ files' = [files EXCEPT !["parent"] = mine]
    <3>1. NumberedBy(T, fd_direct[1], fd_direct[2], fd_back[1], fd_back[2])
      BY <1>1 DEF Numbered
    <3>2. ReadsAndWrites(mine, fd_direct[1], fd_back[2])
      BY ONLY <2>1, <3>1, FilesGetNumbers
    <3> HIDE DEF mine
    <3>3. QED
      BY <1>2, <1>5, <2>2, <3>2 DEF DuplexFiles
  <2>3. CASE pp' = "failed" /\ \E other : files' = [files EXCEPT !["parent"] = other]
    BY <1>5, <2>3 DEF DuplexFiles
  <2>4. QED
    BY <1>7, <2>2, <2>3 DEF Duplex!P_Open
<1>8. CASE Duplex!P_CloseAll
  <2>1. pp' = "wait" /\ files' = [files EXCEPT !["parent"] = Duplex!Without(files["parent"], Duplex!CloseAllPipes)]
    BY <1>8 DEF Duplex!P_CloseAll
  <2>2. QED
    BY <1>5, <2>1 DEF DuplexFiles
<1>9. CASE Duplex!P_Read \/ Duplex!P_Send \/ Duplex!P_Receive \/ Duplex!P_Write \/ Duplex!P_Wait
  <2>1. /\ files' = files /\ pp' \in {"read", "send", "receive", "write", "end", "done"}
        /\ pp \in {"read", "send", "receive", "write", "wait"} /\ (pp = "wait" => pp' = "done")
    BY <1>9 DEF Duplex!P_Read, Duplex!P_Send, Duplex!P_Receive, Duplex!P_Write, Duplex!P_Wait
  <2>2. QED
    BY <1>1, <1>2, <2>1 DEF DuplexFiles
<1>10. QED
  BY <1>6, <1>7, <1>8, <1>9 DEF Duplex!ParentProc

\* Where the parent reads from and writes to while it copies.
LEMMA DuplexObjects ==
  ASSUME DuplexInv, pp \in {"read", "send", "receive", "write"}
  PROVE  Duplex!Object("parent", fd_direct[1]) = "input" /\ Duplex!Object("parent", fd_back[2]) = "output"
<1>1. PICK T : DuplexFiles(T)
  BY DEF DuplexInv, DuplexDescriptors
<1>2. QED
  BY <1>1 DEF DuplexFiles, ReadsAndWrites, Duplex!Object

\* The parent reads its file in blocks of the buffer's size and sends each, then
\* reads what comes back.
LEMMA DuplexParentData == DuplexInv /\ Duplex!ParentProc => DuplexTyped' /\ DuplexRounds'
<1> SUFFICES ASSUME DuplexInv, Duplex!ParentProc PROVE DuplexTyped' /\ DuplexRounds'
  OBVIOUS
<1>0. DuplexTyped /\ DuplexRounds /\ Full \in Nat \ {0}
  BY SeminarsAssumption DEF DuplexInv
<1> DEFINE k == Len(out)
           n == Len(size)
<1>1. CASE Duplex!P_Close \/ Duplex!P_Open
  <2>1. UNCHANGED <<size, blocks, out, data>> /\ pp \in {"close", "open"} /\ pp' \in {"open", "read", "failed"}
    BY <1>1 DEF Duplex!P_Close, Duplex!P_Open, Duplex!duplex
  <2>2. QED
    BY <1>0, <2>1 DEF DuplexTyped, DuplexRounds
<1>2. CASE Duplex!P_CloseAll \/ Duplex!P_Wait
  <2>1. UNCHANGED <<size, blocks, out, data>> /\ pp \in {"end", "wait"} /\ pp' \in {"wait", "done"}
    BY <1>2 DEF Duplex!P_CloseAll, Duplex!P_Wait, Duplex!duplex
  <2>2. QED
    BY <1>0, <2>1 DEF DuplexTyped, DuplexRounds, Copied
<1>3. CASE Duplex!P_Read
  <2>1. UNCHANGED <<size, out>> /\ pp = "read"
    BY <1>3 DEF Duplex!P_Read, Duplex!duplex
  <2>2. CASE blocks < n
    <3>1. blocks' = blocks + 1 /\ data' = blocks' /\ pp' = "send"
      BY <1>3, <2>2 DEF Duplex!P_Read
    <3>2. k = blocks /\ blocks \in Nat /\ n \in Nat /\ blocks % 2 = 0
      BY <1>0, <2>1 DEF DuplexTyped, DuplexRounds
    <3>3. (blocks + 1) % 2 = 1 /\ blocks + 1 \in 0..n
      BY <2>2, <3>2
    <3>4. QED
      BY <1>0, <2>1, <3>1, <3>2, <3>3 DEF DuplexTyped, DuplexRounds
  <2>3. CASE ~(blocks < n)
    <3>1. pp' = "end" /\ UNCHANGED <<blocks, data>>
      BY <1>3, <2>3 DEF Duplex!P_Read
    <3>2. k = n /\ (n > 0 => size[n] = Full)
      BY <1>0, <2>1, <2>3 DEF DuplexTyped, DuplexRounds
    <3>3. k = Copied(n)
      BY <1>0, <3>2 DEF Copied
    <3>4. QED
      BY <1>0, <2>1, <3>1, <3>3 DEF DuplexTyped, DuplexRounds, Copied
  <2>4. QED
    BY <2>2, <2>3
<1>4. CASE Duplex!P_Send
  <2>1. pp = "send" /\ pp' = "receive" /\ out' = Append(out, data) /\ UNCHANGED <<size, blocks, data>>
    BY <1>4, DuplexObjects DEF Duplex!P_Send, Duplex!Writes, Duplex!duplex
  <2>2. data = k + 1 /\ k + 1 = blocks /\ blocks % 2 = 1 /\ k \in Nat /\ data \in Nat
    BY <1>0, <2>1 DEF DuplexTyped, DuplexRounds
  <2>3. out' \in Seq(Nat) /\ Len(out') = k + 1 /\ \A i \in 1..k + 1 : out'[i] = i
    BY <1>0, <2>1, <2>2, AppendNext DEF DuplexTyped
  <2>4. QED
    BY <1>0, <2>1, <2>2, <2>3 DEF DuplexTyped, DuplexRounds
<1>5. CASE Duplex!P_Write
  <2>1. pp = "write" /\ pp' = "read" /\ out' = Append(out, data) /\ UNCHANGED <<size, blocks, data>>
    BY <1>5 DEF Duplex!P_Write, Duplex!duplex
  <2>2. data = k + 1 /\ k + 1 = blocks /\ blocks % 2 = 0 /\ size[blocks] = Full /\ k \in Nat /\ data \in Nat
    BY <1>0, <2>1 DEF DuplexTyped, DuplexRounds
  <2>3. out' \in Seq(Nat) /\ Len(out') = k + 1 /\ \A i \in 1..k + 1 : out'[i] = i
    BY <1>0, <2>1, <2>2, AppendNext DEF DuplexTyped
  <2>4. QED
    BY <1>0, <2>1, <2>2, <2>3 DEF DuplexTyped, DuplexRounds
<1>6. CASE Duplex!P_Receive
  <2>1. PICK got \in Duplex!ReadDuplex("parent") :
          /\ pp' = IF Duplex!Length(got) = Duplex!Length(data) THEN "write" ELSE "end"
          /\ data' = IF got > 0 THEN got ELSE data
          /\ blocks' = IF got > 0 THEN got ELSE blocks
    BY <1>6, DuplexObjects DEF Duplex!P_Receive
  <2>2. pp = "receive" /\ UNCHANGED <<size, out>>
    BY <1>6 DEF Duplex!P_Receive, Duplex!duplex
  <2>3. got = IF blocks < n THEN blocks + 1 ELSE 0
    BY <2>2, DuplexObjects DEF Duplex!ReadDuplex
  <2>4. k = blocks /\ data = blocks /\ blocks % 2 = 1 /\ blocks \in 1..n /\ n \in Nat
    BY <1>0, <2>2 DEF DuplexTyped, DuplexRounds
  <2>5. /\ \A i \in 1..n : size[i] \in 1..Full
        /\ \A i \in 1..n - 1 : size[i] = Full
    BY <1>0 DEF DuplexTyped
  <2>6. CASE blocks < n
    <3>1. got = blocks + 1 /\ blocks' = blocks + 1 /\ data' = blocks + 1 /\ (blocks + 1) % 2 = 0
      BY <2>1, <2>3, <2>4, <2>6
    <3>2. Duplex!Length(got) = size[blocks + 1] /\ Duplex!Length(data) = Full
      BY <2>4, <2>5, <2>6, <3>1 DEF Duplex!Length
    <3>3. CASE size[blocks + 1] = Full
      BY <1>0, <2>1, <2>2, <2>4, <2>6, <3>1, <3>2, <3>3 DEF DuplexTyped, DuplexRounds
    <3>4. CASE size[blocks + 1] # Full
      <4>1. blocks + 1 = n /\ size[n] < Full
        BY <1>0, <2>4, <2>5, <2>6, <3>4
      <4>2. k = Copied(n)
        BY <2>4, <3>1, <4>1 DEF Copied
      <4>3. pp' = "end"
        BY <2>1, <3>2, <3>4
      <4>4. QED
        BY <1>0, <2>2, <2>4, <2>6, <3>1, <4>2, <4>3 DEF DuplexTyped, DuplexRounds, Copied
    <3>5. QED
      BY <3>3, <3>4
  <2>7. CASE ~(blocks < n)
    <3>1. got = 0 /\ blocks' = blocks /\ blocks = n
      BY <2>1, <2>3, <2>4, <2>7
    <3>2. Duplex!Length(got) = 0 /\ Duplex!Length(data) \in 1..Full
      BY <2>4, <2>5, <3>1 DEF Duplex!Length
    <3>3. pp' = "end"
      BY <1>0, <2>1, <3>2
    <3>4. k = Copied(n)
      BY <2>4, <3>1 DEF Copied
    <3>5. QED
      BY <1>0, <2>2, <3>1, <3>3, <3>4 DEF DuplexTyped, DuplexRounds, Copied
  <2>8. QED
    BY <2>6, <2>7
<1>7. QED
  BY <1>1, <1>2, <1>3, <1>4, <1>5, <1>6 DEF Duplex!ParentProc

\* Every step of the two processes keeps the invariant.
LEMMA DuplexStepKeepsInv == DuplexInv /\ Duplex!Next => DuplexInv'
<1>1. CASE Duplex!ParentProc
  BY <1>1, DuplexParentFiles, DuplexParentData DEF DuplexInv
<1>2. ASSUME DuplexInv, Duplex!ChildProc PROVE DuplexInv'
  <2>1. UNCHANGED <<fd_direct, fd_back, size, blocks, data, pp, out>> /\ files'["parent"] = files["parent"]
        /\ DOMAIN files' = DOMAIN files /\ files' = [p \in {"parent", "child"} |-> files'[p]]
    BY <1>2, DuplexChildSteps
  <2>2. DuplexDescriptors'
    <3>1. PICK T : Numbered(T, fd_direct, fd_back) /\ DuplexFiles(T)
      BY <1>2 DEF DuplexInv, DuplexDescriptors
    <3>2. Numbered(T, fd_direct', fd_back') /\ DuplexFiles(T)'
      BY <2>1, <3>1 DEF DuplexFiles
    <3>3. QED
      BY <3>2 DEF DuplexDescriptors
  <2>3. DuplexTyped' /\ DuplexRounds'
    BY <1>2, <2>1 DEF DuplexInv, DuplexTyped, DuplexRounds, Copied
  <2>4. QED
    BY <2>2, <2>3 DEF DuplexInv
<1>3. QED
  BY <1>1, <1>2 DEF Duplex!Next

\* A step of another program, or none, keeps it too.
LEMMA DuplexUnchanged == DuplexInv /\ UNCHANGED <<duplex, pp, blocks, out>> => DuplexInv'
  BY DEF duplex, DuplexInv, DuplexDescriptors, DuplexFiles, DuplexTyped, DuplexRounds, Copied

DuplexRuns == program = "duplex_pipe" => DuplexInv

\* The invariant holds whenever it is the duplex pipe that runs.
LEMMA DuplexInvariance == SeminarsSpec => []DuplexRuns
<1>1. InitAll => DuplexRuns
  <2> SUFFICES ASSUME InitAll, program = "duplex_pipe" PROVE DuplexInv
    BY DEF DuplexRuns
  <2>1. Duplex!Init
    BY DEF InitAll, Runs
  <2>2. QED
    BY <2>1, DuplexInit
<1>2. DuplexRuns /\ [NextAll]_all => DuplexRuns'
  <2> SUFFICES ASSUME DuplexRuns, [NextAll]_all PROVE DuplexRuns'
    OBVIOUS
  <2>1. CASE DuplexStep
    BY <2>1, DuplexStepKeepsInv DEF DuplexStep, DuplexRuns, Runs
  <2>2. CASE ShmStep \/ MqStep \/ MqRunsStep \/ FifoStep \/ ShellStep \/ MonteCarloStep
    BY <2>2 DEF ShmStep, MqStep, MqRunsStep, FifoStep, ShellStep, MonteCarloStep, DuplexRuns, Runs
  <2>3. CASE UNCHANGED all
    BY <2>3, DuplexUnchanged DEF all, copy, DuplexRuns
  <2>4. QED
    BY <2>1, <2>2, <2>3 DEF NextAll
<1>3. QED
  BY <1>1, <1>2, PTL DEF SeminarsSpec

\* Whatever descriptors the program starts with and whatever the lengths of the blocks
\* are: the copy is in order and lacks at most a short block at an even place.
THEOREM DuplexLosesOnlyEnd == SeminarsSpec => []DuplexLosesOnlyShortEnd
<1>1. ASSUME DuplexInv PROVE Duplex!LosesOnlyShortEnd
  <2>1. out = [i \in 1..Len(out) |-> i]
    <3>1. out = [i \in 1..Len(out) |-> out[i]] /\ \A i \in 1..Len(out) : out[i] = i
      BY <1>1 DEF DuplexInv, DuplexTyped
    <3>2. QED
      BY <3>1
  <2>2. pp \in {"wait", "done"} => Len(out) = Copied(Len(size))
    BY <1>1 DEF DuplexInv, DuplexRounds
  <2>3. QED
    BY <2>1, <2>2 DEF Copied, Duplex!LosesOnlyShortEnd
<1>2. DuplexRuns => DuplexLosesOnlyShortEnd
  BY <1>1 DEF DuplexRuns, Runs, DuplexLosesOnlyShortEnd
<1>3. QED
  BY <1>2, DuplexInvariance, PTL

-----------------------------------------------------------------------------
(* DuplexPipe never gets stuck: at the end nobody can write to the child's pipe. *)

\* The only descriptor of the writing end is the one that pipe() has returned.
OneWriter(t) == \A fd \in DOMAIN t : t[fd] = "direct in" => fd = fd_direct[2]

\* open() adds none, close() neither.
LEMMA OpenedNoWriter ==
  ASSUME NEW t, OneWriter(t), NEW what, what # "direct in"
  PROVE  OneWriter(Duplex!With(t, what))
  BY DEF OneWriter, Duplex!With

LEMMA ClosedNoWriter ==
  ASSUME NEW t, OneWriter(t), NEW S
  PROVE  OneWriter(Duplex!Without(t, S)) /\ \A fd \in S : fd \notin DOMAIN Duplex!Without(t, S)
  BY DEF OneWriter, Duplex!Without

\* Each process has closed it before it waits, and the parent waits for the child.
DuplexWriters ==
  /\ OneWriter(files["parent"]) /\ OneWriter(files["child"])
  /\ cp \in {"close", "receive", "exited"}
  /\ cp # "close" => fd_direct[2] \notin DOMAIN files["child"]
  /\ pp \in {"wait", "done", "failed"} => fd_direct[2] \notin DOMAIN files["parent"]
  /\ pp = "done" => cp = "exited"

\* Of the ends that fork() has copied, one can write to the child's pipe.
LEMMA DuplexWritersInit == Duplex!Init => DuplexWriters
<1> SUFFICES ASSUME Duplex!Init PROVE DuplexWriters
  OBVIOUS
<1>1. PICK fds \in Inherited :
        LET t1 == [fd \in fds |-> "other"]
            t2 == Duplex!With(t1, "direct out")   t3 == Duplex!With(t2, "direct in")
            t4 == Duplex!With(t3, "back out")     t5 == Duplex!With(t4, "back in")
        IN /\ fd_direct = <<Duplex!LowestFd(t1), Duplex!LowestFd(t2)>>
           /\ fd_back   = <<Duplex!LowestFd(t3), Duplex!LowestFd(t4)>>
           /\ files = [p \in {"parent", "child"} |-> t5]
  BY DEF Duplex!Init
<1> DEFINE t1 == [fd \in fds |-> "other"]
           t2 == Duplex!With(t1, "direct out")
           t3 == Duplex!With(t2, "direct in")
           t4 == Duplex!With(t3, "back out")
           t5 == Duplex!With(t4, "back in")
<1>2. fd_direct[2] = Duplex!LowestFd(t2) /\ files["parent"] = t5 /\ files["child"] = t5
  BY <1>1
<1>3. OneWriter(t3)
  <2>1. \A fd \in DOMAIN t2 : t2[fd] # "direct in"
    BY DEF Duplex!With
  <2> HIDE DEF t2
  <2>2. QED
    BY <1>2, <2>1 DEF OneWriter, Duplex!With
<1> HIDE DEF t3
<1>4. OneWriter(t4)
  BY <1>3, OpenedNoWriter
<1> HIDE DEF t4
<1>5. OneWriter(t5)
  BY <1>4, OpenedNoWriter
<1>6. pp = "close" /\ cp = "close"
  BY DEF Duplex!Init
<1>7. QED
  BY <1>2, <1>5, <1>6 DEF DuplexWriters

\* Every step of the two processes keeps this.
LEMMA DuplexStepKeepsWriters == DuplexInv /\ DuplexWriters /\ Duplex!Next => DuplexWriters'
<1> SUFFICES ASSUME DuplexInv, DuplexWriters, Duplex!Next PROVE DuplexWriters'
  OBVIOUS
<1>1. files = [p \in {"parent", "child"} |-> files[p]]
  BY DEF DuplexInv, DuplexDescriptors, DuplexFiles
<1>2. fd_direct' = fd_direct
  BY DEF Duplex!Next, Duplex!ParentProc, Duplex!P_Close, Duplex!P_Open, Duplex!P_Read, Duplex!P_Send, Duplex!P_Receive,
         Duplex!P_Write, Duplex!P_CloseAll, Duplex!P_Wait, Duplex!ChildProc, Duplex!C_Close, Duplex!C_Echo, Duplex!duplex
<1>3. ASSUME NEW p \in {"parent", "child"}, NEW S, files' = [files EXCEPT ![p] = Duplex!Without(@, S)]
      PROVE  /\ OneWriter(files["parent"])' /\ OneWriter(files["child"])'
             /\ \A q \in {"parent", "child"} : q # p => files'[q] = files[q]
             /\ fd_direct[2] \in S => fd_direct[2] \notin DOMAIN files'[p]
  <2>1. files'[p] = Duplex!Without(files[p], S) /\ \A q \in {"parent", "child"} : q # p => files'[q] = files[q]
    BY <1>1, <1>3
  <2>2. /\ OneWriter(files'[p]) /\ \A q \in {"parent", "child"} : q # p => OneWriter(files'[q])
        /\ fd_direct[2] \in S => fd_direct[2] \notin DOMAIN files'[p]
    BY <2>1, ClosedNoWriter DEF DuplexWriters
  <2>3. QED
    BY <1>2, <2>1, <2>2 DEF OneWriter
<1>4. fd_direct[2] \in Duplex!CloseAllPipes /\ fd_direct[2] \in Duplex!CloseChildPipes
  BY DEF Duplex!CloseAllPipes, Duplex!CloseChildPipes
<1>5. CASE Duplex!P_Close
  <2>1. /\ pp = "close" /\ pp' = "open" /\ cp' = cp
        /\ files' = [files EXCEPT !["parent"] = Duplex!Without(@, Duplex!CloseParentPipes)]
    BY <1>5 DEF Duplex!P_Close
  <2>2. QED
    BY <1>2, <1>3, <2>1 DEF DuplexWriters
<1>6. CASE Duplex!P_Open
  <2>1. pp = "open" /\ cp' = cp
    BY <1>6 DEF Duplex!P_Open
  <2>2. CASE pp' = "read" /\ files' = [files EXCEPT !["parent"] = Duplex!With(Duplex!With(@, "input"), "output")]
    <3>1. files'["parent"] = Duplex!With(Duplex!With(files["parent"], "input"), "output") /\ files'["child"] = files["child"]
      BY <1>1, <2>2
    <3>2. OneWriter(Duplex!With(files["parent"], "input"))
      BY OpenedNoWriter DEF DuplexWriters
    <3>3. OneWriter(files'["parent"])
      BY <3>1, <3>2, OpenedNoWriter
    <3>4. QED
      BY <1>2, <2>1, <2>2, <3>1, <3>3 DEF DuplexWriters, OneWriter
  <2>3. CASE pp' = "failed" /\ files' = [files EXCEPT !["parent"] = Duplex!Without(@, Duplex!CloseAllPipes)]
    BY <1>2, <1>3, <1>4, <2>1, <2>3 DEF DuplexWriters
  <2>4. QED
    BY <1>6, <2>2, <2>3 DEF Duplex!P_Open
<1>7. CASE Duplex!P_CloseAll
  <2>1. /\ pp' = "wait" /\ cp' = cp
        /\ files' = [files EXCEPT !["parent"] = Duplex!Without(@, Duplex!CloseAllPipes)]
    BY <1>7 DEF Duplex!P_CloseAll
  <2>2. QED
    BY <1>2, <1>3, <1>4, <2>1 DEF DuplexWriters
<1>8. CASE Duplex!P_Read \/ Duplex!P_Send \/ Duplex!P_Receive \/ Duplex!P_Write \/ Duplex!P_Wait
  <2>1. /\ files' = files /\ cp' = cp /\ pp' \in {"read", "send", "receive", "write", "end", "done"}
        /\ pp' = "done" => pp = "wait" /\ cp = "exited"
    BY <1>8 DEF Duplex!P_Read, Duplex!P_Send, Duplex!P_Receive, Duplex!P_Write, Duplex!P_Wait
  <2>2. QED
    BY <1>2, <2>1 DEF DuplexWriters, OneWriter
<1>9. CASE Duplex!C_Close
  <2>1. /\ cp = "close" /\ cp' = "receive" /\ pp' = pp
        /\ files' = [files EXCEPT !["child"] = Duplex!Without(@, Duplex!CloseChildPipes)]
    BY <1>9 DEF Duplex!C_Close
  <2>2. QED
    BY <1>2, <1>3, <1>4, <2>1 DEF DuplexWriters
<1>10. CASE Duplex!C_Echo
  <2>1. /\ cp = "receive" /\ pp' = pp
        /\ \/ UNCHANGED <<files, cp>>
           \/ cp' = "exited" /\ files' = [files EXCEPT !["child"] = Duplex!Without(@, Duplex!CloseAllPipes)]
    BY <1>10 DEF Duplex!C_Echo
  <2>2. CASE UNCHANGED <<files, cp>>
    BY <1>2, <2>1, <2>2 DEF DuplexWriters, OneWriter
  <2>3. CASE cp' = "exited" /\ files' = [files EXCEPT !["child"] = Duplex!Without(@, Duplex!CloseAllPipes)]
    BY <1>2, <1>3, <1>4, <2>1, <2>3 DEF DuplexWriters
  <2>4. QED
    BY <2>1, <2>2, <2>3
<1>11. QED
  BY <1>5, <1>6, <1>7, <1>8, <1>9, <1>10 DEF Duplex!Next, Duplex!ParentProc, Duplex!ChildProc

DuplexRunsWriters == program = "duplex_pipe" => DuplexInv /\ DuplexWriters

\* So it is in every state of the duplex pipe.
LEMMA DuplexWritersInvariance == SeminarsSpec => []DuplexRunsWriters
<1>1. InitAll /\ DuplexRuns => DuplexRunsWriters
  BY DuplexWritersInit DEF InitAll, Runs, DuplexRuns, DuplexRunsWriters
<1>2. DuplexRunsWriters /\ DuplexRuns' /\ [NextAll]_all => DuplexRunsWriters'
  <2> SUFFICES ASSUME DuplexRunsWriters, DuplexRuns', [NextAll]_all, program' = "duplex_pipe" PROVE DuplexWriters'
    BY DEF DuplexRuns, DuplexRunsWriters
  <2>1. CASE DuplexStep
    BY <2>1, DuplexStepKeepsWriters DEF DuplexStep, DuplexRunsWriters, Runs
  <2>2. CASE ShmStep \/ MqStep \/ MqRunsStep \/ FifoStep \/ ShellStep \/ MonteCarloStep
    BY <2>2 DEF ShmStep, MqStep, MqRunsStep, FifoStep, ShellStep, MonteCarloStep, Runs
  <2>3. CASE UNCHANGED all
    BY <2>3 DEF all, copy, duplex, DuplexRunsWriters, DuplexWriters, OneWriter
  <2>4. QED
    BY <2>1, <2>2, <2>3 DEF NextAll
<1>3. QED
  BY <1>1, <1>2, DuplexInvariance, PTL DEF SeminarsSpec

\* What moves a process: each is the guard of one of its actions.
DuplexParentMoves ==
  \/ pp \in {"close", "open", "read", "send", "write", "end"}
  \/ pp = "receive" /\ Duplex!ReadDuplex("parent") # {}
  \/ pp = "wait" /\ cp = "exited"
DuplexChildMoves ==
  \/ cp = "close"
  \/ cp = "receive" /\ Duplex!ReadDuplex("child") # {}

\* The parent never sleeps in read(), since it reads its file there, and the child
\* not for ever, since nobody holds the writing end when the parent waits or has left.
DuplexNoDeadlock == Runs("duplex_pipe") => DuplexParentMoves \/ DuplexChildMoves \/ Duplex!Ended

\* Whatever file and inherited descriptors: the two processes of DuplexPipe go on until
\* both have ended.
THEOREM DuplexNeverStuck == SeminarsSpec => []DuplexNoDeadlock
<1>1. ASSUME DuplexInv, DuplexWriters, ~DuplexParentMoves, ~DuplexChildMoves PROVE Duplex!Ended
  <2>1. pp # "receive"
    <3> SUFFICES ASSUME pp = "receive" PROVE FALSE
      OBVIOUS
    <3>1. Duplex!Object("parent", fd_direct[1]) = "input"
      BY <1>1, DuplexObjects
    <3>2. QED
      BY <1>1, <3>1 DEF DuplexParentMoves, Duplex!ReadDuplex
  <2>2. pp \in {"wait", "done", "failed"}
    BY <1>1, <2>1 DEF DuplexInv, DuplexTyped, DuplexParentMoves
  <2>3. cp # "receive"
    <3> SUFFICES ASSUME cp = "receive" PROVE FALSE
      OBVIOUS
    <3>1. DOMAIN files = {"parent", "child"}
      BY <1>1 DEF DuplexInv, DuplexDescriptors, DuplexFiles
    <3>2. \A p \in {"parent", "child"} : \A fd \in DOMAIN files[p] : files[p][fd] # "direct in"
      BY <1>1, <2>2 DEF DuplexWriters, OneWriter
    <3>3. Duplex!NoWriter
      BY <3>1, <3>2 DEF Duplex!NoWriter, Duplex!Range
    <3>4. {0 : x \in {n \in {0} : Duplex!NoWriter}} # {}
      BY <3>3
    <3>5. QED
      BY <1>1, <3>4 DEF DuplexChildMoves, Duplex!ReadDuplex
  <2>4. cp = "exited"
    BY <1>1, <2>3 DEF DuplexWriters, DuplexChildMoves
  <2>5. QED
    BY <1>1, <2>2, <2>4 DEF DuplexParentMoves, Duplex!Ended
<1>2. DuplexRunsWriters => DuplexNoDeadlock
  BY <1>1 DEF DuplexRunsWriters, Runs, DuplexNoDeadlock
<1>3. QED
  BY <1>2, DuplexWritersInvariance, PTL

=============================================================================
