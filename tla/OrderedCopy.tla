---------------------------- MODULE OrderedCopy ----------------------------
(***************************************************************************)
(* What every copying program of the course promises at most: the producer *)
(* takes the blocks 1..Total of the input file one after another, and the  *)
(* consumer puts them into the output file.  A block may be lost on the    *)
(* way, but a block is put only when every earlier block has been put or   *)
(* has been lost, so the output never shows reordered or repeated blocks.  *)
(***************************************************************************)
EXTENDS Integers, Sequences, Functions

CONSTANT Total     \* the number of blocks of the input file

VARIABLES
  taken,   \* the number of blocks read from the input file so far
  output,  \* the blocks in the output file, in file order
  lost     \* the blocks read that will never reach the output file

vars == <<taken, output, lost>>

Settled == Range(output) \cup lost

Init ==
  /\ taken = 0
  /\ output = <<>>
  /\ lost = {}

Take ==
  /\ taken < Total
  /\ taken' = taken + 1
  /\ UNCHANGED <<output, lost>>

Put(b) ==
  /\ b \notin Settled
  /\ \A a \in 1..(b - 1) : a \in Settled
  /\ output' = Append(output, b)
  /\ UNCHANGED <<taken, lost>>

Lose(B) ==
  /\ B \cap Settled = {}
  /\ lost' = lost \cup B
  /\ UNCHANGED <<taken, output>>

Next ==
  \/ Take
  \/ \E b \in 1..taken : Put(b)
  \/ \E B \in SUBSET (1..taken) : Lose(B)

Spec == Init /\ [][Next]_vars

-----------------------------------------------------------------------------
TypeOK ==
  /\ taken \in 0..Total
  /\ output \in Seq(1..taken)
  /\ lost \subseteq 1..taken

\* As long as nothing is lost, the output file is a prefix of the input file:
\* what the md5 comparison of the course's run.sh scripts amounts to.
PrefixUnlessLost == lost = {} => \A i \in 1..Len(output) : output[i] = i

\* Whatever is lost, write order is read order and no block is written twice.
InOrder == \A i, j \in 1..Len(output) : i < j => output[i] < output[j]

=============================================================================
