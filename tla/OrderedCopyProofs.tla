------------------------- MODULE OrderedCopyProofs -------------------------
(* Proofs about the abstract copy, for a file of any length. *)
EXTENDS OrderedCopy, TLAPS

\* Every block before a block of the output has been settled.
NoneSkipped == \A b \in Range(output) : \A a \in 1..(b - 1) : a \in Settled

IInv == TypeOK /\ PrefixUnlessLost /\ InOrder /\ NoneSkipped

\* Writing one more block keeps the output in order.
LEMMA OutputPut ==
  ASSUME NEW S, NEW s \in Seq(S), NEW b
  PROVE  /\ Len(Append(s, b)) = Len(s) + 1 /\ Len(s) \in Nat
         /\ \A i \in 1..Len(s) : Append(s, b)[i] = s[i] /\ s[i] \in Range(s)
         /\ Append(s, b)[Len(s) + 1] = b
         /\ Range(Append(s, b)) = Range(s) \cup {b}
<1>1. /\ Len(Append(s, b)) = Len(s) + 1 /\ Len(s) \in Nat
      /\ DOMAIN s = 1..Len(s) /\ DOMAIN Append(s, b) = 1..(Len(s) + 1)
      /\ \A i \in 1..Len(s) : Append(s, b)[i] = s[i]
      /\ Append(s, b)[Len(s) + 1] = b
  OBVIOUS
<1>2. QED
  BY <1>1 DEF Range

\* Nothing is written at the start.
LEMMA InitInvariant ==
  ASSUME Total \in Nat, Init
  PROVE  IInv
<1>1. Range(output) = {} /\ Len(output) = 0
  BY DEF Init, Range
<1>2. TypeOK
  BY DEF Init, TypeOK
<1>3. QED
  BY <1>1, <1>2 DEF IInv, PrefixUnlessLost, InOrder, NoneSkipped

\* A block that is written is the next one.
LEMMA PutStep ==
  ASSUME IInv, NEW b \in 1..taken, Put(b)
  PROVE  IInv'
<1> USE DEF IInv, Settled
<1>1. /\ b \notin Range(output) /\ b \notin lost /\ b \in Nat /\ b > 0
      /\ \A a \in 1..(b - 1) : a \in Range(output) \cup lost
      /\ output' = Append(output, b) /\ taken' = taken /\ lost' = lost
  BY DEF Put, TypeOK
<1>2. /\ Len(output') = Len(output) + 1 /\ Len(output) \in Nat
      /\ \A i \in 1..Len(output) : output'[i] = output[i] /\ output[i] \in Range(output)
      /\ output'[Len(output) + 1] = b
      /\ Range(output') = Range(output) \cup {b}
  BY <1>1, OutputPut DEF TypeOK
<1>3. TypeOK'
  BY <1>1 DEF TypeOK
<1>4. NoneSkipped'
  BY <1>1, <1>2 DEF NoneSkipped
<1>5. InOrder'
  <2>1. \A a \in Range(output) : a \in Nat /\ a < b
    <3> SUFFICES ASSUME NEW a \in Range(output), ~(a < b) PROVE FALSE
      BY DEF TypeOK, Range
    <3>1. a \in Nat /\ a # b
      BY <1>1 DEF TypeOK, Range
    <3>2. b \in 1..(a - 1)
      BY <1>1, <3>1
    <3>3. QED
      BY <1>1, <3>2 DEF NoneSkipped
  <2>2. QED
    BY <1>2, <2>1 DEF InOrder
<1>6. PrefixUnlessLost'
  <2> SUFFICES ASSUME lost = {} PROVE \A i \in 1..Len(output') : output'[i] = i
    BY <1>1 DEF PrefixUnlessLost
  <2>1. \A i \in 1..Len(output) : output[i] = i /\ i \in Range(output)
    BY <1>2 DEF PrefixUnlessLost
  <2>2. \A a \in Range(output) : a \in 1..Len(output)
    <3>1. DOMAIN output = 1..Len(output)
      BY DEF TypeOK
    <3>2. QED
      BY <2>1, <3>1 DEF Range
  <2>3. b > Len(output)
    BY <1>1, <1>2, <2>1
  <2>4. b <= Len(output) + 1
    <3>1. CASE b > Len(output) + 1
      <4>1. Len(output) + 1 \in 1..(b - 1)
        BY <1>1, <1>2, <3>1
      <4>2. QED
        BY <1>1, <1>2, <2>2, <4>1
    <3>2. QED
      BY <1>1, <1>2, <3>1
  <2>5. QED
    BY <1>1, <1>2, <2>1, <2>3, <2>4
<1>7. QED
  BY <1>3, <1>4, <1>5, <1>6

\* Every step keeps the invariant.
LEMMA NextStep ==
  ASSUME Total \in Nat, IInv, [Next]_vars
  PROVE  IInv'
<1>1. CASE Take
  <2>1. TypeOK'
    BY <1>1 DEF IInv, Take, TypeOK
  <2>2. QED
    BY <1>1, <2>1 DEF IInv, Take, PrefixUnlessLost, InOrder, NoneSkipped, Settled
<1>2. ASSUME NEW b \in 1..taken, Put(b) PROVE IInv'
  BY <1>2, PutStep
<1>3. ASSUME NEW B \in SUBSET (1..taken), Lose(B) PROVE IInv'
  BY <1>3 DEF IInv, Lose, TypeOK, PrefixUnlessLost, InOrder, NoneSkipped, Settled
<1>4. CASE UNCHANGED vars
  BY <1>4 DEF IInv, vars, TypeOK, PrefixUnlessLost, InOrder, NoneSkipped, Settled
<1>5. QED
  BY <1>1, <1>2, <1>3, <1>4 DEF Next

\* Unless a block is lost the output file is a prefix of the input file.
THEOREM OutputIsPrefix ==
  ASSUME Total \in Nat
  PROVE  Spec => []PrefixUnlessLost
<1>1. Init => IInv
  BY InitInvariant
<1>2. IInv /\ [Next]_vars => IInv'
  BY NextStep
<1>3. IInv => PrefixUnlessLost
  BY DEF IInv
<1>4. QED
  BY <1>1, <1>2, <1>3, PTL DEF Spec

\* An ordered copy writes the blocks in the order of the input, each once.
THEOREM OutputInOrder ==
  ASSUME Total \in Nat
  PROVE  Spec => []InOrder
<1>1. Init => IInv
  BY InitInvariant
<1>2. IInv /\ [Next]_vars => IInv'
  BY NextStep
<1>3. IInv => InOrder
  BY DEF IInv
<1>4. QED
  BY <1>1, <1>2, <1>3, PTL DEF Spec

=============================================================================
