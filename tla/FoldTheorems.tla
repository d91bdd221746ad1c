--------------------------- MODULE FoldTheorems ---------------------------
(* What the library's recursive functions compute, for arguments of any size:   *)
(* the sum over the domain of a function, in whatever order the elements are    *)
(* taken (FoldFunction), and the concatenation of sequences (FlattenSeq).  The  *)
(* inductions have a set in the place of the usual operator.                    *)
EXTENDS Integers, Sequences, FiniteSets, FiniteSetTheorems, SequenceTheorems, TLAPS

Pick(s) == CHOOSE x \in s : TRUE

\* What the fold is computed by: the sums over all parts of the domain, each from
\* the sum without the element that is taken first.
IsSum(sum, fun) ==
  sum = [s \in SUBSET DOMAIN fun |-> IF s = {} THEN 0 ELSE fun[Pick(s)] + sum[s \ {Pick(s)}]]

SumOf(fun) == (CHOOSE sum : IsSum(sum, fun))[DOMAIN fun]

\* The sums over all parts of the domain, whichever element is taken first.
Adds(sum, fun) ==
  /\ sum \in [SUBSET DOMAIN fun -> Int] /\ sum[{}] = 0
  /\ \A s \in SUBSET DOMAIN fun : \A x \in s : fun[x] \in Int /\ sum[s] = fun[x] + sum[s \ {x}]

-----------------------------------------------------------------------------
\* A set of numbers that is not empty has a least element.
LEMMA LeastNumber ==
  ASSUME NEW S \in SUBSET Nat, S # {}
  PROVE  \E x \in S : \A y \in S : x <= y
<1>1. PICK x \in S : \A y \in S : <<y, x>> \notin OpToRel(<, Nat)
  BY NatLessThanWellFounded, WFMin
<1>2. \A y \in S : x <= y
  <2> SUFFICES ASSUME NEW y \in S, y < x PROVE FALSE
    OBVIOUS
  <2>1. <<y, x>> \in Nat \X Nat /\ <<y, x>>[1] = y /\ <<y, x>>[2] = x
    OBVIOUS
  <2>2. <<y, x>> \in {ss \in Nat \X Nat : ss[1] < ss[2]}
    BY <2>1
  <2>3. QED
    BY <1>1, <2>2 DEF OpToRel
<1>3. QED
  BY <1>2

\* Induction over the parts of a finite set, by their number of elements.
LEMMA PartsInduction ==
  ASSUME NEW D, IsFiniteSet(D), NEW P,
         \A s \in SUBSET D : (\A x \in s : s \ {x} \in P) => s \in P
  PROVE  SUBSET D \subseteq P
<1> DEFINE bad == {s \in SUBSET D : s \notin P}
           sizes == {Cardinality(s) : s \in bad}
<1>1. \A s \in bad : IsFiniteSet(s) /\ Cardinality(s) \in Nat
  BY FS_Subset, FS_CardinalityType
<1> SUFFICES ASSUME bad # {} PROVE FALSE
  OBVIOUS
<1>2. sizes \in SUBSET Nat /\ sizes # {}
  BY <1>1
<1>3. PICK n \in sizes : \A m \in sizes : n <= m
  BY <1>2, LeastNumber
<1>4. PICK s \in bad : n = Cardinality(s)
  BY <1>3
<1>5. ASSUME NEW x \in s PROVE s \ {x} \in P
  <2>1. Cardinality(s \ {x}) = n - 1 /\ n \in Nat
    BY <1>1, <1>4, FS_RemoveElement
  <2>2. CASE s \ {x} \in bad
    <3>1. Cardinality(s \ {x}) \in sizes
      BY <2>2
    <3>2. QED
      BY <1>3, <2>1, <3>1
  <2>3. QED
    BY <2>2
<1>6. QED
  BY <1>4, <1>5

\* Sums that do not depend on the order are those of the fold.
LEMMA AddsIsSum ==
  ASSUME NEW fun, NEW sum, Adds(sum, fun)
  PROVE  IsSum(sum, fun)
<1>1. \A s \in SUBSET DOMAIN fun : s # {} => Pick(s) \in s
  BY DEF Pick
<1>2. \A s \in SUBSET DOMAIN fun : sum[s] = IF s = {} THEN 0 ELSE fun[Pick(s)] + sum[s \ {Pick(s)}]
  BY <1>1 DEF Adds
<1>3. QED
  BY <1>2 DEF Adds, IsSum

\* The fold has no other sums than these.
THEOREM SumIs ==
  ASSUME NEW fun, IsFiniteSet(DOMAIN fun), NEW sum, Adds(sum, fun)
  PROVE  SumOf(fun) = sum[DOMAIN fun]
<1> DEFINE fold == CHOOSE f : IsSum(f, fun)
           P == {s \in SUBSET DOMAIN fun : fold[s] = sum[s]}
<1>1. IsSum(fold, fun)
  BY AddsIsSum
<1>2. IsSum(sum, fun)
  BY AddsIsSum
<1> HIDE DEF fold
<1>3. ASSUME NEW s \in SUBSET DOMAIN fun, \A x \in s : s \ {x} \in P PROVE s \in P
  <2>1. s # {} => Pick(s) \in s
    BY DEF Pick
  <2>2. s # {} => fold[s \ {Pick(s)}] = sum[s \ {Pick(s)}]
    BY <1>3, <2>1
  <2>3. QED
    BY <1>1, <1>2, <2>2 DEF IsSum
<1>4. SUBSET DOMAIN fun \subseteq P
  <2>1. PICK D, Q : D = DOMAIN fun /\ Q = P
    OBVIOUS
  <2> HIDE DEF P
  <2>2. IsFiniteSet(D) /\ \A s \in SUBSET D : (\A x \in s : s \ {x} \in Q) => s \in Q
    BY <1>3, <2>1
  <2>3. SUBSET D \subseteq Q
    BY ONLY <2>2, PartsInduction
  <2>4. QED
    BY <2>1, <2>3
<1>5. QED
  BY <1>4 DEF SumOf, fold

\* An element more adds its value.
LEMMA OneMore ==
  ASSUME NEW f, NEW sum, Adds(sum, f),
         NEW g, NEW x, x \notin DOMAIN f, DOMAIN g = DOMAIN f \cup {x}, g[x] \in Int,
         \A y \in DOMAIN f : g[y] = f[y]
  PROVE  \E more : Adds(more, g) /\ more[DOMAIN g] = sum[DOMAIN f] + g[x]
<1> DEFINE more == [s \in SUBSET DOMAIN g |-> sum[s \ {x}] + IF x \in s THEN g[x] ELSE 0]
<1>1. \A s \in SUBSET DOMAIN g : s \ {x} \in SUBSET DOMAIN f /\ sum[s \ {x}] \in Int
  BY DEF Adds
<1>2. more \in [SUBSET DOMAIN g -> Int] /\ more[{}] = 0
  BY <1>1 DEF Adds
<1>3. ASSUME NEW s \in SUBSET DOMAIN g, NEW y \in s
      PROVE  g[y] \in Int /\ more[s] = g[y] + more[s \ {y}]
  <2>1. PICK t : t = s \ {x} /\ t \in SUBSET DOMAIN f /\ sum[t] \in Int
    BY <1>1
  <2>2. more[s] = sum[t] + IF x \in s THEN g[x] ELSE 0
    BY <2>1
  <2>3. CASE y = x
    <3>1. t \in SUBSET DOMAIN g /\ t \ {x} = t /\ x \notin t
      BY <2>1
    <3>2. more[t] = sum[t] + 0
      BY <3>1
    <3> HIDE DEF more
    <3>3. QED
      BY <2>1, <2>2, <2>3, <3>2
  <2>4. CASE y # x
    <3>1. PICK u : u = t \ {y} /\ u \in SUBSET DOMAIN f /\ sum[u] \in Int
      <4>1. PICK u \in SUBSET DOMAIN f : u = t \ {y}
        BY <2>1
      <4>2. sum[u] \in Int
        BY DEF Adds
      <4>3. QED
        BY <4>1, <4>2
    <3>2. y \in t /\ g[y] = f[y]
      BY <2>1, <2>4
    <3>3. f[y] \in Int /\ sum[t] = f[y] + sum[u]
      BY <2>1, <3>1, <3>2 DEF Adds
    <3>4. s \ {y} \in SUBSET DOMAIN g /\ (s \ {y}) \ {x} = u /\ (x \in s \ {y} <=> x \in s)
      BY <2>1, <2>4, <3>1
    <3>5. more[s \ {y}] = sum[u] + IF x \in s THEN g[x] ELSE 0
      BY <3>4
    <3>6. PICK v \in Int : v = IF x \in s THEN g[x] ELSE 0
      OBVIOUS
    <3> HIDE DEF more
    <3>7. more[s] = sum[t] + v /\ more[s \ {y}] = sum[u] + v
      BY <2>2, <3>5, <3>6
    <3>8. QED
      BY <3>1, <3>2, <3>3, <3>7
  <2>5. QED
    BY <2>3, <2>4
<1>4. Adds(more, g)
  BY <1>2, <1>3 DEF Adds
<1>5. more[DOMAIN g] = sum[DOMAIN f] + g[x]
  <2>1. DOMAIN g \ {x} = DOMAIN f
    OBVIOUS
  <2>2. QED
    BY <2>1
<1>6. QED
  BY <1>4, <1>5

\* Every function to the integers with a finite domain has its sums.
THEOREM SumExists ==
  ASSUME NEW D, IsFiniteSet(D), NEW fun \in [D -> Int]
  PROVE  \E sum : Adds(sum, fun)
<1> DEFINE Part(s) == [x \in s |-> fun[x]]
           P == {s \in SUBSET D : \E sum : Adds(sum, Part(s))}
<1>1. ASSUME NEW s \in SUBSET D, \A x \in s : s \ {x} \in P PROVE s \in P
  <2>1. CASE s = {}
    <3>1. Adds([t \in {{}} |-> 0], Part(s))
      BY <2>1 DEF Adds
    <3>2. QED
      BY <3>1
  <2>2. CASE s # {}
    <3>1. PICK x \in s : TRUE
      BY <2>2
    <3>2. PICK sum : Adds(sum, Part(s \ {x}))
      BY <1>1
    <3>3. /\ x \notin DOMAIN Part(s \ {x}) /\ DOMAIN Part(s) = DOMAIN Part(s \ {x}) \cup {x}
          /\ Part(s)[x] \in Int /\ \A y \in DOMAIN Part(s \ {x}) : Part(s)[y] = Part(s \ {x})[y]
      OBVIOUS
    <3>4. PICK f, g : f = Part(s \ {x}) /\ g = Part(s)
      OBVIOUS
    <3> HIDE DEF Part
    <3>5. \E more : Adds(more, g)
      BY <3>2, <3>3, <3>4, OneMore
    <3>6. QED
      BY <3>4, <3>5
  <2>3. QED
    BY <2>1, <2>2
<1>2. SUBSET D \subseteq P
  <2> HIDE DEF P
  <2>1. QED
    BY <1>1, PartsInduction
<1>3. Part(D) = fun
  OBVIOUS
<1>4. QED
  BY <1>2, <1>3

\* g is f and has one element more, which is x.
OneElementMore(f, g, x) ==
  /\ IsFiniteSet(DOMAIN f) /\ f \in [DOMAIN f -> Int] /\ x \notin DOMAIN f
  /\ DOMAIN g = DOMAIN f \cup {x} /\ g[x] \in Int /\ \A y \in DOMAIN f : g[y] = f[y]

\* A function with one element more in its domain has a sum that is larger by the
\* value of this element.
THEOREM SumOfOneMore ==
  ASSUME NEW f, NEW g, NEW x, OneElementMore(f, g, x)
  PROVE  SumOf(g) = SumOf(f) + g[x]
<1> USE DEF OneElementMore
<1>1. PICK sum : Adds(sum, f)
  BY SumExists
<1>2. PICK more : Adds(more, g) /\ more[DOMAIN g] = sum[DOMAIN f] + g[x]
  BY <1>1, OneMore
<1>3. IsFiniteSet(DOMAIN g)
  BY FS_AddElement
<1>4. SumOf(f) = sum[DOMAIN f] /\ SumOf(g) = more[DOMAIN g]
  BY <1>1, <1>2, <1>3, SumIs
<1>5. QED
  BY <1>2, <1>4

\* The sum of no elements is zero, and every other is a number.
THEOREM SumIsNumber ==
  ASSUME NEW D, IsFiniteSet(D), NEW fun \in [D -> Int]
  PROVE  SumOf(fun) \in Int /\ (D = {} => SumOf(fun) = 0)
<1>1. PICK sum : Adds(sum, fun)
  BY SumExists
<1>2. DOMAIN fun = D /\ D \in SUBSET D
  OBVIOUS
<1>3. SumOf(fun) = sum[D]
  BY <1>1, <1>2, SumIs
<1>4. sum[D] \in Int /\ sum[{}] = 0
  BY <1>1, <1>2 DEF Adds
<1>5. QED
  BY <1>3, <1>4

-----------------------------------------------------------------------------
(* Induction over the numbers, with a set in place of an operator, and the      *)
(* concatenation of sequences, as FlattenSeq computes it.                       *)

\* What holds of 0 and of the successor of every number of which it holds, holds
\* of all.
LEMMA NumbersInduction ==
  ASSUME NEW P, 0 \in P, \A n \in Nat : n \in P => n + 1 \in P
  PROVE  Nat \subseteq P
<1> SUFFICES ASSUME Nat \ P # {} PROVE FALSE
  OBVIOUS
<1>1. PICK n \in Nat \ P : \A m \in Nat \ P : n <= m
  BY LeastNumber
<1>2. n # 0 /\ n - 1 \in Nat /\ (n - 1) + 1 = n
  BY <1>1
<1>3. n - 1 \in P
  BY <1>1, <1>2
<1>4. QED
  BY <1>1, <1>2, <1>3

\* f has the concatenation of the first i sequences at i.
Concatenates(f, seqs) ==
  f = [i \in 1..Len(seqs) |-> IF i = 1 THEN seqs[i] ELSE f[i - 1] \o seqs[i]]

Concat(seqs) == IF Len(seqs) = 0 THEN seqs ELSE (CHOOSE f : Concatenates(f, seqs))[Len(seqs)]

\* The first n of them, which are sequences of the same elements.
ConcatenatesUpTo(f, n, seqs, T) ==
  f \in [1..n -> T] /\ \A i \in 1..n : f[i] = IF i = 1 THEN seqs[i] ELSE f[i - 1] \o seqs[i]

\* One sequence more is appended to what is there.
LEMMA ConcatOneMore ==
  ASSUME NEW S, NEW seqs, NEW n \in Nat, seqs[n + 1] \in Seq(S),
         NEW f, ConcatenatesUpTo(f, n, seqs, Seq(S))
  PROVE  \E g : ConcatenatesUpTo(g, n + 1, seqs, Seq(S))
<1> USE DEF ConcatenatesUpTo
<1>1. PICK t \in Seq(S) : t = IF n = 0 THEN seqs[n + 1] ELSE f[n] \o seqs[n + 1]
  <2>1. CASE n = 0
    BY <2>1
  <2>2. CASE n # 0
    <3>1. f[n] \in Seq(S)
      BY <2>2
    <3>2. f[n] \o seqs[n + 1] \in Seq(S)
      BY <3>1
    <3>3. QED
      BY <2>2, <3>2
  <2>3. QED
    BY <2>1, <2>2
<1> DEFINE g == [i \in 1..n + 1 |-> IF i = n + 1 THEN t ELSE f[i]]
<1>2. g \in [1..n + 1 -> Seq(S)]
  <2>1. \A i \in 1..n + 1 : i # n + 1 => i \in 1..n
    OBVIOUS
  <2>2. QED
    BY <1>1, <2>1
<1>3. ASSUME NEW i \in 1..n + 1 PROVE g[i] = IF i = 1 THEN seqs[i] ELSE g[i - 1] \o seqs[i]
  <2>1. CASE i = n + 1
    <3>1. g[i] = t /\ (n # 0 => g[n] = f[n]) /\ i - 1 = n
      BY <2>1
    <3>2. QED
      BY <1>1, <2>1, <3>1
  <2>2. CASE i # n + 1
    <3>1. i \in 1..n /\ g[i] = f[i] /\ (i # 1 => g[i - 1] = f[i - 1])
      BY <2>2
    <3>2. QED
      BY <3>1
  <2>3. QED
    BY <2>1, <2>2
<1> HIDE DEF g
<1>4. QED
  BY <1>2, <1>3

\* There are such concatenations.
LEMMA ConcatExists ==
  ASSUME NEW S, NEW seqs \in Seq(Seq(S))
  PROVE  \E f : Concatenates(f, seqs) /\ f \in [1..Len(seqs) -> Seq(S)]
<1> DEFINE Possible(n) == n <= Len(seqs) => \E f : ConcatenatesUpTo(f, n, seqs, Seq(S))
           P == {n \in Nat : Possible(n)}
<1>1. Possible(0)
  <2>1. ConcatenatesUpTo([i \in 1..0 |-> <<>>], 0, seqs, Seq(S))
    BY DEF ConcatenatesUpTo
  <2>2. QED
    BY <2>1
<1>2. ASSUME NEW n \in Nat, Possible(n) PROVE Possible(n + 1)
  <2> SUFFICES ASSUME n + 1 <= Len(seqs) PROVE \E f : ConcatenatesUpTo(f, n + 1, seqs, Seq(S))
    OBVIOUS
  <2>1. seqs[n + 1] \in Seq(S) /\ n <= Len(seqs)
    OBVIOUS
  <2>2. PICK f : ConcatenatesUpTo(f, n, seqs, Seq(S))
    BY <1>2, <2>1
  <2>3. QED
    BY <2>1, <2>2, ConcatOneMore
<1> HIDE DEF Possible
<1>3. Nat \subseteq P
  <2>1. 0 \in P /\ \A n \in Nat : n \in P => n + 1 \in P
    BY <1>1, <1>2
  <2> HIDE DEF P
  <2>2. QED
    BY <2>1, NumbersInduction
<1>4. Possible(Len(seqs)) /\ Len(seqs) \in Nat
  BY <1>3
<1>5. PICK f : ConcatenatesUpTo(f, Len(seqs), seqs, Seq(S))
  BY <1>4 DEF Possible
<1>6. QED
  BY <1>5 DEF Concatenates, ConcatenatesUpTo

\* The sequences t begin with the sequences s.
Begins(s, t) ==
  Len(s) \in Nat /\ Len(t) \in Nat /\ Len(s) <= Len(t) /\ \A i \in 1..Len(s) : s[i] = t[i]

\* What two such functions have at the same place of the same sequences is the same.
LEMMA ConcatUnique ==
  ASSUME NEW f, NEW s, NEW g, NEW t, Concatenates(f, s), Concatenates(g, t), Begins(s, t)
  PROVE  \A i \in 1..Len(s) : f[i] = g[i]
<1> USE DEF Begins
<1> DEFINE P == {n \in Nat : n \in 1..Len(s) => f[n] = g[n]}
<1>1. 0 \in P
  OBVIOUS
<1>2. ASSUME NEW n \in Nat, n \in P PROVE n + 1 \in P
  <2> SUFFICES ASSUME n + 1 \in 1..Len(s) PROVE f[n + 1] = g[n + 1]
    OBVIOUS
  <2>1. /\ f[n + 1] = (IF n + 1 = 1 THEN s[n + 1] ELSE f[n] \o s[n + 1])
        /\ g[n + 1] = (IF n + 1 = 1 THEN t[n + 1] ELSE g[n] \o t[n + 1])
    <3>1. n + 1 \in 1..Len(t) /\ (n + 1) - 1 = n
      OBVIOUS
    <3>2. QED
      BY <3>1 DEF Concatenates
  <2>2. n + 1 # 1 => f[n] = g[n]
    BY <1>2
  <2>3. QED
    BY <2>1, <2>2
<1>3. Nat \subseteq P
  <2> HIDE DEF P
  <2>1. QED
    BY <1>1, <1>2, NumbersInduction
<1>4. QED
  BY <1>3

\* A sequence more is appended, and nothing is the concatenation of none.
THEOREM ConcatAppend ==
  ASSUME NEW S, NEW seqs \in Seq(Seq(S)), NEW x \in Seq(S)
  PROVE  /\ Concat(seqs) \in Seq(S) /\ Concat(<<>>) = <<>>
         /\ Concat(Append(seqs, x)) = Concat(seqs) \o x
<1>0. PICK n, t : n = Len(seqs) /\ t = Append(seqs, x)
  OBVIOUS
<1>1. /\ n \in Nat /\ n = Len(seqs) /\ t \in Seq(Seq(S)) /\ Len(t) = n + 1 /\ t[n + 1] = x
      /\ \A i \in 1..n : seqs[i] = t[i]
  BY <1>0
<1>2. PICK f : f = (CHOOSE h : Concatenates(h, seqs))
  OBVIOUS
<1>3. PICK g : g = (CHOOSE h : Concatenates(h, t))
  OBVIOUS
<1>4. Concatenates(f, seqs) /\ Concatenates(g, t)
  BY <1>1, <1>2, <1>3, ConcatExists
<1>5. Concat(seqs) = (IF n = 0 THEN seqs ELSE f[n]) /\ Concat(t) = g[n + 1]
  BY <1>1, <1>2, <1>3 DEF Concat
<1>6. Concat(seqs) \in Seq(S)
  <2>1. PICK h : Concatenates(h, seqs) /\ h \in [1..n -> Seq(S)]
    BY <1>1, ConcatExists
  <2>2. \A i \in 1..n : f[i] = h[i]
    <3>1. Begins(seqs, seqs) /\ Concatenates(h, seqs) /\ Concatenates(f, seqs)
      BY <1>1, <1>4, <2>1 DEF Begins
    <3>2. \A i \in 1..Len(seqs) : f[i] = h[i]
      BY ONLY <3>1, ConcatUnique
    <3>3. QED
      BY <1>1, <3>2
  <2>3. CASE n = 0
    <3>1. seqs = <<>>
      BY <1>1, <2>3, EmptySeq
    <3>2. QED
      BY <1>5, <2>3, <3>1
  <2>4. CASE n # 0
    <3>1. n \in 1..n /\ Concat(seqs) = f[n]
      BY <1>1, <1>5, <2>4
    <3>2. f[n] = h[n] /\ h[n] \in Seq(S)
      BY <2>1, <2>2, <3>1
    <3>3. QED
      BY <3>1, <3>2
  <2>5. QED
    BY <2>3, <2>4
<1>7. Concat(<<>>) = <<>>
  BY DEF Concat
<1>8. Concat(t) = Concat(seqs) \o x
  <2>1. g[n + 1] = IF n = 0 THEN x ELSE g[n] \o x
    <3>1. n + 1 \in 1..Len(t) /\ (n + 1) - 1 = n /\ (n + 1 = 1 <=> n = 0)
      BY <1>1
    <3>2. QED
      BY <1>1, <1>4, <3>1 DEF Concatenates
  <2>2. CASE n = 0
    <3>1. seqs = <<>> /\ <<>> \o x = x
      BY <1>1, <2>2, EmptySeq, ConcatEmptySeq
    <3>2. QED
      BY <1>5, <2>1, <2>2, <3>1
  <2>3. CASE n # 0
    <3>1. Begins(seqs, t) /\ n \in 1..Len(seqs)
      BY <1>1, <2>3 DEF Begins
    <3>2. \A i \in 1..Len(seqs) : f[i] = g[i]
      BY ONLY <1>4, <3>1, ConcatUnique
    <3>3. f[n] = g[n]
      BY <3>1, <3>2
    <3>4. QED
      BY <1>5, <2>1, <2>3, <3>3
  <2>4. QED
    BY <2>2, <2>3
<1>9. QED
  BY <1>0, <1>6, <1>7, <1>8

-----------------------------------------------------------------------------
(* Sequences. *)

\* A sequence with one element more is given by its values.
LEMMA AppendAsFunction ==
  ASSUME NEW S, NEW s \in Seq(S), NEW x \in S, NEW f \in [1..Len(s) + 1 -> S],
         f[Len(s) + 1] = x, \A k \in 1..Len(s) : f[k] = s[k]
  PROVE  f = Append(s, x)
  OBVIOUS

\* A part of one element.
LEMMA OneElement ==
  ASSUME NEW S, NEW s \in Seq(S), NEW i \in 1..Len(s)
  PROVE  SubSeq(s, i, i) = <<s[i]>>
<1>1. SubSeq(s, i, i) = SubSeq(s, i, i - 1) \o <<s[i]>>
  BY SubSeqRecursiveSecond
<1>2. SubSeq(s, i, i - 1) = <<>>
  BY SubSeqEmpty
<1>3. <<>> \o <<s[i]>> = <<s[i]>>
  BY ConcatEmptySeq
<1>4. QED
  BY <1>1, <1>2, <1>3

Con(s, t) == s \o t

\* An element is appended as a sequence of its own.
LEMMA AppendIsCon ==
  ASSUME NEW S, NEW x \in S
  PROVE  <<x>> \in Seq(S) /\ \A s, t \in Seq(S) : Con(s, t) \in Seq(S) /\ Append(s, x) = Con(s, <<x>>)
<1>1. <<x>> \in Seq(S) /\ \A s \in Seq(S) : Append(s, x) = s \o <<x>>
  OBVIOUS
<1>2. \A s, t \in Seq(S) : s \o t \in Seq(S)
  BY ConcatProperties
<1>3. QED
  BY <1>1, <1>2 DEF Con

\* Concatenation is associative.
LEMMA ConAssociative == \A S : \A r, s, t \in Seq(S) : Con(Con(r, s), t) = Con(r, Con(s, t))
<1>1. \A S : \A r, s, t \in Seq(S) : (r \o s) \o t = r \o (s \o t)
  BY ConcatAssociative
<1>2. QED
  BY <1>1 DEF Con

\* Four sequences, from left to right and around the middle.
LEMMA Regroup ==
  ASSUME NEW S, NEW q \in Seq(S), NEW r \in Seq(S), NEW s \in Seq(S), NEW t \in Seq(S)
  PROVE  Con(Con(Con(q, r), s), t) = Con(q, Con(Con(r, s), t))
<1>1. Con(r, s) \in Seq(S)
  BY ConcatProperties DEF Con
<1>2. Con(Con(q, r), s) = Con(q, Con(r, s))
  BY ConAssociative
<1>3. Con(Con(q, Con(r, s)), t) = Con(q, Con(Con(r, s), t))
  BY <1>1, ConAssociative
<1>4. QED
  BY <1>2, <1>3

=============================================================================
