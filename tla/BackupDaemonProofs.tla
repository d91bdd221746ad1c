------------------------- MODULE BackupDaemonProofs -------------------------
(***************************************************************************)
(* Proofs about BackupDaemon, for any files, directories and commands: what *)
(* is saved stays what it was, and no change that was seen is forgotten.    *)
(***************************************************************************)
EXTENDS BackupDaemon, FiniteSetTheorems, TLAPS

StateFields == {"monitored_dir", "current_sample", "first_backup_done", "sample_period_ms",
                "files", "watches", "queue"}
DiffFields  == {"base", "new", "path", "life"}
Contents    == Absent..Oldest + MaxEdits
Starting    == {"start", "full", "copy"}
Saving      == {"base", "diff"}
Resting     == {"loop", "command", "check", "input"}

\* The files and what is known of them: no version is newer than the last change.
UsersTyped ==
  /\ edits \in 0..MaxEdits
  /\ fs \in [Paths -> [data : Nat, stat : Nat]]
  /\ \A p \in Paths : fs[p].data <= Oldest + edits /\ fs[p].stat <= Oldest + edits
  /\ \A e \in events : e.type \in {"change", "delete"} => e.path \in Paths
  /\ noticed \subseteq Paths

StateTyped ==
  /\ DOMAIN state = StateFields
  /\ state.monitored_dir \in Top /\ state.current_sample \in 0..MaxSamples
  /\ state.queue \subseteq Paths /\ DOMAIN state.files \subseteq Paths
  /\ \A p \in DOMAIN state.files : state.files[p] \in Nat /\ state.files[p] <= Oldest + edits

\* A file is saved once in a sample; between samples there is nothing to save.
WorkTyped ==
  /\ pc \in Starting \cup Saving \cup Resting \cup {"stopped"}
  /\ todo \in Seq(Paths) /\ \A i, j \in DOMAIN todo : todo[i] = todo[j] => i = j
  /\ pc \in {"copy"} \cup Saving => todo # <<>>
  /\ pc \in Resting => todo = <<>>
  /\ pc \in Saving => state.current_sample > 0
  /\ pc \in Starting => DOMAIN state.files = {}

StoreTyped ==
  /\ life \in Nat \ {0}
  /\ DOMAIN full \subseteq Names /\ \A n \in DOMAIN full : full[n] \in Contents \ {Absent}
  /\ DOMAIN diffs \subseteq Names \X (1..MaxSamples)
  /\ \A k \in DOMAIN diffs : /\ DOMAIN diffs[k] = DiffFields
                             /\ diffs[k].base \in Contents /\ diffs[k].new \in Contents
                             /\ diffs[k].path \in Paths /\ diffs[k].life \in 1..life
  /\ \A r \in answer : r.data \in (Contents \cup {Mixed}) \ {Absent}

\* The diffs of this life belong to its samples.  Those of the sample that is
\* being taken are of files that it has saved.
SamplesInOrder ==
  /\ pc \in Starting => Mine = {}
  /\ \A k \in Mine : k[2] <= state.current_sample
  /\ pc \in Saving => \A k \in Mine : k[2] = state.current_sample =>
       k[1] = make_backup_relative_path(diffs[k].path) /\ diffs[k].path \notin ToSet(todo)

StoreInv == UsersTyped /\ StateTyped /\ WorkTyped /\ StoreTyped /\ SamplesInOrder /\ DiffsFit

\* A change that inotify has reported is in a diff or on its way there.
OnItsWay(p) == \/ p \in state.queue \/ \E e \in events : e.path = p /\ e.type \in {"change", "delete"}
               \/ pc \in Saving \cup {"stopped"} /\ p \in ToSet(todo)
NoticedInv == \A p \in noticed : Text(p) => Recorded(p) \/ OnItsWay(p)

\* No two files below a directory, and no file of another directory, have backups
\* of the same name.  The code forms a name by replacing every / by _, so a
\* directory with files d/x and d_x is an exception.
NamesDistinct ==
  /\ \A p, q \in Paths : Root(Dir[p]) = Root(Dir[q]) /\ Rel[p] = Rel[q] => p = q
  /\ \A p, q \in Paths : Rel[p] # q

SavedInv == NoticedInv /\ KnownIsSaved

-----------------------------------------------------------------------------
(* Sequences of files, and files under names. *)

\* The files to save, one after the other: each of them once.
LEMMA FilesInSequence ==
  ASSUME NEW S, IsFiniteSet(S)
  PROVE  /\ SetToSeq(S) \in Seq(S) /\ ToSet(SetToSeq(S)) = S
         /\ \A i, j \in DOMAIN SetToSeq(S) : SetToSeq(S)[i] = SetToSeq(S)[j] => i = j
         /\ SetToSeq(S) = <<>> <=> S = {}
<1> DEFINE n == Cardinality(S)
<1>1. n \in Nat /\ ExistsBijection(1..n, S)
  BY FS_CardinalityType
<1>2. PICK f \in [1..n -> S] : IsInjective(f)
  BY <1>1 DEF ExistsBijection, Bijection, Injection
<1>3. PICK g : g = SetToSeq(S)
  OBVIOUS
<1>4. g \in [1..n -> S] /\ IsInjective(g)
  BY <1>2, <1>3 DEF SetToSeq
<1> HIDE DEF n
<1>5. \A i, j \in DOMAIN g : g[i] = g[j] => i = j
  BY <1>4 DEF IsInjective
<1>6. g \in Seq(S) /\ Len(g) = n
  BY <1>1, <1>4
<1>7. {g[i] : i \in DOMAIN g} = S
  <2>1. g \in Injection(1..n, S)
    BY <1>4 DEF Injection
  <2>2. Cardinality(1..n) = n
    BY <1>1, FS_Interval
  <2>3. g \in Surjection(1..n, S)
    BY <2>1, <2>2, FS_Injection DEF n
  <2>4. QED
    BY <2>3 DEF Surjection
<1>8. g = <<>> <=> S = {}
  <2>1. n = 0 <=> S = {}
    BY FS_EmptySet DEF n
  <2>2. g = <<>> <=> n = 0
    BY <1>1, <1>6
  <2>3. QED
    BY <2>1, <2>2
<1>9. QED
  BY <1>3, <1>5, <1>6, <1>7, <1>8 DEF ToSet

\* The first file is saved and the others are left.
LEMMA FirstOfFiles ==
  ASSUME NEW S, NEW s \in Seq(S), s # <<>>, \A i, j \in DOMAIN s : s[i] = s[j] => i = j
  PROVE  /\ Head(s) \in S /\ Head(s) \in ToSet(s) /\ Head(s) \notin ToSet(Tail(s))
         /\ ToSet(s) = {Head(s)} \cup ToSet(Tail(s))
         /\ Tail(s) \in Seq(S) /\ \A i, j \in DOMAIN Tail(s) : Tail(s)[i] = Tail(s)[j] => i = j
         /\ IF Len(s) > 1 THEN Tail(s) # <<>> ELSE Tail(s) = <<>>
<1>1. /\ Len(s) \in Nat \ {0} /\ DOMAIN s = 1..Len(s) /\ Head(s) = s[1] /\ s[1] \in S
      /\ Tail(s) \in Seq(S) /\ Len(Tail(s)) = Len(s) - 1 /\ DOMAIN Tail(s) = 1..Len(s) - 1
      /\ \A i \in 1..Len(s) - 1 : Tail(s)[i] = s[i + 1]
  OBVIOUS
<1> DEFINE l == Len(s)
           t == Tail(s)
<1>2. \A i, j \in DOMAIN t : t[i] = t[j] => i = j
  <2> SUFFICES ASSUME NEW i \in 1..l - 1, NEW j \in 1..l - 1, t[i] = t[j] PROVE i = j
    BY <1>1
  <2>1. i + 1 \in DOMAIN s /\ j + 1 \in DOMAIN s /\ s[i + 1] = s[j + 1]
    BY <1>1
  <2>2. QED
    BY <2>1
<1>3. \A i \in DOMAIN t : t[i] # s[1]
  BY <1>1
<1>4. \A x : (\E i \in DOMAIN s : s[i] = x) <=> x = s[1] \/ \E i \in DOMAIN t : t[i] = x
  <2> SUFFICES ASSUME NEW x PROVE (\E i \in DOMAIN s : s[i] = x) <=> x = s[1] \/ \E i \in DOMAIN t : t[i] = x
    OBVIOUS
  <2>1. ASSUME NEW i \in 1..l, s[i] = x PROVE x = s[1] \/ \E k \in 1..l - 1 : t[k] = x
    <3>1. CASE i = 1
      BY <2>1, <3>1
    <3>2. CASE i # 1
      <4>1. i - 1 \in 1..l - 1 /\ t[i - 1] = s[(i - 1) + 1]
        BY <1>1, <3>2
      <4>2. t[i - 1] = x
        BY <2>1, <4>1
      <4>3. QED
        BY <4>1, <4>2
    <3>3. QED
      BY <3>1, <3>2
  <2>2. ASSUME NEW i \in 1..l - 1, t[i] = x PROVE \E k \in 1..l : s[k] = x
    BY <1>1, <2>2
  <2>3. 1 \in 1..l /\ DOMAIN s = 1..l /\ DOMAIN t = 1..l - 1
    BY <1>1
  <2>4. QED
    BY <2>1, <2>2, <2>3
<1>5. IF Len(s) > 1 THEN Tail(s) # <<>> ELSE Tail(s) = <<>>
  <2>1. \A q \in Seq(S) : Len(q) = 0 => q = <<>>
    <3> SUFFICES ASSUME NEW q \in Seq(S), Len(q) = 0 PROVE q = <<>>
      OBVIOUS
    <3>1. <<>> \in Seq(S) /\ Len(<<>>) = 0 /\ \A i \in 1..0 : FALSE
      OBVIOUS
    <3>2. QED
      BY <3>1, SMT
  <2>2. CASE l > 1
    BY <1>1, <2>2
  <2>3. CASE ~(l > 1)
    <3>1. Len(Tail(s)) = 0
      BY <1>1, <2>3
    <3>2. QED
      BY <1>1, <2>1, <2>3, <3>1
  <2>4. QED
    BY <2>2, <2>3
<1>6. Head(s) \in ToSet(s) /\ Head(s) \notin ToSet(Tail(s))
  BY <1>1, <1>3 DEF ToSet
<1>7. \A x : x \in ToSet(s) <=> x = s[1] \/ x \in ToSet(Tail(s))
  <2>1. \A x : x \in ToSet(s) <=> \E i \in DOMAIN s : s[i] = x
    BY DEF ToSet
  <2>2. \A x : x \in ToSet(t) <=> \E i \in DOMAIN t : t[i] = x
    BY DEF ToSet
  <2> HIDE DEF t
  <2>3. \A x : x \in ToSet(s) <=> x = s[1] \/ x \in ToSet(t)
    BY <1>4, <2>1, <2>2
  <2>4. QED
    BY <2>3 DEF t
<1>8. ToSet(s) = {Head(s)} \cup ToSet(Tail(s))
  BY <1>1, <1>7
<1>9. QED
  BY <1>1, <1>2, <1>5, <1>6, <1>8

\* The constants of the model.
LEMMA Constants ==
  /\ Oldest \in Nat /\ MaxEdits \in Nat /\ MaxSamples \in Nat /\ Blank <= Oldest
  /\ Oldest = Blank + Cardinality(Paths)
  /\ Home \in Top /\ Dir \in [Paths -> Top \cup Sub] /\ \A S \in SUBSET Paths : IsFiniteSet(S)
<1>1. IsFiniteSet(Paths) /\ MaxEdits \in Nat /\ MaxSamples \in Nat /\ Home \in Top /\ Dir \in [Paths -> Top \cup Sub]
  BY ConstantsAssumption
<1>2. Cardinality(Paths) \in Nat
  BY <1>1, FS_CardinalityType
<1>3. QED
  BY <1>1, <1>2, FS_Subset DEF Oldest, Blank

-----------------------------------------------------------------------------
(* Steps that save nothing. *)

\* Without a new diff those of this life stay in the order of their samples, if
\* the next sample has a number of its own.
LEMMA SamplesStay ==
  ASSUME SamplesInOrder, UNCHANGED <<diffs, life>>,
         state.current_sample \in Nat, state'.current_sample \in Nat, StoreTyped,
         state'.current_sample >= state.current_sample,
         pc' \in Starting => pc \in Starting,
         pc' \in Saving => \/ state'.current_sample > state.current_sample
                           \/ pc \in Saving /\ todo' = todo /\ state' = state
  PROVE  SamplesInOrder'
<1>1. Mine' = Mine
  BY DEF Mine
<1>2. \A k \in Mine : k[2] \in Nat /\ k[2] <= state.current_sample
  BY Constants DEF SamplesInOrder, StoreTyped, Mine
<1>3. \A k \in Mine' : k[2] <= state'.current_sample
  BY <1>1, <1>2
<1>4. ASSUME pc' \in Saving, NEW k \in Mine, k[2] = state'.current_sample
      PROVE  k[1] = make_backup_relative_path(diffs[k].path)' /\ diffs[k].path \notin ToSet(todo')
  <2>1. pc \in Saving /\ todo' = todo /\ state' = state
    BY <1>2, <1>4
  <2>2. QED
    BY <1>4, <2>1 DEF SamplesInOrder, make_backup_relative_path
<1>5. QED
  BY <1>1, <1>3, <1>4 DEF SamplesInOrder

\* The users change some files.
LEMMA TouchKeepsStore ==
  ASSUME StoreInv, NEW new \in [Paths -> [data : Nat, stat : Nat]], Touch(new),
         \A p \in Paths : new[p].data <= Oldest + edits + 1 /\ new[p].stat <= Oldest + edits + 1
  PROVE  StoreInv'
<1>1. /\ edits' = edits + 1 /\ edits < MaxEdits /\ fs' = new
      /\ UNCHANGED <<pc, state, todo, life, full, diffs, answer>>
      /\ \A e \in events' : e \in events \/ e.path \in Paths
      /\ noticed' \subseteq Paths
  BY DEF Touch, program, store, StoreInv, UsersTyped
<1>2. edits \in Nat /\ edits \in 0..MaxEdits /\ MaxEdits \in Nat /\ Oldest \in Nat
  BY Constants DEF StoreInv, UsersTyped
<1>3. UsersTyped'
  BY <1>1, <1>2 DEF StoreInv, UsersTyped
<1>4. StateTyped'
  BY <1>1, <1>2 DEF StoreInv, StateTyped
<1>5. SamplesInOrder'
  BY <1>1, SamplesStay, Constants DEF StoreInv, StateTyped
<1>6. WorkTyped' /\ StoreTyped' /\ DiffsFit'
  BY <1>1 DEF StoreInv, WorkTyped, StoreTyped, DiffsFit, Mine
<1>7. QED
  BY <1>3, <1>4, <1>5, <1>6 DEF StoreInv

\* What a write, a truncation and a deletion make of the files.
LEMMA UsersTouch ==
  ASSUME UsersTyped, NEW p \in Paths, Write(p) \/ Empty(p) \/ Delete(p)
  PROVE  \E new \in [Paths -> [data : Nat, stat : Nat]] :
           /\ Touch(new)
           /\ \A q \in Paths : new[q].data <= Oldest + edits + 1 /\ new[q].stat <= Oldest + edits + 1
           /\ \A q \in Paths : new[q] # fs[q] /\ new[q].data > Blank /\ new[q].stat = new[q].data =>
                new[q].data = Oldest + edits + 1
<1>1. /\ fs \in [Paths -> [data : Nat, stat : Nat]] /\ edits \in Nat /\ Oldest \in Nat
      /\ \A q \in Paths : fs[q].data <= Oldest + edits /\ fs[q].stat <= Oldest + edits
      /\ Blank <= Oldest
  BY Constants DEF UsersTyped
<1>2. PICK d \in Nat, t \in Nat : /\ Touch([fs EXCEPT ![p] = [data |-> d, stat |-> t]])
                                  /\ d <= Oldest + edits + 1 /\ t <= Oldest + edits + 1
                                  /\ d > Blank /\ t = d => d = Oldest + edits + 1
  <2>1. CASE Write(p)
    <3> DEFINE v == Oldest + edits + 1
    <3>1. PICK shown \in BOOLEAN : Touch([fs EXCEPT ![p] = [data |-> v, stat |-> IF shown THEN v ELSE @.stat]])
      BY <2>1 DEF Write
    <3>2. [fs EXCEPT ![p] = [data |-> v, stat |-> IF shown THEN v ELSE @.stat]] =
          [fs EXCEPT ![p] = [data |-> v, stat |-> IF shown THEN v ELSE fs[p].stat]]
      OBVIOUS
    <3>3. v \in Nat /\ (IF shown THEN v ELSE fs[p].stat) \in Nat /\ (IF shown THEN v ELSE fs[p].stat) <= v
      BY <1>1
    <3>4. PICK t : t = IF shown THEN v ELSE fs[p].stat
      OBVIOUS
    <3> HIDE DEF v
    <3>5. Touch([fs EXCEPT ![p] = [data |-> v, stat |-> t]]) /\ v \in Nat /\ t \in Nat /\ t <= v
      BY <3>1, <3>2, <3>3, <3>4
    <3>6. v <= Oldest + edits + 1 /\ t <= Oldest + edits + 1 /\ v = Oldest + edits + 1
      BY <1>1, <3>5 DEF v
    <3> v \in Nat /\ t \in Nat
      BY <3>5
    <3> WITNESS v \in Nat, t \in Nat
    <3>7. QED
      BY <3>5, <3>6
  <2>2. CASE Empty(p)
    <3>1. Touch([fs EXCEPT ![p] = [data |-> Blank, stat |-> Blank]]) /\ Blank \in Nat
      BY <2>2 DEF Empty, Blank
    <3>2. Blank <= Oldest + edits + 1 /\ ~(Blank > Blank)
      BY <1>1 DEF Blank
    <3> Blank \in Nat
      BY <3>1
    <3> WITNESS Blank \in Nat, Blank \in Nat
    <3>3. QED
      BY <3>1, <3>2
  <2>3. CASE Delete(p)
    <3>1. Touch([fs EXCEPT ![p] = [data |-> Absent, stat |-> Absent]]) /\ Absent \in Nat
      BY <2>3 DEF Delete, Absent
    <3>2. Absent <= Oldest + edits + 1 /\ ~(Absent > Blank)
      BY <1>1 DEF Blank, Absent
    <3> Absent \in Nat
      BY <3>1
    <3> WITNESS Absent \in Nat, Absent \in Nat
    <3>3. QED
      BY <3>1, <3>2
  <2>4. QED
    BY <2>1, <2>2, <2>3
<1>3. PICK new : new = [fs EXCEPT ![p] = [data |-> d, stat |-> t]]
  OBVIOUS
<1>4. /\ new \in [Paths -> [data : Nat, stat : Nat]] /\ new[p].data = d /\ new[p].stat = t
      /\ \A q \in Paths : q # p => new[q] = fs[q]
  BY <1>1, <1>3
<1>5. \A q \in Paths : new[q].data <= Oldest + edits + 1 /\ new[q].stat <= Oldest + edits + 1
  <2> SUFFICES ASSUME NEW q \in Paths
               PROVE  new[q].data <= Oldest + edits + 1 /\ new[q].stat <= Oldest + edits + 1
    OBVIOUS
  <2>1. CASE q = p
    BY <1>2, <1>4, <2>1
  <2>2. CASE q # p
    <3>1. new[q] = fs[q] /\ fs[q].data \in Nat /\ fs[q].stat \in Nat
      BY <1>1, <1>4, <2>2
    <3>2. QED
      BY <1>1, <3>1
  <2>3. QED
    BY <2>1, <2>2
<1>6. QED
  BY <1>2, <1>3, <1>4, <1>5

\* The steps that change nothing but where the program is, or what it has been
\* asked, or that end it.
LEMMA OtherKeepsStore ==
  ASSUME StoreInv,
         \/ \E d \in Sub : Mkdir(d)
         \/ \E c \in Commands : Ask(c)
         \/ D_NoSample \/ I_Wake \/ signal_handler \/ Kill
  PROVE  StoreInv'
<1>1. UNCHANGED <<state, todo, life, full, diffs, answer, fs, noticed>>
  BY DEF Mkdir, Ask, D_NoSample, I_Wake, signal_handler, Kill, program, store, users
<1>2. pc' \in {pc, "stopped"} \/ (pc \in Resting /\ pc' = "loop")
  BY DEF Mkdir, Ask, D_NoSample, I_Wake, signal_handler, Kill, program, store, users, Resting
<1>3. edits' \in 0..MaxEdits /\ edits' >= edits /\ edits \in Nat
  BY Constants DEF StoreInv, UsersTyped, Mkdir, Ask, D_NoSample, I_Wake, signal_handler, Kill, program, store, users
<1>4. \A e \in events' : e \in events \/ e.type = "mkdir"
  BY DEF Mkdir, Ask, D_NoSample, I_Wake, signal_handler, Kill, program, store, users
<1>5. UsersTyped'
  <2>1. \A e \in events' : e.type \in {"change", "delete"} => e.path \in Paths
    BY <1>4 DEF StoreInv, UsersTyped
  <2>2. \A p \in Paths : fs'[p].data <= Oldest + edits' /\ fs'[p].stat <= Oldest + edits'
    <3> SUFFICES ASSUME NEW p \in Paths PROVE fs[p].data <= Oldest + edits' /\ fs[p].stat <= Oldest + edits'
      BY <1>1
    <3>1. fs[p].data \in Nat /\ fs[p].stat \in Nat /\ fs[p].data <= Oldest + edits /\ fs[p].stat <= Oldest + edits
      BY DEF StoreInv, UsersTyped
    <3>2. QED
      BY <1>3, <3>1, Constants
  <2>3. QED
    BY <1>1, <1>3, <2>1, <2>2 DEF StoreInv, UsersTyped
<1>6. StateTyped'
  <2>1. \A p \in DOMAIN state.files : state.files[p] \in Nat /\ state.files[p] <= Oldest + edits'
    BY <1>3, Constants DEF StoreInv, StateTyped
  <2>2. QED
    BY <1>1, <2>1 DEF StoreInv, StateTyped
<1>7. WorkTyped'
  BY <1>1, <1>2 DEF StoreInv, WorkTyped, Resting, Saving, Starting
<1>8. SamplesInOrder'
  BY <1>1, <1>2, SamplesStay, Constants DEF StoreInv, StateTyped, Resting, Saving, Starting
<1>9. StoreTyped' /\ DiffsFit'
  BY <1>1 DEF StoreInv, StoreTyped, DiffsFit, Mine
<1>10. QED
  BY <1>5, <1>6, <1>7, <1>8, <1>9 DEF StoreInv

-----------------------------------------------------------------------------
(* The full backup, and what inotify reports. *)

\* What a search finds are text files.
LEMMA SearchFinds ==
  ASSUME NEW d, NEW found \in search_files_in_dir(d)
  PROVE  found \subseteq {p \in Paths : Text(p)}
  BY DEF search_files_in_dir

\* The watches are set, and nothing else.
LEMMA InotifyKeepsStore == ASSUME StoreInv, init_inotify PROVE StoreInv'
<1>1. /\ pc = "start" /\ pc' = "full" /\ state' = [state EXCEPT !.watches = Below(state.monitored_dir)]
      /\ UNCHANGED <<todo, life, full, diffs, answer, fs, events, noticed, edits>>
  BY DEF init_inotify, store, users
<1>2. /\ DOMAIN state' = StateFields /\ state'.monitored_dir = state.monitored_dir
      /\ state'.current_sample = state.current_sample /\ state'.queue = state.queue /\ state'.files = state.files
  BY <1>1 DEF StoreInv, StateTyped, StateFields
<1>3. UsersTyped' /\ StateTyped' /\ StoreTyped' /\ DiffsFit'
  BY <1>1, <1>2 DEF StoreInv, UsersTyped, StateTyped, StoreTyped, DiffsFit, Mine
<1>4. WorkTyped'
  BY <1>1, <1>2 DEF StoreInv, WorkTyped, Resting, Saving, Starting
<1>5. SamplesInOrder'
  BY <1>1, <1>2, SamplesStay, Constants DEF StoreInv, StateTyped, Saving, Starting
<1>6. QED
  BY <1>3, <1>4, <1>5 DEF StoreInv

\* The full backup is to save every file found once.
LEMMA FullKeepsStore == ASSUME StoreInv, create_full_backup PROVE StoreInv'
<1>1. PICK found \in search_files_in_dir(state.monitored_dir) :
        todo' = SetToSeq(found) /\ pc' = IF found = {} THEN "loop" ELSE "copy"
  BY DEF create_full_backup
<1>2. pc = "full" /\ UNCHANGED <<state, life, full, diffs, answer, fs, events, noticed, edits>>
  BY DEF create_full_backup, store, users
<1>3. found \subseteq Paths /\ IsFiniteSet(found)
  BY Constants, SearchFinds
<1>4. /\ todo' \in Seq(Paths) /\ \A i, j \in DOMAIN todo' : todo'[i] = todo'[j] => i = j
      /\ todo' = <<>> <=> found = {}
  BY <1>1, <1>3, FilesInSequence
<1>5. UsersTyped' /\ StateTyped' /\ StoreTyped' /\ DiffsFit'
  BY <1>2 DEF StoreInv, UsersTyped, StateTyped, StoreTyped, DiffsFit, Mine
<1>6. WorkTyped'
  BY <1>1, <1>2, <1>4 DEF StoreInv, WorkTyped, Resting, Saving, Starting
<1>7. SamplesInOrder'
  BY <1>1, <1>2, SamplesStay, Constants DEF StoreInv, StateTyped, Saving, Starting
<1>8. QED
  BY <1>5, <1>6, <1>7 DEF StoreInv

\* A copy is written under a name of the file: its content is that of the file.
LEMMA CopyTyped ==
  ASSUME StoreInv, NEW p \in Paths, NEW n, n = make_backup_relative_path(p),
         fs[p].data # Absent, full' = With(full, n, fs[p].data)
  PROVE  DOMAIN full' \subseteq Names /\ \A m \in DOMAIN full' : full'[m] \in Contents \ {Absent}
<1>1. n \in Names
  BY DEF make_backup_relative_path, Names
<1>2. fs[p].data \in Contents \ {Absent}
  BY Constants DEF StoreInv, UsersTyped, Contents, Absent
<1>3. PICK x : x = fs[p].data
  OBVIOUS
<1>4. full' = With(full, n, x) /\ x \in Contents \ {Absent}
  BY <1>2, <1>3
<1>5. DOMAIN full \subseteq Names /\ \A m \in DOMAIN full : full[m] \in Contents \ {Absent}
  BY DEF StoreInv, StoreTyped
<1>6. QED
  BY ONLY <1>1, <1>4, <1>5 DEF With

\* One file is copied: there is no diff of this life yet.
LEMMA CopyKeepsStore == ASSUME StoreInv, CopyFull PROVE StoreInv'
<1>1. /\ pc = "copy" /\ todo' = Tail(todo) /\ UNCHANGED <<life, diffs, answer, fs, events, noticed, edits>>
      /\ IF Len(todo) > 1 THEN UNCHANGED <<pc, state>>
         ELSE pc' = "loop" /\ state' = [state EXCEPT !.first_backup_done = TRUE]
  BY DEF CopyFull, users
<1>2. PICK p : p = Head(todo)
  OBVIOUS
<1>3. /\ p \in Paths /\ todo' \in Seq(Paths) /\ \A i, j \in DOMAIN todo' : todo'[i] = todo'[j] => i = j
      /\ IF Len(todo) > 1 THEN todo' # <<>> ELSE todo' = <<>>
  BY <1>1, <1>2, FirstOfFiles DEF StoreInv, WorkTyped
<1>4. full' = IF fs[p].data = Absent THEN full ELSE With(full, make_backup_relative_path(p), fs[p].data)
  BY <1>2 DEF CopyFull
<1>5. DOMAIN full' \subseteq Names /\ \A m \in DOMAIN full' : full'[m] \in Contents \ {Absent}
  <2>1. CASE fs[p].data = Absent
    BY <1>4, <2>1 DEF StoreInv, StoreTyped
  <2>2. CASE fs[p].data # Absent
    <3>1. full' = With(full, make_backup_relative_path(p), fs[p].data)
      BY <1>4, <2>2
    <3>2. QED
      BY <1>3, <2>2, <3>1, CopyTyped
  <2>3. QED
    BY <2>1, <2>2
<1>6. /\ DOMAIN state' = StateFields /\ state'.monitored_dir = state.monitored_dir
      /\ state'.current_sample = state.current_sample /\ state'.queue = state.queue /\ state'.files = state.files
  BY <1>1 DEF StoreInv, StateTyped, StateFields
<1>7. UsersTyped' /\ StateTyped' /\ StoreTyped'
  BY <1>1, <1>5, <1>6 DEF StoreInv, UsersTyped, StateTyped, StoreTyped
<1>8. WorkTyped'
  BY <1>1, <1>3, <1>6 DEF StoreInv, WorkTyped, Resting, Saving, Starting
<1>9. SamplesInOrder'
  BY <1>1, <1>6, SamplesStay, Constants DEF StoreInv, StateTyped, Saving, Starting
<1>10. DiffsFit'
  BY <1>1 DEF StoreInv, DiffsFit, SamplesInOrder, Mine, Starting
<1>11. QED
  BY <1>7, <1>8, <1>9, <1>10 DEF StoreInv

\* What inotify has reported is added to the queue.
LEMMA EventsKeepStore == ASSUME StoreInv, process_inotify_events PROVE StoreInv'
<1>1. /\ pc = "loop" /\ pc' \in {"command", "input"} /\ events' = {} /\ answer' = {}
      /\ UNCHANGED <<todo, life, full, diffs, fs, noticed, edits>>
  BY DEF process_inotify_events
<1>2. /\ DOMAIN state' = StateFields /\ state'.monitored_dir = state.monitored_dir
      /\ state'.current_sample = state.current_sample /\ state'.files = state.files
      /\ state'.queue = state.queue \cup
           {e.path : e \in {x \in events : x.type = "delete" \/ (x.type = "change" /\ Text(x.path))}}
  BY DEF process_inotify_events, StoreInv, StateTyped, StateFields
<1>3. state'.queue \subseteq Paths
  BY <1>2 DEF StoreInv, StateTyped, UsersTyped
<1>4. UsersTyped' /\ StateTyped' /\ StoreTyped' /\ DiffsFit'
  BY <1>1, <1>2, <1>3 DEF StoreInv, UsersTyped, StateTyped, StoreTyped, DiffsFit, Mine
<1>5. WorkTyped'
  BY <1>1, <1>2 DEF StoreInv, WorkTyped, Resting, Saving, Starting
<1>6. SamplesInOrder'
  BY <1>1, <1>2, SamplesStay, Constants DEF StoreInv, StateTyped, Saving, Starting
<1>7. QED
  BY <1>4, <1>5, <1>6 DEF StoreInv

-----------------------------------------------------------------------------
(* Samples. *)

\* The files of a sample are those of the queue, or those found whose stat() is
\* not the one remembered; it is remembered of all that are found.
LEMMA FilesChanged ==
  ASSUME StoreInv, NEW r \in find_changed_files
  PROVE  /\ DOMAIN r.state = StateFields /\ r.state.monitored_dir = state.monitored_dir
         /\ r.state.current_sample = state.current_sample /\ r.changed \subseteq Paths
         /\ \/ r.changed = state.queue /\ r.state.queue = {} /\ r.state.files = state.files
            \/ /\ state.queue = {} /\ r.state.queue = {}
               /\ \E found \in SUBSET Paths :
                    /\ r.changed = {p \in found : p \notin DOMAIN state.files \/ state.files[p] # fs[p].stat}
                    /\ DOMAIN r.state.files = DOMAIN state.files \cup found
                    /\ \A p \in DOMAIN r.state.files :
                         r.state.files[p] = IF p \in found THEN fs[p].stat ELSE state.files[p]
<1>1. DOMAIN state = StateFields /\ state.queue \subseteq Paths
  BY DEF StoreInv, StateTyped
<1>2. CASE state.queue # {}
  <2>1. r.changed = state.queue /\ r.state = [state EXCEPT !.queue = {}]
    BY <1>2 DEF find_changed_files
  <2>2. /\ DOMAIN r.state = StateFields /\ r.state.monitored_dir = state.monitored_dir
        /\ r.state.current_sample = state.current_sample /\ r.state.queue = {} /\ r.state.files = state.files
    BY <1>1, <2>1 DEF StateFields
  <2>3. QED
    BY <1>1, <2>1, <2>2
<1>3. CASE state.queue = {}
  <2>1. PICK found \in search_files_in_dir(state.monitored_dir) :
          /\ r.changed = {p \in found : p \notin DOMAIN state.files \/ state.files[p] # fs[p].stat}
          /\ r.state = Remember(found)
    BY <1>3 DEF find_changed_files
  <2>2. found \in SUBSET Paths
    BY SearchFinds
  <2>3. /\ DOMAIN r.state = StateFields /\ r.state.monitored_dir = state.monitored_dir
        /\ r.state.current_sample = state.current_sample /\ r.state.queue = state.queue
        /\ DOMAIN r.state.files = DOMAIN state.files \cup found
        /\ \A p \in DOMAIN r.state.files :
             r.state.files[p] = IF p \in found THEN fs[p].stat ELSE state.files[p]
    BY <1>1, <2>1 DEF StateFields, Remember
  <2>4. QED
    BY <1>3, <2>1, <2>2, <2>3
<1>4. QED
  BY <1>2, <1>3

\* A sample has a number of its own, and its files are saved one after the other.
LEMMA SampleStarts ==
  ASSUME StoreInv, create_incremental_backup
  PROVE  \E r \in find_changed_files :
           /\ DOMAIN state' = StateFields /\ state'.monitored_dir = state.monitored_dir
           /\ state'.current_sample = state.current_sample + 1 /\ state.current_sample < MaxSamples
           /\ state'.queue = r.state.queue /\ state'.files = r.state.files
           /\ todo' \in Seq(Paths) /\ \A i, j \in DOMAIN todo' : todo'[i] = todo'[j] => i = j
           /\ ToSet(todo') = r.changed /\ (todo' = <<>> <=> r.changed = {})
           /\ pc' = IF r.changed = {} THEN "loop" ELSE "base"
           /\ UNCHANGED <<life, full, diffs, answer, fs, events, noticed, edits>>
<1>1. PICK r \in find_changed_files :
           /\ state' = [r.state EXCEPT !.current_sample = @ + 1]
           /\ todo' = SetToSeq(r.changed)
           /\ pc' = IF r.changed = {} THEN "loop" ELSE "base"
  BY DEF create_incremental_backup
<1>2. /\ DOMAIN r.state = StateFields /\ r.state.monitored_dir = state.monitored_dir
      /\ r.state.current_sample = state.current_sample /\ r.changed \subseteq Paths
  BY FilesChanged
<1>3. /\ DOMAIN state' = StateFields /\ state'.monitored_dir = state.monitored_dir
      /\ state'.current_sample = state.current_sample + 1
      /\ state'.queue = r.state.queue /\ state'.files = r.state.files
  BY <1>1, <1>2 DEF StateFields
<1>4. IsFiniteSet(r.changed)
  BY <1>2, Constants
<1>5. /\ todo' \in Seq(r.changed) /\ \A i, j \in DOMAIN todo' : todo'[i] = todo'[j] => i = j
      /\ ToSet(todo') = r.changed /\ (todo' = <<>> <=> r.changed = {})
  BY <1>1, <1>4, FilesInSequence
<1>6. todo' \in Seq(Paths)
  BY <1>2, <1>5
<1>7. UNCHANGED <<life, full, diffs, answer, fs, events, noticed, edits>> /\ state.current_sample < MaxSamples
  BY DEF create_incremental_backup, store, users
<1>8. QED
  BY <1>1, <1>3, <1>5, <1>6, <1>7

\* A sample keeps the types and the order.
LEMMA SampleKeepsStore == ASSUME StoreInv, D_Sample \/ I_Sample PROVE StoreInv'
<1>1. create_incremental_backup /\ pc \in Resting
  BY DEF D_Sample, I_Sample, Resting
<1>2. PICK r \in find_changed_files :
           /\ DOMAIN state' = StateFields /\ state'.monitored_dir = state.monitored_dir
           /\ state'.current_sample = state.current_sample + 1 /\ state.current_sample < MaxSamples
           /\ state'.queue = r.state.queue /\ state'.files = r.state.files
           /\ todo' \in Seq(Paths) /\ \A i, j \in DOMAIN todo' : todo'[i] = todo'[j] => i = j
           /\ ToSet(todo') = r.changed /\ (todo' = <<>> <=> r.changed = {})
           /\ pc' = IF r.changed = {} THEN "loop" ELSE "base"
           /\ UNCHANGED <<life, full, diffs, answer, fs, events, noticed, edits>>
  BY <1>1, SampleStarts
<1>3. state.current_sample \in 0..MaxSamples /\ MaxSamples \in Nat
  BY Constants DEF StoreInv, StateTyped
<1>4. state'.current_sample \in 1..MaxSamples
  BY <1>2, <1>3
<1>5. r.state.queue \subseteq Paths /\ DOMAIN r.state.files \subseteq Paths
      /\ \A p \in DOMAIN r.state.files : r.state.files[p] \in Nat /\ r.state.files[p] <= Oldest + edits
  <2>1. \A p \in Paths : fs[p].stat \in Nat /\ fs[p].stat <= Oldest + edits
    BY DEF StoreInv, UsersTyped
  <2>2. DOMAIN state.files \subseteq Paths /\ \A p \in DOMAIN state.files : state.files[p] \in Nat /\ state.files[p] <= Oldest + edits
    BY DEF StoreInv, StateTyped
  <2>3. QED
    BY <2>1, <2>2, FilesChanged
<1>6. UsersTyped' /\ StoreTyped' /\ DiffsFit'
  BY <1>2 DEF StoreInv, UsersTyped, StoreTyped, DiffsFit, Mine
<1>7. StateTyped'
  BY <1>2, <1>4, <1>5 DEF StoreInv, StateTyped
<1>8. WorkTyped'
  BY <1>2, <1>4 DEF WorkTyped, Resting, Saving, Starting
<1>9. SamplesInOrder'
  BY <1>2, <1>3, <1>4, SamplesStay DEF StoreInv, Saving, Starting
<1>10. QED
  BY <1>6, <1>7, <1>8, <1>9 DEF StoreInv

\* A file without a copy gets one: no diff of this life has waited for it.
LEMMA BaseKeepsStore == ASSUME StoreInv, SaveBase PROVE StoreInv' /\ \A n \in DOMAIN full : n \in DOMAIN full' /\ full'[n] = full[n]
<1>1. /\ pc = "base" /\ pc' = "diff" /\ UNCHANGED <<state, todo, life, diffs, answer, fs, events, noticed, edits>>
  BY DEF SaveBase, users
<1>2. PICK p : p = Head(todo)
  OBVIOUS
<1>3. p \in Paths
  BY <1>1, <1>2, FirstOfFiles DEF StoreInv, WorkTyped, Saving
<1>4. PICK n : n = make_backup_relative_path(p)
  OBVIOUS
<1>5. full' = IF fs[p].data = Absent \/ n \in DOMAIN full THEN full ELSE With(full, n, fs[p].data)
  BY <1>2, <1>4 DEF SaveBase
<1>6. DOMAIN full' \subseteq Names /\ \A m \in DOMAIN full' : full'[m] \in Contents \ {Absent}
  BY <1>3, <1>4, <1>5, CopyTyped DEF StoreInv, StoreTyped
<1>7. \A m \in DOMAIN full : m \in DOMAIN full' /\ full'[m] = full[m]
  <2>1. CASE fs[p].data = Absent \/ n \in DOMAIN full
    BY <1>5, <2>1
  <2>2. CASE ~(fs[p].data = Absent \/ n \in DOMAIN full)
    <3>1. PICK x : x = fs[p].data
      OBVIOUS
    <3>2. full' = With(full, n, x) /\ n \notin DOMAIN full
      BY <1>5, <2>2, <3>1
    <3>3. QED
      BY ONLY <3>2 DEF With
  <2>3. QED
    BY <2>1, <2>2
<1>8. UsersTyped' /\ StateTyped' /\ StoreTyped'
  BY <1>1, <1>6 DEF StoreInv, UsersTyped, StateTyped, StoreTyped
<1>9. WorkTyped'
  BY <1>1 DEF StoreInv, WorkTyped, Resting, Saving, Starting
<1>10. SamplesInOrder'
  BY <1>1, SamplesStay, Constants DEF StoreInv, StateTyped, Saving, Starting
<1>11. DiffsFit'
  BY <1>1, <1>7 DEF StoreInv, DiffsFit, Mine
<1>12. QED
  BY <1>7, <1>8, <1>9, <1>10, <1>11 DEF StoreInv

\* A diff as it is written now.
NewDiff(p, n) ==
  [base |-> IF n \in DOMAIN full THEN full[n] ELSE Absent, new |-> fs[p].data, path |-> p, life |-> life]

\* The first file of the sample gets a diff, under a name and the number of the sample.
LEMMA DiffSaved ==
  ASSUME StoreInv, save_diff
  PROVE  \E p \in Paths, n \in Names, k \in Names \X (1..MaxSamples) :
           /\ p = Head(todo) /\ n = make_backup_relative_path(p) /\ k = <<n, state.current_sample>>
           /\ pc = "diff" /\ todo' = Tail(todo) /\ pc' = IF Len(todo) > 1 THEN "base" ELSE "loop"
           /\ DOMAIN diffs' = DOMAIN diffs \cup {k} /\ diffs'[k] = NewDiff(p, n)
           /\ \A j \in DOMAIN diffs : j # k => diffs'[j] = diffs[j]
           /\ UNCHANGED <<state, life, full, answer, fs, events, noticed, edits>>
           /\ p \in ToSet(todo) /\ p \notin ToSet(todo') /\ ToSet(todo) = {p} \cup ToSet(todo')
           /\ todo' \in Seq(Paths) /\ \A i, j \in DOMAIN todo' : todo'[i] = todo'[j] => i = j
           /\ IF Len(todo) > 1 THEN todo' # <<>> ELSE todo' = <<>>
<1>1. PICK p : p = Head(todo)
  OBVIOUS
<1>2. /\ pc = "diff" /\ todo' = Tail(todo) /\ pc' = IF Len(todo) > 1 THEN "base" ELSE "loop"
      /\ UNCHANGED <<state, life, full, answer, fs, events, noticed, edits>>
  BY DEF save_diff, users
<1>3. /\ p \in Paths /\ p \in ToSet(todo) /\ p \notin ToSet(todo') /\ ToSet(todo) = {p} \cup ToSet(todo')
      /\ todo' \in Seq(Paths) /\ \A i, j \in DOMAIN todo' : todo'[i] = todo'[j] => i = j
      /\ IF Len(todo) > 1 THEN todo' # <<>> ELSE todo' = <<>>
  BY <1>1, <1>2, FirstOfFiles DEF StoreInv, WorkTyped, Saving
<1>4. PICK n \in Names : n = make_backup_relative_path(p)
  BY <1>3 DEF make_backup_relative_path, Names
<1>5. PICK k \in Names \X (1..MaxSamples) : k = <<n, state.current_sample>>
  <2>1. state.current_sample \in 1..MaxSamples
    BY <1>2, Constants DEF StoreInv, WorkTyped, StateTyped, Saving
  <2>2. QED
    BY <2>1
<1>6. diffs' = With(diffs, k, NewDiff(p, n))
  BY <1>1, <1>4, <1>5 DEF save_diff, NewDiff
<1>7. /\ DOMAIN diffs' = DOMAIN diffs \cup {k} /\ diffs'[k] = NewDiff(p, n)
      /\ \A j \in DOMAIN diffs : j # k => diffs'[j] = diffs[j]
  <2>1. PICK d : d = NewDiff(p, n)
    OBVIOUS
  <2>2. diffs' = With(diffs, k, d)
    BY <1>6, <2>1
  <2>3. /\ DOMAIN diffs' = DOMAIN diffs \cup {k} /\ diffs'[k] = d
        /\ \A j \in DOMAIN diffs : j # k => diffs'[j] = diffs[j]
    BY ONLY <2>2 DEF With
  <2>4. QED
    BY <2>1, <2>3
<1>8. QED
  BY <1>1, <1>2, <1>3, <1>4, <1>5, <1>7

\* A diff of one more file: its copy is the one that is there.
LEMMA DiffKeepsStore == ASSUME StoreInv, save_diff PROVE StoreInv'
<1>1. PICK p \in Paths, n \in Names, k \in Names \X (1..MaxSamples) :
           /\ p = Head(todo) /\ n = make_backup_relative_path(p) /\ k = <<n, state.current_sample>>
           /\ pc = "diff" /\ todo' = Tail(todo) /\ pc' = IF Len(todo) > 1 THEN "base" ELSE "loop"
           /\ DOMAIN diffs' = DOMAIN diffs \cup {k} /\ diffs'[k] = NewDiff(p, n)
           /\ \A j \in DOMAIN diffs : j # k => diffs'[j] = diffs[j]
           /\ UNCHANGED <<state, life, full, answer, fs, events, noticed, edits>>
           /\ p \in ToSet(todo) /\ p \notin ToSet(todo') /\ ToSet(todo) = {p} \cup ToSet(todo')
           /\ todo' \in Seq(Paths) /\ \A i, j \in DOMAIN todo' : todo'[i] = todo'[j] => i = j
           /\ IF Len(todo) > 1 THEN todo' # <<>> ELSE todo' = <<>>
  BY DiffSaved
<1>2. PICK d : d = NewDiff(p, n)
  OBVIOUS
<1>3. /\ DOMAIN d = DiffFields /\ d.path = p /\ d.life = life /\ d.new = fs[p].data
      /\ d.base = IF n \in DOMAIN full THEN full[n] ELSE Absent
  BY <1>2 DEF NewDiff, DiffFields
<1>4. life \in Nat \ {0} /\ d.base \in Contents /\ d.new \in Contents
  <2>1. d.new \in Contents
    BY <1>3, Constants DEF StoreInv, UsersTyped, Contents, Absent
  <2>2. d.base \in Contents
    BY <1>3, Constants DEF StoreInv, StoreTyped, Contents, Absent
  <2>3. QED
    BY <2>1, <2>2 DEF StoreInv, StoreTyped
<1>5. \A j \in DOMAIN diffs' : /\ DOMAIN diffs'[j] = DiffFields
                               /\ diffs'[j].base \in Contents /\ diffs'[j].new \in Contents
                               /\ diffs'[j].path \in Paths /\ diffs'[j].life \in 1..life
  <2> SUFFICES ASSUME NEW j \in DOMAIN diffs'
               PROVE  /\ DOMAIN diffs'[j] = DiffFields
                      /\ diffs'[j].base \in Contents /\ diffs'[j].new \in Contents
                      /\ diffs'[j].path \in Paths /\ diffs'[j].life \in 1..life
    OBVIOUS
  <2>1. CASE j = k
    BY <1>1, <1>2, <1>3, <1>4, <2>1
  <2>2. CASE j # k
    BY <1>1, <2>2 DEF StoreInv, StoreTyped
  <2>3. QED
    BY <2>1, <2>2
<1>6. UsersTyped' /\ StateTyped'
  BY <1>1 DEF StoreInv, UsersTyped, StateTyped
<1>7. StoreTyped'
  BY <1>1, <1>5 DEF StoreInv, StoreTyped
<1>8. WorkTyped'
  BY <1>1 DEF StoreInv, WorkTyped, Resting, Saving, Starting
<1>9. Mine' \subseteq Mine \cup {k} /\ \A j \in Mine' : j # k => j \in Mine /\ diffs'[j] = diffs[j]
  BY <1>1 DEF Mine
<1>10. SamplesInOrder'
  <2>1. k[1] = n /\ k[2] = state.current_sample
    BY <1>1
  <2>2. \A j \in Mine' : j[2] <= state'.current_sample
    <3>1. state.current_sample <= state.current_sample
      BY DEF StoreInv, StateTyped
    <3>2. QED
      BY <1>1, <1>9, <2>1, <3>1 DEF StoreInv, SamplesInOrder
  <2>3. ASSUME NEW j \in Mine', j[2] = state'.current_sample
        PROVE  j[1] = make_backup_relative_path(diffs[j].path)' /\ diffs'[j].path \notin ToSet(todo')
    <3>1. CASE j = k
      <4>1. diffs'[j].path = p
        BY <1>1, <1>2, <1>3, <3>1
      <4>2. make_backup_relative_path(p)' = n
        BY <1>1 DEF make_backup_relative_path
      <4>3. QED
        BY <1>1, <2>1, <3>1, <4>1, <4>2 DEF make_backup_relative_path
    <3>2. CASE j # k
      <4>1. j \in Mine /\ diffs'[j] = diffs[j] /\ j[2] = state.current_sample
        BY <1>1, <1>9, <2>3, <3>2
      <4>2. j[1] = make_backup_relative_path(diffs[j].path) /\ diffs[j].path \notin ToSet(todo)
        BY <1>1, <4>1 DEF StoreInv, SamplesInOrder, Saving
      <4>3. QED
        BY <1>1, <4>1, <4>2 DEF make_backup_relative_path
    <3>3. QED
      BY <3>1, <3>2
  <2>4. pc' \notin Starting
    BY <1>1 DEF Starting
  <2>5. QED
    BY <2>2, <2>3, <2>4 DEF SamplesInOrder
<1>11. DiffsFit'
  <2> SUFFICES ASSUME NEW j \in Mine', diffs'[j].base # Absent
               PROVE  j[1] \in DOMAIN full' /\ full'[j[1]] = diffs'[j].base
    BY DEF DiffsFit
  <2>1. CASE j = k
    BY <1>1, <1>2, <1>3, <2>1
  <2>2. CASE j # k
    BY <1>1, <1>9, <2>2 DEF StoreInv, DiffsFit
  <2>3. QED
    BY <2>1, <2>2
<1>12. QED
  BY <1>6, <1>7, <1>8, <1>10, <1>11 DEF StoreInv

-----------------------------------------------------------------------------
(* Commands and restarts. *)

\* What a restore gives is a version, or what patch makes of a diff of another copy.
LEMMA RestoreGives ==
  ASSUME StoreInv, NEW n \in DOMAIN full, NEW s, NEW r \in Restored(n, s)
  PROVE  r \in Contents \cup {Mixed}
<1>1. full[n] \in Contents
  BY DEF StoreInv, StoreTyped
<1>2. CASE <<n, s>> \in DOMAIN diffs
  <2>1. PICK d : d = diffs[<<n, s>>]
    OBVIOUS
  <2>2. d.new \in Contents /\ r \in Patch(full[n], d)
    BY <1>2, <2>1 DEF StoreInv, StoreTyped, Restored
  <2>3. Absent \in Contents
    BY Constants DEF Contents, Absent
  <2>4. QED
    BY <1>1, <2>2, <2>3 DEF Patch
<1>3. CASE <<n, s>> \notin DOMAIN diffs
  BY <1>1, <1>3 DEF Restored
<1>4. QED
  BY <1>2, <1>3

\* No command touches what is saved, the queue, or the number of the sample.
LEMMA CommandKeeps ==
  ASSUME StoreInv, NEW c, process_command(c)
  PROVE  /\ DOMAIN state' = StateFields /\ state'.monitored_dir \in Top
         /\ state'.current_sample = state.current_sample /\ state'.queue = state.queue
         /\ state'.files = state.files \/ state'.files = <<>>
         /\ \A r \in answer' : r.data \in (Contents \cup {Mixed}) \ {Absent}
<1>1. DOMAIN state = StateFields /\ state.monitored_dir \in Top
      /\ \A r \in answer : r.data \in (Contents \cup {Mixed}) \ {Absent}
  BY DEF StoreInv, StateTyped, StoreTyped
<1>2. CASE set_pid(c.dir) /\ UNCHANGED answer
  <2>1. CASE c.dir \in Top
    <3>1. state' = [state EXCEPT !.monitored_dir = c.dir, !.first_backup_done = FALSE, !.files = <<>>]
      BY <1>2, <2>1 DEF set_pid
    <3>2. PICK dir \in Top : dir = c.dir
      BY <2>1
    <3>3. /\ DOMAIN state' = StateFields /\ state'.monitored_dir = dir
          /\ state'.current_sample = state.current_sample /\ state'.queue = state.queue /\ state'.files = <<>>
      BY <1>1, <3>1, <3>2 DEF StateFields
    <3>4. QED
      BY <1>1, <1>2, <3>3
  <2>2. CASE c.dir \notin Top
    BY <1>1, <1>2, <2>2 DEF set_pid
  <2>3. QED
    BY <2>1, <2>2
<1>3. CASE restore_file_to_sample(c.name, c.sample) /\ UNCHANGED state
  <2>1. PICK n, s : n = c.name /\ s = c.sample
    OBVIOUS
  <2>2. restore_file_to_sample(n, s)
    BY <1>3, <2>1
  <2>3. \A r \in answer' : r.data \in (Contents \cup {Mixed}) \ {Absent}
    <3>1. CASE answer' = {}
      BY <3>1
    <3>2. CASE answer' # {}
      <4>1. PICK x \in Restored(n, s) :
              n \in DOMAIN full /\ x # Absent /\ answer' = {[name |-> n, sample |-> s, data |-> x]}
        BY <2>2, <3>2 DEF restore_file_to_sample
      <4>2. x \in (Contents \cup {Mixed}) \ {Absent}
        BY <4>1, RestoreGives
      <4>3. QED
        BY <4>1, <4>2
    <3>3. QED
      BY <3>1, <3>2
  <2>4. QED
    BY <1>1, <1>3, <2>3
<1>4. CASE set_period(c.ms) /\ UNCHANGED answer
  <2>1. \A ms : set_period(ms) => UNCHANGED state \/ state' = [state EXCEPT !.sample_period_ms = ms]
    <3> SUFFICES ASSUME NEW ms, set_period(ms)
                 PROVE  state' = state \/ state' = [state EXCEPT !.sample_period_ms = ms]
      OBVIOUS
    <3>1. CASE ms \in 1..LongestPeriod
      BY <3>1 DEF set_period
    <3>2. CASE ms \notin 1..LongestPeriod
      BY <3>2 DEF set_period
    <3>3. QED
      BY <3>1, <3>2
  <2>2. PICK ms : UNCHANGED state \/ state' = [state EXCEPT !.sample_period_ms = ms]
    BY <1>4, <2>1, Zenon
  <2>3. /\ DOMAIN state' = StateFields /\ state'.monitored_dir = state.monitored_dir
        /\ state'.current_sample = state.current_sample /\ state'.queue = state.queue /\ state'.files = state.files
    BY <1>1, <2>2 DEF StateFields
  <2>4. QED
    BY <1>1, <1>4, <2>3
<1>5. CASE UNCHANGED <<state, answer>>
  BY <1>1, <1>5
<1>6. QED
  BY <1>2, <1>3, <1>4, <1>5 DEF process_command

\* A command keeps the types, and changes nothing that is saved or to be saved.
LEMMA CommandsKeepStore ==
  ASSUME StoreInv, read_command \/ \E c \in Commands : I_Command(c)
  PROVE  /\ StoreInv' /\ UNCHANGED <<todo, life, full, diffs, fs, events, noticed, edits>> /\ pc' \in Resting
         /\ pc \in Resting
         /\ state'.queue = state.queue /\ (state'.files = state.files \/ state'.files = <<>>)
<1>1. /\ pc \in Resting /\ pc' \in Resting
      /\ UNCHANGED <<todo, life, full, diffs, fs, events, noticed, edits>>
  BY DEF read_command, I_Command, Resting
<1>2. /\ DOMAIN state' = StateFields /\ state'.monitored_dir \in Top
      /\ state'.current_sample = state.current_sample /\ state'.queue = state.queue
      /\ state'.files = state.files \/ state'.files = <<>>
      /\ \A r \in answer' : r.data \in (Contents \cup {Mixed}) \ {Absent}
  <2>1. CASE \E c : process_command(c)
    BY <2>1, CommandKeeps
  <2>2. CASE UNCHANGED <<state, answer>>
    BY <2>2 DEF StoreInv, StateTyped, StoreTyped
  <2>3. QED
    BY <2>1, <2>2 DEF read_command, I_Command
<1>3. DOMAIN <<>> = {}
  OBVIOUS
<1>4. StateTyped'
  BY <1>1, <1>2, <1>3 DEF StoreInv, StateTyped
<1>5. UsersTyped' /\ StoreTyped' /\ DiffsFit'
  BY <1>1, <1>2 DEF StoreInv, UsersTyped, StoreTyped, DiffsFit, Mine
<1>6. WorkTyped'
  BY <1>1, <1>2 DEF StoreInv, WorkTyped, Resting, Saving, Starting
<1>7. SamplesInOrder'
  BY <1>1, <1>2, SamplesStay, Constants DEF StoreInv, StateTyped, Resting, Saving, Starting
<1>8. QED
  BY <1>1, <1>2, <1>4, <1>5, <1>6, <1>7 DEF StoreInv

\* The first state of a program.
LEMMA NewState ==
  /\ DOMAIN init_monitor_state = StateFields /\ init_monitor_state.monitored_dir \in Top
  /\ init_monitor_state.current_sample = 0 /\ init_monitor_state.queue = {}
  /\ DOMAIN init_monitor_state.files = {}
<1>1. /\ DOMAIN init_monitor_state = StateFields /\ init_monitor_state.monitored_dir = Home
      /\ init_monitor_state.current_sample = 0 /\ init_monitor_state.queue = {}
      /\ init_monitor_state.files = <<>>
  BY DEF init_monitor_state, StateFields
<1>2. QED
  BY <1>1, Constants

\* The next program has no diffs of its own.
LEMMA RestartKeepsStore == ASSUME StoreInv, Restart PROVE StoreInv' /\ Mine' = {}
<1>1. /\ pc' = "start" /\ todo' = <<>> /\ life' = life + 1 /\ state' = init_monitor_state /\ answer' = {}
      /\ events' = {} /\ noticed' = {} /\ UNCHANGED <<full, diffs, fs, edits>>
  BY DEF Restart
<1>2. life \in Nat /\ \A k \in DOMAIN diffs : diffs[k].life \in 1..life
  BY DEF StoreInv, StoreTyped
<1>3. Mine' = {}
  BY <1>1, <1>2 DEF Mine
<1>4. UsersTyped' /\ StateTyped'
  BY <1>1, NewState, Constants DEF StoreInv, UsersTyped, StateTyped
<1>5. StoreTyped'
  BY <1>1, <1>2 DEF StoreInv, StoreTyped
<1>6. WorkTyped'
  BY <1>1, NewState DEF WorkTyped, Resting, Saving, Starting
<1>7. SamplesInOrder' /\ DiffsFit'
  BY <1>1, <1>3 DEF SamplesInOrder, DiffsFit, Saving
<1>8. QED
  BY <1>3, <1>4, <1>5, <1>6, <1>7 DEF StoreInv

-----------------------------------------------------------------------------
(* Types and diffs. *)

\* At the start nothing is saved.
LEMMA StoreInit == Init => StoreInv /\ Mine = {}
<1> SUFFICES ASSUME Init PROVE StoreInv /\ Mine = {}
  OBVIOUS
<1>1. /\ pc = "start" /\ todo = <<>> /\ life = 1 /\ state = init_monitor_state
      /\ full = <<>> /\ diffs = <<>> /\ answer = {} /\ events = {} /\ noticed = {} /\ edits = 0
      /\ DOMAIN full = {} /\ DOMAIN diffs = {} /\ DOMAIN todo = {}
  BY DEF Init
<1>2. /\ fs \in [Paths -> [data : Nat, stat : Nat]]
      /\ \A p \in Paths : fs[p].data <= Oldest + edits /\ fs[p].stat <= Oldest + edits
  <2>1. PICK v \in [Paths -> Nat] : /\ fs = [p \in Paths |-> [data |-> v[p], stat |-> v[p]]]
                                    /\ \A p \in Paths : v[p] <= Oldest
    <3> DEFINE v == [p \in Paths |-> IF p \in DOMAIN Present /\ Dir[p] \in dirs THEN Present[p] ELSE Absent]
    <3>1. \A p \in Paths : v[p] \in Nat /\ v[p] <= Oldest
      BY ConstantsAssumption, Constants DEF Absent, Blank
    <3>2. fs = [p \in Paths |-> [data |-> v[p], stat |-> v[p]]]
      BY DEF Init
    <3>3. v \in [Paths -> Nat]
      BY <3>1
    <3> HIDE DEF v
    <3>4. QED
      BY <3>1, <3>2, <3>3
  <2>2. \A p \in Paths : fs[p] = [data |-> v[p], stat |-> v[p]] /\ v[p] \in Nat
    BY <2>1
  <2>3. QED
    BY <1>1, <2>1, <2>2, Constants
<1>3. Mine = {}
  BY <1>1 DEF Mine
<1>4. UsersTyped
  BY <1>1, <1>2, Constants DEF UsersTyped
<1>5. StateTyped
  BY <1>1, NewState, Constants DEF StateTyped
<1>6. WorkTyped
  BY <1>1, NewState DEF WorkTyped, Resting, Saving, Starting
<1>7. StoreTyped
  BY <1>1 DEF StoreTyped
<1>8. SamplesInOrder /\ DiffsFit
  BY <1>1, <1>3 DEF SamplesInOrder, DiffsFit, Saving
<1>9. QED
  BY <1>3, <1>4, <1>5, <1>6, <1>7, <1>8 DEF StoreInv

\* Every step keeps the types and the order of the samples.
LEMMA StoreNext == StoreInv /\ [Next]_vars => StoreInv'
<1> SUFFICES ASSUME StoreInv, [Next]_vars PROVE StoreInv'
  OBVIOUS
<1>1. ASSUME NEW p \in Paths, Write(p) \/ Empty(p) \/ Delete(p) PROVE StoreInv'
  BY <1>1, UsersTouch, TouchKeepsStore DEF StoreInv
<1>2. CASE Users
  BY <1>1, <1>2, OtherKeepsStore, CommandsKeepStore DEF Users
<1>3. CASE Program
  BY <1>3, InotifyKeepsStore, FullKeepsStore, CopyKeepsStore, EventsKeepStore, BaseKeepsStore, DiffKeepsStore,
     CommandsKeepStore, SampleKeepsStore, OtherKeepsStore DEF Program
<1>4. CASE signal_handler \/ Kill
  BY <1>4, OtherKeepsStore
<1>5. CASE Restart
  BY <1>5, RestartKeepsStore
<1>6. CASE UNCHANGED vars
  <2>1. UNCHANGED <<pc, state, todo, life, full, diffs, answer, fs, events, noticed, edits>>
    BY <1>6 DEF vars, program, store, users
  <2>2. QED
    BY <2>1 DEF StoreInv, UsersTyped, StateTyped, WorkTyped, StoreTyped, SamplesInOrder, DiffsFit, Mine,
                make_backup_relative_path
<1>7. QED
  BY <1>2, <1>3, <1>4, <1>5, <1>6 DEF Next

\* In every state the files of a sample are saved once each, the samples of a life
\* are numbered in the order they are taken, and every diff belongs to its copy.
THEOREM StoreInvariance == Spec => []StoreInv
  BY StoreInit, StoreNext, PTL DEF Spec

\* The types: contents are versions, samples have their numbers, and the loop that
\* saves files has one to save.
THEOREM TypeCorrectness == Spec => []TypeOK
<1>1. StoreInv => TypeOK
  <2> SUFFICES ASSUME StoreInv PROVE TypeOK
    OBVIOUS
  <2>1. Contents \ {Absent} \subseteq {Blank} \cup Versions
    BY Constants DEF Contents, Absent, Blank, Versions
  <2>2. Range(full) \subseteq {Blank} \cup Versions
    BY <2>1 DEF StoreInv, StoreTyped, Range
  <2>3. \A r \in answer : r.data \in {Mixed, Blank} \cup Versions
    BY <2>1 DEF StoreInv, StoreTyped
  <2>4. QED
    BY <2>2, <2>3 DEF StoreInv, StateTyped, WorkTyped, StoreTyped, Starting, Saving, Resting, TypeOK
<1>2. QED
  BY <1>1, StoreInvariance, PTL

\* Every diff of this life was made of the copy that a restore starts from: no
\* later sample and no set_pid makes a copy anew.
THEOREM DiffsBelongToCopies == Spec => []DiffsFit
<1>1. StoreInv => DiffsFit
  BY DEF StoreInv
<1>2. QED
  BY <1>1, StoreInvariance, PTL

-----------------------------------------------------------------------------
(* Nothing is forgotten. *)

\* A diff stays what it is, and so does the file if nobody changes it.
LEMMA RecordedStays ==
  ASSUME UNCHANGED <<diffs, life>>, NEW p, fs'[p] = fs[p]
  PROVE  (Recorded(p)' <=> Recorded(p)) /\ (Text(p)' <=> Text(p))
<1>1. Mine' = Mine
  BY DEF Mine
<1>2. QED
  BY <1>1 DEF Recorded, Text

\* A step that saves nothing, and after which everything is on its way as before.
LEMMA SavedStays ==
  ASSUME SavedInv, UNCHANGED <<diffs, life, fs>>, noticed' \subseteq noticed,
         \A p \in noticed' : Text(p) => (OnItsWay(p) => Recorded(p) \/ OnItsWay(p)'),
         \A p \in DOMAIN state'.files :
            Text(p) /\ fs[p].stat = fs[p].data /\ state'.files[p] = fs[p].stat =>
              \/ p \in ToSet(todo')
              \/ Recorded(p)
              \/ p \in DOMAIN state.files /\ state.files[p] = fs[p].stat /\ p \notin ToSet(todo)
  PROVE  SavedInv'
<1>1. \A p : (Recorded(p)' <=> Recorded(p)) /\ (Text(p)' <=> Text(p))
  BY RecordedStays
<1>2. NoticedInv'
  BY <1>1 DEF SavedInv, NoticedInv
<1>3. ASSUME NEW p \in DOMAIN state'.files, Text(p)', fs'[p].stat = fs'[p].data, state'.files[p] = fs'[p].stat
      PROVE  Recorded(p)' \/ p \in ToSet(todo')
  BY <1>1, <1>3 DEF SavedInv, KnownIsSaved
<1>4. KnownIsSaved'
  BY <1>3 DEF KnownIsSaved
<1>5. QED
  BY <1>2, <1>4 DEF SavedInv

\* A change that is seen is an event; a change that stat() shows is newer than what
\* is remembered.
LEMMA TouchKeepsSaved ==
  ASSUME StoreInv, SavedInv, NEW new \in [Paths -> [data : Nat, stat : Nat]], Touch(new),
         \A q \in Paths : new[q] # fs[q] /\ new[q].data > Blank /\ new[q].stat = new[q].data =>
           new[q].data = Oldest + edits + 1
  PROVE  SavedInv'
<1> DEFINE ps   == {p \in Paths : new[p] # fs[p]}
           seen == {p \in ps : Dir[p] \in state.watches}
<1>1. /\ fs' = new /\ UNCHANGED <<pc, state, todo, life, full, diffs, answer>>
      /\ events' = events \cup {[type |-> IF new[p].data = Absent THEN "delete" ELSE "change", path |-> p] : p \in seen}
      /\ noticed' = (noticed \ ps) \cup seen
  BY DEF Touch, program, store
<1>2. ASSUME NEW p \in noticed', Text(p)' PROVE Recorded(p)' \/ OnItsWay(p)'
  <2>1. CASE p \in seen
    <3>1. PICK e : e = [type |-> IF new[p].data = Absent THEN "delete" ELSE "change", path |-> p]
      OBVIOUS
    <3>2. e \in events' /\ e.path = p /\ e.type \in {"change", "delete"}
      BY <1>1, <2>1, <3>1
    <3>3. QED
      BY <3>2 DEF OnItsWay
  <2>2. CASE p \notin seen
    <3>1. p \in noticed /\ fs'[p] = fs[p]
      BY <1>1, <2>2 DEF StoreInv, UsersTyped
    <3>2. Text(p) /\ (Recorded(p)' <=> Recorded(p))
      BY <1>1, <1>2, <3>1, RecordedStays
    <3>3. OnItsWay(p) => OnItsWay(p)'
      BY <1>1 DEF OnItsWay
    <3>4. QED
      BY <3>1, <3>2, <3>3 DEF SavedInv, NoticedInv
  <2>3. QED
    BY <2>1, <2>2
<1>3. ASSUME NEW p \in DOMAIN state.files, Text(p)', new[p].stat = new[p].data, state.files[p] = new[p].stat
      PROVE  Recorded(p)' \/ p \in ToSet(todo)
  <2>1. p \in Paths /\ state.files[p] \in Nat /\ state.files[p] <= Oldest + edits
    BY DEF StoreInv, StateTyped
  <2>2. new[p].data > Blank
    BY <1>1, <1>3 DEF Text
  <2>3. new[p] = fs[p]
    <3>1. edits \in Nat /\ Oldest \in Nat
      BY Constants DEF StoreInv, UsersTyped
    <3>2. new[p].data # Oldest + edits + 1
      BY <1>3, <2>1, <3>1
    <3>3. QED
      BY <1>3, <2>1, <2>2, <3>2
  <2>4. (Recorded(p)' <=> Recorded(p)) /\ (Text(p)' <=> Text(p))
    BY <1>1, <2>3, RecordedStays
  <2>5. QED
    BY <1>3, <2>3, <2>4 DEF SavedInv, KnownIsSaved
<1>4. NoticedInv'
  BY <1>2 DEF NoticedInv
<1>5. KnownIsSaved'
  BY <1>1, <1>3 DEF KnownIsSaved
<1>6. QED
  BY <1>4, <1>5 DEF SavedInv

\* Steps that leave both the queue and the files to save alone.
LEMMA OtherKeepsSaved ==
  ASSUME StoreInv, SavedInv,
         \/ \E d \in Sub : Mkdir(d)
         \/ \E c \in Commands : Ask(c)
         \/ D_NoSample \/ I_Wake \/ signal_handler \/ Kill
         \/ init_inotify \/ read_command \/ \E c \in Commands : I_Command(c)
         \/ SaveBase
  PROVE  SavedInv'
<1>1. DOMAIN <<>> = {}
  OBVIOUS
<1>2. CASE \/ \E d \in Sub : Mkdir(d)
           \/ \E c \in Commands : Ask(c)
           \/ D_NoSample \/ I_Wake \/ signal_handler \/ Kill
  <2>1. UNCHANGED <<state, todo, life, full, diffs, answer, fs, noticed>> /\ events \subseteq events'
    BY <1>2 DEF Mkdir, Ask, D_NoSample, I_Wake, signal_handler, Kill, program, store, users
  <2>2. pc' = pc \/ pc' = "stopped" \/ (pc \notin Saving \cup {"stopped"})
    BY <1>2 DEF Mkdir, Ask, D_NoSample, I_Wake, signal_handler, Kill, program, store, users, Saving
  <2>3. \A p : OnItsWay(p) => OnItsWay(p)'
    BY <2>1, <2>2 DEF OnItsWay
  <2>4. QED
    BY <2>1, <2>3, SavedStays
<1>3. CASE init_inotify
  <2>1. /\ pc = "start" /\ state' = [state EXCEPT !.watches = Below(state.monitored_dir)]
        /\ UNCHANGED <<todo, life, full, diffs, fs, events, noticed>>
    BY <1>3 DEF init_inotify, store, users
  <2>2. state'.queue = state.queue /\ state'.files = state.files
    BY <2>1 DEF StoreInv, StateTyped, StateFields
  <2>3. \A p : OnItsWay(p) => OnItsWay(p)'
    BY <2>1, <2>2 DEF OnItsWay, Saving
  <2>4. QED
    BY <2>1, <2>2, <2>3, SavedStays
<1>4. CASE read_command \/ \E c \in Commands : I_Command(c)
  <2>1. /\ UNCHANGED <<todo, life, full, diffs, fs, events, noticed>> /\ pc \in Resting
        /\ state'.queue = state.queue /\ (state'.files = state.files \/ state'.files = <<>>)
    BY <1>4, CommandsKeepStore
  <2>2. \A p : OnItsWay(p) => OnItsWay(p)'
    BY <2>1 DEF OnItsWay, Saving, Resting
  <2>3. QED
    BY <1>1, <2>1, <2>2, SavedStays
<1>5. CASE SaveBase
  <2>1. pc' = "diff" /\ UNCHANGED <<state, todo, life, diffs, fs, events, noticed>>
    BY <1>5 DEF SaveBase, users
  <2>2. \A p : OnItsWay(p) => OnItsWay(p)'
    BY <2>1 DEF OnItsWay, Saving
  <2>3. QED
    BY <2>1, <2>2, SavedStays
<1>6. QED
  BY <1>2, <1>3, <1>4, <1>5

\* The full backup forgets nothing: nothing is remembered of any file yet.
LEMMA FullKeepsSaved == ASSUME StoreInv, SavedInv, create_full_backup \/ CopyFull PROVE SavedInv'
<1>1. pc \in {"full", "copy"} /\ UNCHANGED <<life, diffs, fs, events, noticed>>
  BY DEF create_full_backup, CopyFull, store, users
<1>2. state'.queue = state.queue /\ state'.files = state.files
  <2>1. state' = state \/ state' = [state EXCEPT !.first_backup_done = TRUE]
    BY DEF create_full_backup, CopyFull
  <2>2. QED
    BY <2>1 DEF StoreInv, StateTyped, StateFields
<1>3. DOMAIN state.files = {}
  BY <1>1 DEF StoreInv, WorkTyped, Starting
<1>4. \A p : OnItsWay(p) => OnItsWay(p)'
  BY <1>1, <1>2 DEF OnItsWay, Saving
<1>5. QED
  BY <1>1, <1>2, <1>3, <1>4, SavedStays

\* What is reported of a text file is put into the queue.
LEMMA EventsKeepSaved == ASSUME StoreInv, SavedInv, process_inotify_events PROVE SavedInv'
<1>1. pc = "loop" /\ UNCHANGED <<todo, life, diffs, fs, noticed>>
  BY DEF process_inotify_events
<1>2. /\ state'.files = state.files
      /\ state'.queue = state.queue \cup
           {e.path : e \in {x \in events : x.type = "delete" \/ (x.type = "change" /\ Text(x.path))}}
  BY DEF process_inotify_events, StoreInv, StateTyped, StateFields
<1>3. ASSUME NEW p, Text(p), OnItsWay(p) PROVE OnItsWay(p)'
  <2>1. p \in state.queue \/ \E e \in events : e.path = p /\ e.type \in {"change", "delete"}
    BY <1>1, <1>3 DEF OnItsWay, Saving
  <2>2. p \in state'.queue
    BY <1>2, <1>3, <2>1
  <2>3. QED
    BY <2>2 DEF OnItsWay
<1>4. QED
  BY <1>1, <1>2, <1>3, SavedStays

\* The queue becomes the files to save, and what is remembered of a file is
\* compared first.
LEMMA SampleKeepsSaved == ASSUME StoreInv, SavedInv, D_Sample \/ I_Sample PROVE SavedInv'
<1>1. create_incremental_backup /\ pc \in Resting /\ todo = <<>>
  BY DEF D_Sample, I_Sample, Resting, StoreInv, WorkTyped
<1>2. PICK r \in find_changed_files :
           /\ state'.queue = r.state.queue /\ state'.files = r.state.files
           /\ ToSet(todo') = r.changed
           /\ pc' = IF r.changed = {} THEN "loop" ELSE "base"
           /\ UNCHANGED <<life, full, diffs, fs, events, noticed>>
  BY <1>1, SampleStarts
<1>3. ToSet(todo) = {}
  BY <1>1 DEF ToSet
<1>4. ASSUME NEW p, OnItsWay(p) PROVE OnItsWay(p)'
  <2>1. CASE \E e \in events : e.path = p /\ e.type \in {"change", "delete"}
    BY <1>2, <2>1 DEF OnItsWay
  <2>2. CASE p \in state.queue
    <3>1. p \in r.changed
      BY <2>2, FilesChanged
    <3>2. QED
      BY <1>2, <3>1 DEF OnItsWay, Saving
  <2>3. QED
    BY <1>1, <1>4, <2>1, <2>2 DEF OnItsWay, Saving, Resting
<1>5. ASSUME NEW p \in DOMAIN state'.files, state'.files[p] = fs[p].stat
      PROVE  p \in ToSet(todo') \/ (p \in DOMAIN state.files /\ state.files[p] = fs[p].stat /\ p \notin ToSet(todo))
  <2>1. CASE r.state.files = state.files
    BY <1>2, <1>3, <1>5, <2>1
  <2>2. CASE r.state.files # state.files
    <3>1. PICK found \in SUBSET Paths :
            /\ r.changed = {q \in found : q \notin DOMAIN state.files \/ state.files[q] # fs[q].stat}
            /\ DOMAIN r.state.files = DOMAIN state.files \cup found
            /\ \A q \in DOMAIN r.state.files :
                 r.state.files[q] = IF q \in found THEN fs[q].stat ELSE state.files[q]
      BY <2>2, FilesChanged
    <3>2. QED
      BY <1>2, <1>3, <1>5, <3>1
  <2>3. QED
    BY <2>1, <2>2
<1>6. QED
  BY <1>2, <1>4, <1>5, SavedStays

\* The names of two files in one sample are not the same.
LEMMA NamesInSample ==
  ASSUME NamesDistinct, NEW p \in Paths, NEW q \in Paths,
         make_backup_relative_path(p) = make_backup_relative_path(q)
  PROVE  p = q
  BY DEF NamesDistinct, make_backup_relative_path

\* A diff that is written in this life replaces none of it.
LEMMA DiffIsNew ==
  ASSUME StoreInv, NamesDistinct, NEW p \in Paths, p \in ToSet(todo), pc = "diff"
  PROVE  <<make_backup_relative_path(p), state.current_sample>> \notin Mine
<1> SUFFICES ASSUME NEW k \in Mine, k = <<make_backup_relative_path(p), state.current_sample>>
             PROVE  FALSE
  OBVIOUS
<1>1. k[1] = make_backup_relative_path(p) /\ k[2] = state.current_sample
  OBVIOUS
<1>2. k[1] = make_backup_relative_path(diffs[k].path) /\ diffs[k].path \notin ToSet(todo)
  BY <1>1 DEF StoreInv, SamplesInOrder, Saving
<1>3. diffs[k].path \in Paths
  BY DEF StoreInv, StoreTyped, Mine
<1>4. QED
  BY <1>1, <1>2, <1>3, NamesInSample

\* A diff records the file as it is now.
LEMMA DiffKeepsSaved == ASSUME StoreInv, NamesDistinct, SavedInv, save_diff PROVE SavedInv'
<1>1. PICK p \in Paths, n \in Names, k \in Names \X (1..MaxSamples) :
           /\ n = make_backup_relative_path(p) /\ k = <<n, state.current_sample>>
           /\ pc = "diff" /\ pc' = IF Len(todo) > 1 THEN "base" ELSE "loop"
           /\ DOMAIN diffs' = DOMAIN diffs \cup {k} /\ diffs'[k] = NewDiff(p, n)
           /\ \A j \in DOMAIN diffs : j # k => diffs'[j] = diffs[j]
           /\ UNCHANGED <<state, life, full, fs, events, noticed>>
           /\ p \in ToSet(todo) /\ p \notin ToSet(todo') /\ ToSet(todo) = {p} \cup ToSet(todo')
           /\ IF Len(todo) > 1 THEN todo' # <<>> ELSE todo' = <<>>
  BY DiffSaved
<1>2. k \notin Mine /\ k[2] = state.current_sample
  BY <1>1, DiffIsNew
<1>3. diffs'[k].path = p /\ diffs'[k].life = life /\ diffs'[k].new = fs[p].data
  BY <1>1 DEF NewDiff
<1>4. Mine' = Mine \cup {k} /\ \A j \in Mine : diffs'[j] = diffs[j]
  BY <1>1, <1>2, <1>3 DEF Mine
<1>5. Recorded(p)'
  <2>1. state.current_sample <= state.current_sample /\ \A j \in Mine : j[2] <= k[2]
    BY <1>2 DEF StoreInv, StateTyped, SamplesInOrder
  <2>2. \A j \in Mine' : j[2] <= k[2]
    BY <1>2, <1>4, <2>1
  <2>3. QED
    BY <1>1, <1>3, <1>4, <2>2 DEF Recorded
<1>6. ASSUME NEW q, q # p, Recorded(q) PROVE Recorded(q)'
  <2>1. PICK j \in Mine : /\ diffs[j].path = q /\ diffs[j].new = fs[q].data
                          /\ \A i \in Mine : diffs[i].path = q => i[2] <= j[2]
    BY <1>6 DEF Recorded
  <2>2. \A i \in Mine' : diffs'[i].path = q => i[2] <= j[2]
    BY <1>3, <1>4, <1>6, <2>1
  <2>3. j \in Mine' /\ diffs'[j].path = q /\ diffs'[j].new = fs'[q].data
    BY <1>1, <1>4, <2>1
  <2>4. QED
    BY <2>2, <2>3 DEF Recorded
<1>7. ASSUME NEW q, q # p, OnItsWay(q) PROVE OnItsWay(q)'
  <2>1. CASE q \in ToSet(todo)
    <3>1. q \in ToSet(todo')
      BY <1>1, <1>7, <2>1
    <3>2. todo' # <<>>
      BY <3>1 DEF ToSet
    <3>3. pc' = "base"
      BY <1>1, <3>2
    <3>4. QED
      BY <3>1, <3>3 DEF OnItsWay, Saving
  <2>2. CASE q \notin ToSet(todo)
    BY <1>1, <1>7, <2>2 DEF OnItsWay
  <2>3. QED
    BY <2>1, <2>2
<1>8. NoticedInv'
  <2> SUFFICES ASSUME NEW q \in noticed, Text(q) PROVE Recorded(q)' \/ OnItsWay(q)'
    BY <1>1 DEF NoticedInv, Text
  <2>1. QED
    BY <1>5, <1>6, <1>7 DEF SavedInv, NoticedInv
<1>9. KnownIsSaved'
  <2> SUFFICES ASSUME NEW q \in DOMAIN state.files, Text(q), fs[q].stat = fs[q].data, state.files[q] = fs[q].stat
               PROVE  Recorded(q)' \/ q \in ToSet(todo')
    BY <1>1 DEF KnownIsSaved, Text
  <2>1. Recorded(q) \/ q \in ToSet(todo)
    BY DEF SavedInv, KnownIsSaved
  <2>2. QED
    BY <1>1, <1>5, <1>6, <2>1
<1>10. QED
  BY <1>8, <1>9 DEF SavedInv

\* Every step keeps it.
LEMMA SavedNext == NamesDistinct /\ StoreInv /\ SavedInv /\ [Next]_vars => SavedInv'
<1> SUFFICES ASSUME NamesDistinct, StoreInv, SavedInv, [Next]_vars PROVE SavedInv'
  OBVIOUS
<1>1. ASSUME NEW p \in Paths, Write(p) \/ Empty(p) \/ Delete(p) PROVE SavedInv'
  BY <1>1, UsersTouch, TouchKeepsSaved DEF StoreInv
<1>2. CASE Users
  BY <1>1, <1>2, OtherKeepsSaved DEF Users
<1>3. CASE Program
  BY <1>3, OtherKeepsSaved, FullKeepsSaved, EventsKeepSaved, DiffKeepsSaved, SampleKeepsSaved DEF Program
<1>4. CASE signal_handler \/ Kill
  BY <1>4, OtherKeepsSaved
<1>5. CASE Restart
  <2>1. noticed' = {} /\ state'.files = <<>> /\ DOMAIN <<>> = {}
    BY <1>5 DEF Restart, init_monitor_state
  <2>2. QED
    BY <2>1 DEF SavedInv, NoticedInv, KnownIsSaved
<1>6. CASE UNCHANGED vars
  <2>1. UNCHANGED <<pc, state, todo, life, diffs, fs, events, noticed>>
    BY <1>6 DEF vars, program, store, users
  <2>2. \A p : OnItsWay(p) => OnItsWay(p)'
    BY <2>1 DEF OnItsWay
  <2>3. QED
    BY <2>1, <2>2, SavedStays
<1>7. QED
  BY <1>2, <1>3, <1>4, <1>5, <1>6 DEF Next

\* Every change that has been reported or compared is in a diff or on its way there.
LEMMA SavedInvariance == NamesDistinct /\ Spec => [](StoreInv /\ SavedInv)
<1>1. Init => StoreInv /\ SavedInv
  <2> SUFFICES ASSUME Init PROVE StoreInv /\ SavedInv
    OBVIOUS
  <2>1. noticed = {} /\ state.files = <<>> /\ DOMAIN <<>> = {}
    BY DEF Init, init_monitor_state
  <2>2. QED
    BY <2>1, StoreInit DEF SavedInv, NoticedInv, KnownIsSaved
<1>2. NamesDistinct /\ StoreInv /\ SavedInv /\ [Next]_vars => (StoreInv /\ SavedInv)'
  BY StoreNext, SavedNext
<1>3. CASE NamesDistinct
  BY <1>1, <1>2, <1>3, PTL DEF Spec
<1>4. QED
  BY <1>3

\* If no two files have backups of one name, no change that inotify reports is
\* forgotten on its way to a diff.
THEOREM NoChangeForgotten == NamesDistinct => (Spec => []NothingForgotten)
<1>1. StoreInv /\ SavedInv => NothingForgotten
  BY DEF SavedInv, NoticedInv, OnItsWay, NothingForgotten, Saving
<1>2. QED
  BY <1>1, SavedInvariance, PTL

\* If no two files have backups of one name, what is remembered of stat() is never
\* ahead of the diffs: a file that looks unchanged has been saved.
THEOREM RememberedIsSaved == NamesDistinct => (Spec => []KnownIsSaved)
<1>1. StoreInv /\ SavedInv => KnownIsSaved
  BY DEF SavedInv
<1>2. QED
  BY <1>1, SavedInvariance, PTL

-----------------------------------------------------------------------------
(* What is saved stays what it was. *)

\* What a restore gives, for every whole diff of this life, and the files.
Kept == [k \in Whole |-> Restored(k[1], k[2])]
File == [p \in Paths |-> fs[p].data]

\* As long as the diffs and their copies stay, so does what they give back.
LEMMA KeptStays ==
  ASSUME StoreInv, UNCHANGED <<diffs, life>>, \A n \in DOMAIN full : n \in DOMAIN full' /\ full'[n] = full[n]
  PROVE  Kept' = Kept
<1>1. Mine' = Mine /\ Whole' = Whole
  BY DEF Mine, Whole
<1>2. ASSUME NEW k \in Whole PROVE Restored(k[1], k[2])' = Restored(k[1], k[2])
  <2>1. k[1] \in DOMAIN full
    BY DEF StoreInv, DiffsFit, Whole
  <2>2. full'[k[1]] = full[k[1]]
    BY <2>1
  <2>3. QED
    BY <2>2 DEF Restored, Patch
<1>3. QED
  BY <1>1, <1>2 DEF Kept

\* Without a diff of this life nothing is kept.
LEMMA NothingKept == (Mine = {} => Kept = <<>>) /\ (Mine' = {} => Kept' = <<>>)
<1>1. ASSUME Mine = {} PROVE Kept = <<>>
  <2>1. Whole = {}
    BY <1>1 DEF Whole
  <2>2. QED
    BY <2>1 DEF Kept
<1>2. ASSUME Mine' = {} PROVE Kept' = <<>>
  <2>1. Whole' = {}
    BY <1>2 DEF Whole
  <2>2. QED
    BY <2>1 DEF Kept
<1>3. QED
  BY <1>1, <1>2

\* A diff that is written gives back the file as it is now, and leaves the others.
LEMMA DiffIsKept == ASSUME StoreInv, NamesDistinct, save_diff PROVE Store!Save \/ Kept' = Kept
<1>1. PICK p \in Paths, n \in Names, k \in Names \X (1..MaxSamples) :
           /\ n = make_backup_relative_path(p) /\ k = <<n, state.current_sample>> /\ pc = "diff"
           /\ DOMAIN diffs' = DOMAIN diffs \cup {k} /\ diffs'[k] = NewDiff(p, n)
           /\ \A j \in DOMAIN diffs : j # k => diffs'[j] = diffs[j]
           /\ UNCHANGED <<state, life, full, fs>>
           /\ p \in ToSet(todo)
  BY ZenonT(30), DiffSaved
<1>2. k \notin Mine /\ k[1] = n /\ k = <<k[1], k[2]>>
  BY <1>1, DiffIsNew
<1>3. PICK d : d = NewDiff(p, n)
  OBVIOUS
<1>4. /\ d.path = p /\ d.life = life /\ d.new = fs[p].data
      /\ d.base = IF n \in DOMAIN full THEN full[n] ELSE Absent
  BY <1>3 DEF NewDiff
<1>5. Mine' = Mine \cup {k} /\ \A j \in Mine : diffs'[j] = diffs[j] /\ j # k
  BY <1>1, <1>2, <1>3, <1>4 DEF Mine
<1>6. Whole' = Whole \cup (IF Absent \in {d.base, d.new} THEN {} ELSE {k})
  BY <1>1, <1>2, <1>3, <1>5 DEF Whole
<1>7. ASSUME NEW j \in Whole PROVE Restored(j[1], j[2])' = Restored(j[1], j[2])
  <2>1. j \in DOMAIN diffs /\ j # k /\ j = <<j[1], j[2]>>
    BY <1>5 DEF Whole, Mine, StoreInv, StoreTyped
  <2>2. <<j[1], j[2]>> \in DOMAIN diffs' /\ diffs'[<<j[1], j[2]>>] = diffs[<<j[1], j[2]>>]
    BY <1>1, <2>1
  <2>3. QED
    BY <1>1, <2>1, <2>2 DEF Restored, Patch
<1>8. CASE Absent \in {d.base, d.new}
  BY <1>6, <1>7, <1>8 DEF Kept
<1>9. CASE Absent \notin {d.base, d.new}
  <2>1. n \in DOMAIN full /\ d.base = full[n] /\ d.new = File[p]
    BY <1>4, <1>9 DEF File
  <2>2. Restored(k[1], k[2])' = {File[p]}
    <3>1. <<k[1], k[2]>> \in DOMAIN diffs' /\ diffs'[<<k[1], k[2]>>] = d
      BY <1>1, <1>2, <1>3
    <3>2. Restored(k[1], k[2])' = Patch(full[n], d)
      BY <1>1, <1>2, <3>1 DEF Restored, Patch
    <3>3. QED
      BY <1>9, <2>1, <3>2 DEF Patch
  <2>3. Whole' = Whole \cup {k} /\ k \notin Whole
    BY <1>2, <1>6, <1>9 DEF Whole
  <2>4. DOMAIN Kept = Whole /\ DOMAIN Kept' = Whole \cup {k}
    BY <2>3 DEF Kept
  <2>5. Kept' = [j \in DOMAIN Kept \cup {k} |-> IF j = k THEN {File[p]} ELSE Kept[j]]
    BY <1>7, <2>2, <2>3, <2>4 DEF Kept
  <2>6. File' = File /\ p \in DOMAIN File /\ k \in DOMAIN Kept' \ DOMAIN Kept
    BY <1>1, <2>3, <2>4 DEF File
  <2>7. QED
    BY <2>5, <2>6 DEF Store!Save, Kept, File
<1>10. QED
  BY <1>8, <1>9

\* Every step keeps what is kept, adds the content of one file, or forgets
\* everything when the program is started anew.
LEMMA StoreStep == NamesDistinct /\ StoreInv /\ [Next]_vars => [Store!Next]_<<File, Kept>>
<1> SUFFICES ASSUME NamesDistinct, StoreInv, [Next]_vars PROVE Kept' = Kept \/ Store!Save \/ Store!Forget
  BY DEF Store!Next, Store!Write, Kept, File
<1>1. CASE UNCHANGED <<full, diffs, life>>
  BY <1>1, KeptStays
<1>2. CASE Users
  <2>1. UNCHANGED <<full, diffs, life>>
    BY <1>2 DEF Users, Write, Empty, Delete, Touch, Mkdir, Ask, I_Command, program, store
  <2>2. QED
    BY <1>1, <2>1
<1>3. CASE CopyFull
  <2>1. Mine = {} /\ Mine' = {}
    BY <1>3 DEF StoreInv, SamplesInOrder, CopyFull, Starting, Mine
  <2>2. QED
    BY <2>1, NothingKept
<1>4. CASE SaveBase
  <2>1. UNCHANGED <<diffs, life>>
    BY <1>4 DEF SaveBase
  <2>2. QED
    BY <1>4, <2>1, BaseKeepsStore, KeptStays
<1>5. CASE save_diff
  BY <1>5, DiffIsKept
<1>6. CASE Restart
  <2>1. fs' = fs /\ Mine' = {}
    BY <1>6, RestartKeepsStore DEF Restart
  <2>2. Kept' = <<>> /\ File' = File
    BY <2>1, NothingKept DEF File
  <2>3. QED
    BY <2>2 DEF Store!Forget, Kept, File
<1>7. CASE Program /\ ~CopyFull /\ ~SaveBase /\ ~save_diff
  <2>1. UNCHANGED <<full, diffs, life>>
    BY <1>7 DEF Program, init_inotify, create_full_backup, process_inotify_events, read_command, D_Sample,
                D_NoSample, I_Sample, I_Wake, create_incremental_backup, store
  <2>2. QED
    BY <1>1, <2>1
<1>8. CASE signal_handler \/ Kill
  <2>1. UNCHANGED <<full, diffs, life>>
    BY <1>8 DEF signal_handler, Kill, store
  <2>2. QED
    BY <1>1, <2>1
<1>9. CASE UNCHANGED vars
  <2>1. UNCHANGED <<full, diffs, life>>
    BY <1>9 DEF vars, program, store
  <2>2. QED
    BY <1>1, <2>1
<1>10. QED
  BY <1>2, <1>3, <1>4, <1>5, <1>6, <1>7, <1>8, <1>9 DEF Next

\* If no two files have backups of one name, the daemon keeps versions as promised:
\* what a diff of this life gives back is the content that its file had when the
\* diff was made, and no later step of anybody changes that.
THEOREM BackupKeepsVersions == NamesDistinct => (Spec => KeepsVersions)
<1>1. Init => Store!Init
  BY StoreInit, NothingKept DEF Store!Init, Kept
<1>2. NamesDistinct /\ StoreInv /\ [Next]_vars => [Store!Next]_<<File, Kept>>
  BY StoreStep
<1>3. KeepsVersions <=> Store!Init /\ [][Store!Next]_<<File, Kept>>
  BY DEF KeepsVersions, Store!Spec, File, Kept
<1>4. CASE NamesDistinct
  BY <1>1, <1>2, <1>3, <1>4, StoreInvariance, PTL DEF Spec
<1>5. QED
  BY <1>4

=============================================================================
