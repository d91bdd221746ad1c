---------------------------- MODULE BackupDaemon ----------------------------
(***************************************************************************)
(* task_6/homework: a program that follows the text files below the working*)
(* directory of a process.  At its start it copies them ("full_" files);   *)
(* whenever inotify or stat() shows that a file has changed it writes, as  *)
(* part of a numbered sample, the difference between that copy and the     *)
(* file ("diff_" files), from which a restore builds an earlier version.   *)
(* It runs as a daemon that reads commands from a FIFO, or interactively.  *)
(* Copies and diffs outlive the program; its counters do not.              *)
(*                                                                         *)
(* The content of a file is a number: Absent, Blank (an empty file, which  *)
(* libmagic does not call text), or a version.                             *)
(***************************************************************************)
EXTENDS Integers, Sequences, FiniteSets, SequencesExt, Functions

CONSTANTS
  Top,          \* directories in which a process may work
  Sub,          \* directories below them
  Parent,       \* the directory in Top that a directory of Sub lies in
  Paths,        \* the files, by their full paths
  Dir,          \* the directory of a file
  Rel,          \* the name a file's backups have while its directory is followed
  Present,      \* the versions of the files that exist at the start
  Home,         \* the directory of the process given on the command line
  Modes,        \* subset of {"daemon", "interactive"}
  Commands,     \* what users may ask for
  Stops,        \* subset of {"SIGTERM", "SIGKILL"}
  MaxEdits, MaxSamples,      \* bounds of the model: changes of files, samples,
  MaxIncidents               \* and commands and restarts together

Absent == 0
Blank  == 1
Oldest == Blank + Cardinality(Paths)      \* the last version that exists at the start
Mixed  == -1         \* what patch makes of a diff that belongs to another copy

ASSUME ConstantsAssumption ==
  /\ Home \in Top
  /\ IsFiniteSet(Paths)
  /\ DOMAIN Present \subseteq Paths /\ \A p \in DOMAIN Present : Present[p] \in Blank + 1..Oldest
  /\ Parent \in [Sub -> Top] /\ Dir \in [Paths -> Top \cup Sub]
  /\ Modes \subseteq {"daemon", "interactive"} /\ Stops \subseteq {"SIGTERM", "SIGKILL"}
  /\ {MaxEdits, MaxSamples, MaxIncidents} \subseteq Nat

VARIABLES
  mode,         \* of the program
  pc,           \* where the program is
  state,        \* its MonitorState
  todo,         \* the files that the full backup or the sample still has to save
  full,         \* the full_ files: name |-> content
  diffs,        \* the diff_ files: <<name, sample>> |-> what was compared, in which life
  answer,       \* what a restore in this round of the loop gave: name, sample and restored content
  life,         \* how often the program has been started
  fs,           \* the files: content, and what stat() tells apart
  dirs,         \* the directories that exist
  events,       \* what inotify has to report
  noticed,      \* the files whose last change inotify reported to this life
  fifo,         \* the lines in the command FIFO
  edits, asked  \* how often users have changed something, or sent a command

program == <<mode, pc, state, todo, life>>
store   == <<full, diffs, answer>>
users   == <<fs, dirs, events, noticed, fifo, edits, asked>>
vars    == <<program, store, users>>

Text(p) == fs[p].data > Blank

\* A file is written under a name, which may be that of another.
With(files, n, x) == [m \in DOMAIN files \cup {n} |-> IF m = n THEN x ELSE files[m]]

Root(d) == IF d \in Sub THEN Parent[d] ELSE d
Below(d) == {e \in dirs : Root(e) = d}

\* The name of a file's backups: relative to the directory that is followed,
\* the full path for a file elsewhere.
make_backup_relative_path(p) == IF Root(Dir[p]) = state.monitored_dir THEN Rel[p] ELSE p

init_monitor_state ==
  [monitored_dir |-> Home, current_sample |-> 0, first_backup_done |-> FALSE, sample_period_ms |-> 10000,
   files |-> <<>>, watches |-> {}, queue |-> {}]

Init ==
  /\ mode \in Modes
  /\ pc = "start" /\ todo = <<>> /\ life = 1
  /\ state = init_monitor_state
  /\ full = <<>> /\ diffs = <<>> /\ answer = {}
  /\ \E s \in SUBSET Sub : dirs = Top \cup s
  /\ fs = [p \in Paths |-> LET v == IF p \in DOMAIN Present /\ Dir[p] \in dirs THEN Present[p] ELSE Absent
                           IN [data |-> v, stat |-> v]]
  /\ events = {} /\ noticed = {} /\ fifo = <<>> /\ edits = 0 /\ asked = 0

-----------------------------------------------------------------------------
(* The users of the directories.  A file that is moved in is a new version, one *)
(* that is moved away a deletion: inotify and the program treat them alike.      *)

\* The files in ps change, and inotify reports what happens in a watched
\* directory.
Touch(new) ==
  LET ps   == {p \in Paths : new[p] # fs[p]}
      seen == {p \in ps : Dir[p] \in state.watches}
  IN /\ edits < MaxEdits /\ edits' = edits + 1
     /\ fs' = new
     /\ events' = events \cup {[type |-> IF new[p].data = Absent THEN "delete" ELSE "change", path |-> p] : p \in seen}
     /\ noticed' = (noticed \ ps) \cup seen
     /\ UNCHANGED <<program, store, dirs, fifo, asked>>

\* A new version; within the same second and with the same size, stat() does
\* not show it.
Write(p) ==
  /\ Dir[p] \in dirs
  /\ \E shown \in IF fs[p].data > Blank THEN BOOLEAN ELSE {TRUE} :
       LET v == Oldest + edits + 1 IN
       Touch([fs EXCEPT ![p] = [data |-> v, stat |-> IF shown THEN v ELSE @.stat]])

Empty(p) ==
  /\ Dir[p] \in dirs /\ fs[p].data # Blank
  /\ Touch([fs EXCEPT ![p] = [data |-> Blank, stat |-> Blank]])

Delete(p) ==
  /\ fs[p].data # Absent
  /\ Touch([fs EXCEPT ![p] = [data |-> Absent, stat |-> Absent]])

Mkdir(d) ==
  /\ d \notin dirs /\ edits < MaxEdits
  /\ dirs' = dirs \cup {d} /\ edits' = edits + 1
  /\ events' = events \cup {[type |-> "mkdir", path |-> d] : e \in {Parent[d]} \cap state.watches}
  /\ UNCHANGED <<program, store, fs, noticed, fifo, asked>>

\* echo <command> > FIFO, while the daemon has the FIFO open.
Ask(c) ==
  /\ mode = "daemon" /\ pc \notin {"start", "stopped"}
  /\ asked + life <= MaxIncidents /\ asked' = asked + 1
  /\ fifo' = Append(fifo, c)
  /\ UNCHANGED <<program, store, fs, dirs, events, noticed, edits>>

-----------------------------------------------------------------------------
(* Start: watch first, then copy what is there. *)

\* The results search_files_in_dir() may have: the call for a subdirectory
\* counts from 0 again, so that the files it finds take the places of files
\* found before, and only as many as the directory itself has are returned.
search_files_in_dir(d) ==
  LET own   == {p \in Paths : Dir[p] = d /\ Text(p)}
      lower == {p \in Paths : Dir[p] # d /\ Root(Dir[p]) = d /\ Text(p)}
  IN {(own \ z[1]) \cup z[2] :
        z \in {y \in (SUBSET own) \X (SUBSET lower) : Cardinality(y[1]) = Cardinality(y[2])}}

init_inotify ==
  /\ pc = "start" /\ pc' = "full"
  /\ state' = [state EXCEPT !.watches = Below(state.monitored_dir)]
  /\ UNCHANGED <<mode, todo, life, store, users>>

create_full_backup_Empty ==      \* a variant: does not test file_count
  /\ pc = "full" /\ pc' = "copy"
  /\ \E found \in search_files_in_dir(state.monitored_dir) : todo' = SetToSeq(found)
  /\ UNCHANGED <<mode, state, life, store, users>>

create_full_backup ==
  /\ pc = "full"
  /\ \E found \in search_files_in_dir(state.monitored_dir) :
       todo' = SetToSeq(found) /\ pc' = IF found = {} THEN "loop" ELSE "copy"
  /\ UNCHANGED <<mode, state, life, store, users>>

\* One file of the full backup.  A file that is gone is left out.
CopyFull ==
  LET p == Head(todo) IN
  /\ pc = "copy"
  /\ full' = IF fs[p].data = Absent THEN full ELSE With(full, make_backup_relative_path(p), fs[p].data)
  /\ todo' = Tail(todo)
  /\ IF Len(todo) > 1 THEN UNCHANGED <<pc, state>>
     ELSE pc' = "loop" /\ state' = [state EXCEPT !.first_backup_done = TRUE]
  /\ UNCHANGED <<mode, life, diffs, answer, users>>

-----------------------------------------------------------------------------
(* Samples. *)

process_inotify_events_Replaces ==      \* a variant: the queue starts anew
  /\ pc = "loop" /\ pc' = IF mode = "daemon" THEN "command" ELSE "input"
  /\ state' = [state EXCEPT !.queue = {e.path : e \in {x \in events : x.type = "change" /\ Text(x.path)}}]
  /\ events' = {} /\ answer' = {}
  /\ UNCHANGED <<mode, todo, life, full, diffs, fs, dirs, noticed, fifo, edits, asked>>

\* Whether the file is text is asked when the event is handled; a deleted file
\* is taken for one.
process_inotify_events ==
  /\ pc = "loop" /\ pc' = IF mode = "daemon" THEN "command" ELSE "input"
  /\ state' = [state EXCEPT
       !.watches = @ \cup {e.path : e \in {x \in events : x.type = "mkdir"}},
       !.queue = @ \cup {e.path : e \in {x \in events : x.type = "delete" \/ (x.type = "change" /\ Text(x.path))}}]
  /\ events' = {} /\ answer' = {}
  /\ UNCHANGED <<mode, todo, life, full, diffs, fs, dirs, noticed, fifo, edits, asked>>

\* What stat() shows of the files that were found is remembered.
Remember(found) ==
  [state EXCEPT !.files = [p \in DOMAIN @ \cup found |-> IF p \in found THEN fs[p].stat ELSE @[p]]]

find_changed_files_OnlyKnown ==      \* a variant: remembers a new file without saving it
  {[changed |-> {p \in found \cap DOMAIN state.files : state.files[p] # fs[p].stat},
    state   |-> Remember(found)] :
      found \in search_files_in_dir(state.monitored_dir)}

\* The changed files: those in the queue, or, if it is empty, those whose stat()
\* differs from the one remembered.
find_changed_files ==
  IF state.queue # {}
  THEN {[changed |-> state.queue, state |-> [state EXCEPT !.queue = {}]]}
  ELSE {[changed |-> {p \in found : p \notin DOMAIN state.files \/ state.files[p] # fs[p].stat},
         state   |-> Remember(found)] :
           found \in search_files_in_dir(state.monitored_dir)}

create_incremental_backup_SameNumber ==      \* a variant: forgets current_sample++
  /\ \E r \in find_changed_files :
       /\ state' = r.state /\ todo' = SetToSeq(r.changed)
       /\ pc' = IF r.changed = {} THEN "loop" ELSE "base"
  /\ UNCHANGED <<mode, life, store, users>>

\* The sample gets the next number, even if nothing turns out to have changed.
create_incremental_backup ==
  /\ state.current_sample < MaxSamples
  /\ \E r \in find_changed_files :
       /\ state' = [r.state EXCEPT !.current_sample = @ + 1]
       /\ todo' = SetToSeq(r.changed)
       /\ pc' = IF r.changed = {} THEN "loop" ELSE "base"
  /\ UNCHANGED <<mode, life, store, users>>

SaveBase_Anew ==      \* a variant: does not test whether there is a copy
  LET p == Head(todo) IN
  /\ pc = "base" /\ pc' = "diff"
  /\ full' = IF fs[p].data = Absent THEN full ELSE With(full, make_backup_relative_path(p), fs[p].data)
  /\ UNCHANGED <<mode, state, todo, life, diffs, answer, users>>

\* A changed file without a copy gets one, of what it is now.
SaveBase ==
  LET p == Head(todo) n == make_backup_relative_path(p) IN
  /\ pc = "base" /\ pc' = "diff"
  /\ full' = IF fs[p].data = Absent \/ n \in DOMAIN full THEN full ELSE With(full, n, fs[p].data)
  /\ UNCHANGED <<mode, state, todo, life, diffs, answer, users>>

\* diff reads the file again.  It writes nothing if one of the two is missing.
save_diff ==
  LET p == Head(todo)
      n == make_backup_relative_path(p)
      d == [base |-> IF n \in DOMAIN full THEN full[n] ELSE Absent, new |-> fs[p].data, path |-> p, life |-> life]
  IN /\ pc = "diff"
     /\ diffs' = With(diffs, <<n, state.current_sample>>, d)
     /\ todo' = Tail(todo)
     /\ pc' = IF Len(todo) > 1 THEN "base" ELSE "loop"
     /\ UNCHANGED <<mode, state, life, full, answer, users>>

-----------------------------------------------------------------------------
(* Commands. *)

\* What patch makes of a copy and a diff.  An empty diff changes nothing, and a
\* diff of another copy fails or gives something else.
Patch(copy, d) ==
  IF Absent \in {d.base, d.new} \/ d.base = d.new THEN {copy}
  ELSE IF copy = d.base THEN {d.new}
  ELSE {Mixed, Absent}

\* The diff of exactly this sample is applied to the copy; without one the copy
\* is the result.
Restored(n, s) ==
  IF <<n, s>> \in DOMAIN diffs THEN Patch(full[n], diffs[<<n, s>>]) ELSE {full[n]}

restore_file_to_sample(n, s) ==
  IF s \in 1..state.current_sample /\ n \in DOMAIN full
  THEN \E r \in Restored(n, s) :
         answer' = IF r = Absent THEN {} ELSE {[name |-> n, sample |-> s, data |-> r]}
  ELSE answer' = {}

\* The watches stay where they are, and there is no full backup.
set_pid(d) ==
  state' = IF d \in Top
           THEN [state EXCEPT !.monitored_dir = d, !.first_backup_done = FALSE, !.files = <<>>]
           ELSE state

LongestPeriod == 3599999

\* The daemon computed its sleeping time when it started.
set_period(ms) ==
  state' = IF ms \in 1..LongestPeriod THEN [state EXCEPT !.sample_period_ms = ms] ELSE state

process_command(c) ==
  \/ c.type = "set_pid" /\ set_pid(c.dir) /\ UNCHANGED answer
  \/ c.type = "restore" /\ restore_file_to_sample(c.name, c.sample) /\ UNCHANGED state
  \/ c.type = "set_period" /\ set_period(c.ms) /\ UNCHANGED answer
  \/ c.type = "show" /\ UNCHANGED <<state, answer>>      \* show_diff, show_k_diffs, status

-----------------------------------------------------------------------------
(* The loop of the daemon. *)

\* One read takes all that has been written; only the first command counts.
read_command ==
  /\ mode = "daemon" /\ pc = "command" /\ pc' = "check"
  /\ IF fifo = <<>> THEN UNCHANGED <<state, answer>> ELSE process_command(Head(fifo))
  /\ fifo' = <<>>
  /\ UNCHANGED <<mode, todo, life, full, diffs, fs, dirs, events, noticed, edits, asked>>

SampleDue_First == ~state.first_backup_done      \* a variant

SampleDue == state.queue # {} \/ ~state.first_backup_done

D_Sample == mode = "daemon" /\ pc = "check" /\ SampleDue /\ create_incremental_backup

D_NoSample ==
  /\ mode = "daemon" /\ pc = "check" /\ pc' = "loop"
  /\ ~SampleDue
  /\ UNCHANGED <<mode, state, todo, life, store, users>>

-----------------------------------------------------------------------------
(* The interactive loop, in select(). *)

\* An empty line, or nothing within the period: a sample.
I_Sample == mode = "interactive" /\ pc = "input" /\ create_incremental_backup

I_Command(c) ==
  /\ mode = "interactive" /\ pc = "input" /\ pc' = "loop"
  /\ asked + life <= MaxIncidents /\ asked' = asked + 1
  /\ process_command(c)
  /\ UNCHANGED <<mode, todo, life, full, diffs, fs, dirs, events, noticed, fifo, edits>>

\* inotify wakes select(): round again, without a sample.
I_Wake ==
  /\ mode = "interactive" /\ pc = "input" /\ pc' = "loop"
  /\ events # {}
  /\ UNCHANGED <<mode, state, todo, life, store, users>>

-----------------------------------------------------------------------------
(* Ends and starts. *)

\* SIGTERM or SIGINT since the flag was last tested, or the command quit.
signal_handler ==
  /\ "SIGTERM" \in Stops
  /\ pc = "loop" /\ pc' = "stopped"
  /\ UNCHANGED <<mode, state, todo, life, store, users>>

Kill ==
  /\ "SIGKILL" \in Stops /\ pc # "stopped"
  /\ pc' = "stopped"
  /\ UNCHANGED <<mode, state, todo, life, store, users>>

\* The next program finds the backups of the last.
Restart ==
  /\ pc = "stopped" /\ asked + life <= MaxIncidents
  /\ pc' = "start" /\ todo' = <<>> /\ life' = life + 1
  /\ state' = init_monitor_state
  /\ answer' = {} /\ events' = {} /\ noticed' = {} /\ fifo' = <<>>
  /\ UNCHANGED <<mode, full, diffs, fs, dirs, edits, asked>>

-----------------------------------------------------------------------------
Users ==
  \/ \E p \in Paths : Write(p) \/ Empty(p) \/ Delete(p)
  \/ \E d \in Sub : Mkdir(d)
  \/ \E c \in Commands : Ask(c) \/ I_Command(c)

Program ==
  \/ init_inotify \/ create_full_backup \/ CopyFull
  \/ process_inotify_events \/ SaveBase \/ save_diff
  \/ read_command \/ D_Sample \/ D_NoSample
  \/ I_Sample \/ I_Wake

Next == Program \/ Users \/ signal_handler \/ Kill \/ Restart

Spec == Init /\ [][Next]_vars

\* The program is scheduled, and select() returns.
FairSpec == Spec /\ WF_vars(Program)

-----------------------------------------------------------------------------
(* Properties. *)

Versions == Blank + 1..Oldest + MaxEdits
Names    == {Rel[p] : p \in Paths} \cup Paths

TypeOK ==
  /\ pc \in {"start", "full", "copy", "loop", "command", "check", "base", "diff", "input", "stopped"}
  /\ todo \in Seq(Paths)
  /\ pc \in {"copy", "base", "diff"} => todo # <<>>
  /\ state.monitored_dir \in Top /\ state.current_sample \in 0..MaxSamples
  /\ state.queue \subseteq Paths /\ DOMAIN state.files \subseteq Paths
  /\ DOMAIN full \subseteq Names /\ Range(full) \subseteq {Blank} \cup Versions
  /\ DOMAIN diffs \subseteq Names \X (1..MaxSamples)
  /\ \A r \in answer : r.data \in {Mixed, Blank} \cup Versions

Mine == {k \in DOMAIN diffs : diffs[k].life = life}      \* the diffs of this life

\* Every diff of this life belongs to the copy that its restore will start
\* from: the copy has not been made anew, by a later sample or after set_pid.
\* The diffs of earlier lives are on disk under the numbers that this life counts
\* again, and belong to copies that it has replaced: for them it does not hold.
DiffsFit ==
  \A k \in Mine : diffs[k].base # Absent => k[1] \in DOMAIN full /\ full[k[1]] = diffs[k].base

\* What the diffs of this life give back is what the files were when the diffs
\* were made, and stays so.  A diff counts if both the copy and the file existed.
Whole == {k \in Mine : Absent \notin {diffs[k].base, diffs[k].new}}
Store == INSTANCE VersionStore
           WITH file <- [p \in Paths |-> fs[p].data], kept <- [k \in Whole |-> Restored(k[1], k[2])]
KeepsVersions == Store!Spec

Recorded(p) ==
  \E k \in Mine : /\ diffs[k].path = p /\ diffs[k].new = fs[p].data
                  /\ \A j \in Mine : diffs[j].path = p => j[2] <= k[2]

\* A change that inotify reports is not forgotten on its way to a diff, be the
\* file changed again while the sample is taken, or the directory left by set_pid.
NothingForgotten ==
  \A p \in noticed :
    Text(p) => \/ Recorded(p)
               \/ p \in state.queue \/ \E e \in events : e.path = p
               \/ pc \in {"base", "diff", "stopped"} /\ p \in ToSet(todo)

Over == pc = "stopped" \/ state.current_sample = MaxSamples

\* A program that goes on running saves every change that inotify reports.
ChangesRecorded == <>[](Over \/ \A p \in noticed : Text(p) => Recorded(p))

\* Nothing watches the directory named by set_pid; its files are found by
\* comparing stat().  A file whose stat() is the one remembered has been saved, or
\* is about to be: the remembered one is never ahead of the diffs.
KnownIsSaved ==
  \A p \in DOMAIN state.files :
    Text(p) /\ fs[p].stat = fs[p].data /\ state.files[p] = fs[p].stat =>
      Recorded(p) \/ p \in ToSet(todo)

\* A restore gives the file as it was when the sample was taken: the version of
\* its last change up to that sample.
RestoreIsVersion ==
  \A r \in answer : \A k \in Mine :
    /\ k[1] = r.name /\ k[2] <= r.sample /\ diffs[k].new # Absent
    /\ \A j \in Mine : j[1] = r.name /\ j[2] <= r.sample => j[2] <= k[2]
    => r.data = diffs[k].new

=============================================================================
