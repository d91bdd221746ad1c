--------------------------- MODULE MCBackupDaemon ---------------------------
(* Model checking of BackupDaemon: the working directories of two processes, *)
(* a directory below the first, and two or three files.                      *)
EXTENDS BackupDaemon

CONSTANTS home, other, nested, a, b, c, f, g

BothTop == {home, other}
OneTop  == {home}
NoSub   == {}
OneSub  == {nested}
NoParent == <<>>
SubOfD  == nested :> home

\* a and c have the same name in their directories; b lies in nested.
AllPaths == {a, b, c}
AllDir   == a :> home @@ b :> nested @@ c :> other
AllRel   == a :> f @@ b :> g @@ c :> f
AllStart == a :> 2 @@ b :> 3 @@ c :> 4

TwoPaths == {a, b}
TwoDir   == a :> home @@ b :> home
TwoRel   == a :> f @@ b :> g
TwoStart == a :> 2 @@ b :> 3

SetPid  == {[type |-> "set_pid", dir |-> other]}
Restore == {[type |-> "restore", name |-> f, sample |-> s] : s \in 1..MaxSamples}
SomeCommands == SetPid \cup {[type |-> "restore", name |-> f, sample |-> 1], [type |-> "show"],
                             [type |-> "set_period", ms |-> 2000]}

BothModes == {"daemon", "interactive"}
Daemon    == {"daemon"}
AllStops  == {"SIGTERM", "SIGKILL"}
NoStops   == {}

=============================================================================
