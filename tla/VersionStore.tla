---------------------------- MODULE VersionStore ----------------------------
(***************************************************************************)
(* What the backup daemon of task_6 promises: files are written by others, *)
(* now and then the content of one is kept under the key of a sample, and  *)
(* what has been kept stays as it is until the daemon is started anew.     *)
(***************************************************************************)
VARIABLES
  file,      \* the content of every file
  kept       \* what a restore gives, for every file and sample that was saved

Init == kept = <<>>

Write == kept' = kept

\* A sample is taken once, and with the content that the file has then.
Save ==
  /\ file' = file
  /\ \E k \in DOMAIN kept' \ DOMAIN kept : \E p \in DOMAIN file :
       kept' = [j \in DOMAIN kept \cup {k} |-> IF j = k THEN {file[p]} ELSE kept[j]]

Forget == kept' = <<>> /\ file' = file

Next == Write \/ Save \/ Forget

Spec == Init /\ [][Next]_<<file, kept>>

=============================================================================
