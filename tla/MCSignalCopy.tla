---------------------------- MODULE MCSignalCopy ----------------------------
(* Model checking of SignalCopy: sets of faults that a cfg can name. *)
EXTENDS SignalCopy

NoFaults  == {}
AllFaults == {"open", "read", "short", "write", "queue"}

=============================================================================
