---------------------------- MODULE ShellPipeline ----------------------------
(***************************************************************************)
(* sem_1/homework: a shell that reads one line, splits it into commands at *)
(* the bars, starts a process for each command with a pipe between         *)
(* neighbours, and waits for them.                                         *)
(*                                                                         *)
(* A line is a sequence of tokens (strtok_r() has split it at the blanks), *)
(* a token a sequence of words and bars, an argument too.  What matters of *)
(* a command is its program, of the data how many blocks of it there are.  *)
(***************************************************************************)
EXTENDS Integers, Sequences, FiniteSets, SequencesExt

CONSTANTS
  Lines,         \* what the user may enter
  MAX_ARGS, MAX_COMMANDS,
  Blocks,        \* what the program gen writes
  Capacity,      \* blocks that fit into a pipe
  Faults         \* subset of {"fork"}

VARIABLES
  line,          \* the line
  spc,           \* where the shell is
  cmds,          \* the commands of the CommandLine that RunCmd() gets
  children,      \* the children that have been forked: where each is, its exit code
  open,          \* the pipe ends that the shell (0) and each child have open
  content,       \* the blocks in each pipe
  held,          \* blocks that each child has still to write
  printed        \* the children whose status has been printed, in order

vars == <<line, spc, cmds, children, open, content, held, printed>>

Bar   == "|"
Shell == 0

-----------------------------------------------------------------------------
(* The parser. *)

\* strtok_r() gives no empty token, and a word ends only where a bar is.
IsLine(tokens) ==
  /\ tokens \in Seq(ToSet(tokens))
  /\ \A tok \in ToSet(tokens) : /\ tok \in Seq(ToSet(tok)) /\ tok # <<>>
                               /\ \A k \in 1..Len(tok) - 1 : Bar \in {tok[k], tok[k + 1]}

AddArgument(st, arg) ==
  LET n == Len(st.cmds) IN
  IF st.err # "OK" THEN st
  ELSE IF Len(st.cmds[n]) >= MAX_ARGS - 1 THEN [st EXCEPT !.err = "TOO_MANY_ARGS"]
  ELSE [st EXCEPT !.cmds[n] = Append(@, arg)]

InitCommand(st) ==
  IF st.err # "OK" THEN st
  ELSE IF Len(st.cmds) >= MAX_COMMANDS THEN [st EXCEPT !.err = "TOO_MANY_COMMANDS"]
  ELSE [st EXCEPT !.cmds = Append(@, <<>>)]

fixBeforeTok(tok) == SubSeq(tok, 1, SelectInSeq(tok, LAMBDA x : x = Bar) - 1)

fixAfterTok(tok)  == SubSeq(tok, SelectInSeq(tok, LAMBDA x : x = Bar) + 1, Len(tok))

AddPart(st, part) == IF part = <<>> THEN st ELSE AddArgument(st, part)

ParseToken_DropsRest(st, tok) ==      \* a variant: forgets what follows the bar
  IF Bar \in ToSet(tok) THEN InitCommand(AddPart(st, fixBeforeTok(tok))) ELSE AddArgument(st, tok)

\* A token with a bar ends a command; a second bar in it is an ordinary letter.
ParseToken(st, tok) ==
  IF Bar \in ToSet(tok)
  THEN AddPart(InitCommand(AddPart(st, fixBeforeTok(tok))), fixAfterTok(tok))
  ELSE AddArgument(st, tok)

\* An empty command at the end does not count.
ParseCommandLine(tokens) ==
  LET r == FoldLeft(ParseToken, [cmds |-> << <<>> >>, err |-> "OK"], tokens)
  IN IF Last(r.cmds) = <<>> THEN [r EXCEPT !.cmds = Front(@)] ELSE r

-----------------------------------------------------------------------------
(* RunCmd *)

cmd_count == Len(cmds)
Forked    == Len(children)

Init ==
  /\ line \in Lines
  /\ spc = "parse" /\ cmds = <<>>
  /\ children = <<>> /\ open = [p \in {Shell} |-> {}]
  /\ content = <<>> /\ held = <<>> /\ printed = <<>>

S_Parse ==
  LET r == ParseCommandLine(line) IN
  /\ spc = "parse"
  /\ IF r.err = "OK" THEN cmds' = r.cmds /\ spc' = IF r.cmds = <<>> THEN "done" ELSE "fork"
     ELSE spc' = "refused" /\ UNCHANGED cmds
  /\ UNCHANGED <<line, children, open, content, held, printed>>

\* pipe() and fork(): a pipe in every round, the last one too.
S_Fork ==
  LET i == Forked + 1
      mine == open[Shell] \cup {<<i, "r">>, <<i, "w">>}
  IN /\ spc = "fork" /\ spc' = "close"
     /\ children' = Append(children, [at |-> "setup", code |-> 0])
     /\ open' = [p \in 0..i |-> IF p \in {Shell, i} THEN mine ELSE open[p]]
     /\ content' = Append(content, 0) /\ held' = Append(held, 0)
     /\ UNCHANGED <<line, cmds, printed>>

\* The shell returns, and exits, without waiting.
S_ForkError ==
  /\ "fork" \in Faults
  /\ spc = "fork" /\ spc' = "failed"
  /\ open' = [open EXCEPT ![Shell] = {}]
  /\ UNCHANGED <<line, cmds, children, content, held, printed>>

Next_i == IF Forked = cmd_count THEN "wait" ELSE "fork"

S_Close_KeepsWriter ==      \* a variant: close(pipeFd[1]) is missing
  LET i == Forked IN
  /\ spc = "close" /\ spc' = Next_i
  /\ open' = [open EXCEPT ![Shell] = @ \ {<<i - 1, "r">>}]
  /\ UNCHANGED <<line, cmds, children, content, held, printed>>

\* The parent's part of the round: prev_pipe_read is closed, the new reading end
\* kept; both ends of the last pipe stay open.
S_Close ==
  LET i == Forked IN
  /\ spc = "close" /\ spc' = Next_i
  /\ open' = [open EXCEPT ![Shell] = @ \ ({<<i - 1, "r">>} \cup {<<i, "w">> : x \in {i} \ {cmd_count}})]
  /\ UNCHANGED <<line, cmds, children, content, held, printed>>

S_Wait_NoHang ==      \* a variant: waitpid(-1, &status, WNOHANG)
  /\ spc = "wait"
  /\ \E i \in DOMAIN children :
       /\ children' = [children EXCEPT ![i].at = IF @ = "zombie" THEN "reaped" ELSE @]
       /\ printed' = Append(printed, i)
  /\ spc' = IF Len(printed) + 1 = cmd_count THEN "done" ELSE "wait"
  /\ open' = [open EXCEPT ![Shell] = IF spc' = "done" THEN {} ELSE @]
  /\ UNCHANGED <<line, cmds, content, held>>

\* waitpid(-1) takes a child that has ended; the k-th status is printed with the
\* name of the k-th command.
S_Wait ==
  /\ spc = "wait"
  /\ \E i \in DOMAIN children :
       /\ children[i].at = "zombie"
       /\ children' = [children EXCEPT ![i].at = "reaped"]
       /\ printed' = Append(printed, i)
  /\ spc' = IF Len(printed) + 1 = cmd_count THEN "done" ELSE "wait"
  /\ open' = [open EXCEPT ![Shell] = IF spc' = "done" THEN {} ELSE @]
  /\ UNCHANGED <<line, cmds, content, held>>

-----------------------------------------------------------------------------
(* A child. *)

Program(i) == IF cmds[i] = <<>> THEN <<>> ELSE Head(cmds[i])

End(i, code) ==
  /\ children' = [children EXCEPT ![i] = [at |-> "zombie", code |-> code]]
  /\ open' = [open EXCEPT ![i] = {}]
  /\ UNCHANGED <<line, spc, cmds, content, held, printed>>

\* stdin and stdout are redirected; the last child leaves its pipe open.
C_Setup(i) ==
  /\ children[i].at = "setup"
  /\ children' = [children EXCEPT ![i].at = "exec"]
  /\ open' = [open EXCEPT ![i] = @ \ {<<i, "r">> : x \in {i} \ {cmd_count}}]
  /\ UNCHANGED <<line, spc, cmds, content, held, printed>>

Known == {<<"gen">>, <<"cat">>, <<"head">>}

C_Exec(i) ==
  /\ children[i].at = "exec" /\ Program(i) \in Known
  /\ children' = [children EXCEPT ![i].at = "run"]
  /\ held' = [held EXCEPT ![i] = IF Program(i) = <<"gen">> THEN Blocks ELSE 0]
  /\ UNCHANGED <<line, spc, cmds, open, content, printed>>

C_NoProgram(i) == children[i].at = "exec" /\ Program(i) \notin Known /\ End(i, 1)

\* The programs themselves: gen writes its blocks, cat writes what it reads,
\* head ends when it likes; the first command finds nothing on the terminal.
X_Write(i) ==
  /\ children[i].at = "run" /\ held[i] > 0
  /\ held' = [held EXCEPT ![i] = @ - 1]
  /\ IF i = cmd_count THEN UNCHANGED content
     ELSE /\ \E p \in DOMAIN open : <<i, "r">> \in open[p]
          /\ content[i] < Capacity /\ content' = [content EXCEPT ![i] = @ + 1]
  /\ UNCHANGED <<line, spc, cmds, children, open, printed>>

X_Broken(i) ==      \* SIGPIPE
  /\ children[i].at = "run" /\ held[i] > 0 /\ i < cmd_count
  /\ \A p \in DOMAIN open : <<i, "r">> \notin open[p]
  /\ End(i, -1)

X_Read(i) ==
  /\ children[i].at = "run" /\ held[i] = 0 /\ Program(i) \in {<<"cat">>, <<"head">>}
  /\ i > 1 /\ content[i - 1] > 0
  /\ content' = [content EXCEPT ![i - 1] = @ - 1]
  /\ held' = [held EXCEPT ![i] = 1]
  /\ UNCHANGED <<line, spc, cmds, children, open, printed>>

NoMore(i) == IF i = 1 THEN TRUE ELSE content[i - 1] = 0 /\ \A p \in DOMAIN open : <<i - 1, "w">> \notin open[p]

X_End(i) ==
  /\ children[i].at = "run" /\ held[i] = 0
  /\ Program(i) = <<"cat">> => NoMore(i)
  /\ End(i, 0)

-----------------------------------------------------------------------------
ShellProc == S_Parse \/ S_Fork \/ S_ForkError \/ S_Close \/ S_Wait
ChildProc(i) ==
  \/ C_Setup(i) \/ C_Exec(i) \/ C_NoProgram(i)
  \/ X_Write(i) \/ X_Broken(i) \/ X_Read(i) \/ X_End(i)

Next == ShellProc \/ \E i \in DOMAIN children : ChildProc(i)

-----------------------------------------------------------------------------
(* Properties. *)

\* The line as one sequence of words and bars, and commands written as such.
Stream     == FlattenSeq(line)
Written(c) == FlattenSeq([k \in DOMAIN c |-> Append(FlattenSeq(c[k]), Bar)])

\* A bar too many, or too many words without a bar between them.
TooLong(s) ==
  \/ Cardinality({k \in DOMAIN s : s[k] = Bar}) >= MAX_COMMANDS
  \/ \E k \in DOMAIN s : k + MAX_ARGS - 1 \in DOMAIN s /\ \A j \in k..k + MAX_ARGS - 1 : s[j] # Bar

\* If no token has two bars, the commands that run are those between the bars,
\* wherever there are blanks and however long the line is: they make up the
\* line again, each word is an argument, and a line is refused only if it is
\* too long.  A bar at the end is not followed by a command.
CommandsAsWritten ==
  spc # "parse" /\ (\A k \in DOMAIN line : Cardinality({j \in DOMAIN line[k] : line[k][j] = Bar}) <= 1) =>
    /\ spc = "refused" <=> TooLong(Stream)
    /\ spc # "refused" =>
         /\ Written(cmds) = IF Stream = <<>> \/ Last(Stream) = Bar THEN Stream ELSE Append(Stream, Bar)
         /\ \A k \in DOMAIN cmds : \A j \in DOMAIN cmds[k] : Len(cmds[k][j]) = 1 /\ cmds[k][j] # <<Bar>>

\* Once all have been started, an end between two commands is open only in the
\* process that uses it, and until exec() the reading end in the writer: otherwise
\* a reader would not see the end of its input, or a writer no broken pipe.
EndsClosed ==
  spc = "wait" =>
    \A k \in 1..cmd_count - 1 : \A p \in DOMAIN open :
      /\ <<k, "w">> \in open[p] => p = k
      /\ <<k, "r">> \in open[p] => p = k + 1 \/ (p = k /\ children[k].at = "setup")

\* Each child is reaped once, in whatever order they end, and none is left.
EachReapedOnce ==
  /\ IsInjective(printed)
  /\ spc = "done" => \A i \in DOMAIN children : children[i].at = "reaped"

\* The line comes to an end, and with it all processes, also when a command is
\* missing or ends early, or fork() fails in the middle.
Ended ==
  /\ spc \in {"done", "refused", "failed"}
  /\ \A i \in DOMAIN children : children[i].at \in {"zombie", "reaped"}

=============================================================================
