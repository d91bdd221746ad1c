----------------------------- MODULE MCSeminars -----------------------------
(* Model checking of Seminars: lines, files and faults that a cfg can name. *)
EXTENDS Seminars

AllPrograms == {"shm_run", "mq_run", "mq_runs", "fifo_run", "duplex_pipe", "shell", "monte_carlo"}

EofLikeBlocks == {2, 6, 8}

\* Full blocks have length 2: all numbers of blocks up to four, with and without a
\* short one at the end.
MCFiles == {<<>>, <<1>>, <<2>>, <<2, 1>>, <<2, 2>>, <<2, 2, 1>>, <<2, 2, 2>>, <<2, 2, 2, 1>>}

\* The usual descriptors, a closed stdin, one descriptor too many.
MCInherited == {{0, 1, 2}, {1, 2}, {0, 1, 2, 4}}

g == "gen"   c == "cat"   h == "head"   b == "|"

\* Bars with and without blanks, at the beginning and the end, two in a token; an
\* unknown program; too many arguments, too many commands, an empty line.
MCLines == {
  <<>>,
  << <<g>>, <<b>>, <<h>>, <<"arg">> >>,
  << <<g, b, c>>, <<b, "none">> >>,
  << <<g, b>>, <<c>>, <<b>>, <<h>> >>,
  << <<b, g>> >>,
  << <<c>>, <<b>> >>,
  << <<g, b, c, b, h>> >>,
  << <<b>>, <<b>>, <<b>> >>,
  << <<g>>, <<"arg">>, <<"arg">> >>,
  << <<g>>, <<b>>, <<c>>, <<b>>, <<c>> >> }

\* -1000 is no number.
MCEntered == {-1000, -2, 0, 1, 2}

=============================================================================
