----------------------------- MODULE MCIntegral -----------------------------
(* Three hosts, as many as the list has places; the server of the last has a *)
(* port of its own.                                                          *)
EXTENDS Integral

A(h, p) == [host |-> h, port |-> p]
MCServers == {A("h1", 8125), A("h2", 8125), A("h3", 8126)}

Opt(o) == [opt |-> o]
Val(o, v) == [opt |-> o, arg |-> v]
Line(opts, rest) == [opts |-> opts, rest |-> rest]

MCArguments ==
  { Line(<<Val("i", A("h1", 8125)), Opt("b")>>, <<A("h2", 8125)>>),                  \* broadcast
    Line(<<Val("p", 4), Val("i", A("h1", 8125))>>, <<A("h3", 8126), A("h2", 8125), A("h1", 8125)>>),    \* one too many
    Line(<<Val("p", 2), Val("i", A("h2", 8125))>>, <<A("h2", 8126), A("h2", 8125)>>),  \* fewer points; one without a server, one twice
    Line(<<Val("i", A("h1", 8125))>>, <<Invalid>>),
    Line(<<Val("t", 0)>>, <<>>), Line(<<Val("n", 2)>>, <<>>) }

=============================================================================
