---------------------------- MODULE MCFifoServer ----------------------------
(* Model checking of FifoServer: clients and what they ask for. *)
EXTENDS FifoServer

CONSTANTS a, b

OneClient  == {a}
TwoClients == {a, b}
NoUnruly   == {}
OneUnruly  == {a}

OneFile    == a :> <<1>>
OneAndNone == a :> <<1>> @@ b :> <<>>
TwoAndMiss == a :> <<1, 1>> @@ b :> <<1, -1>>

=============================================================================
