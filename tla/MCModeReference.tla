--------------------------- MODULE MCModeReference ---------------------------
(* A small instance of ModeReference: lines that mix operator changes with *)
(* the other modes, exceed the three parameters, repeat a letter, or lack  *)
(* a parameter.                                                            *)
EXTENDS ModeReference, TLC

CONSTANTS Lower, NotAKey, one

MClower == [n \in Text |-> n]
MCatoi == [p \in Param |-> IF p = one THEN 1 ELSE 0]
Interchangeable == Permutations(Client)

Lines ==
  { <<>>, <<"i">>, <<"+", "i", "t">>, <<"-", "i", "+", "t", "-", "t">>,
    <<"+", "x", "i">>, <<"+", "k", "l">>, <<"-", "k", "+", "l">>,
    <<"-", "k", "+", "k">>, <<"+", "k", "-", "k", "l">>,
    <<"+", "i", "-", "o">>, <<"-", "o", "+", "o">>,
    <<"+", "k", "o", "l", "k", "i">>, <<"-", "k", "l", "k", "k", "+", "l">>,
    <<"+", "l", "o", "-", "o", "+", "o", "t">> }

Arguments ==
  { <<>>, <<one>>, <<NotAKey, one>>, <<one, one>> }
    \cup {<<c>> : c \in Client} \cup {<<one, c>> : c \in Client}
    \cup {<<one, c, one, c>> : c \in Client}

=============================================================================
