------------------------------ MODULE MCFaults ------------------------------
(* A small instance of ChannelServer with two channels, and with failing   *)
(* allocations.                                                            *)
EXTENDS ChannelFaults, TLC

CONSTANTS Upper, Lower, Other, one

MClower == [n \in Text |-> IF n = Upper THEN Lower ELSE n]
MCatoi == [p \in Param |-> IF p = one THEN 1 ELSE 0]
Interchangeable == Permutations(Client)

(* What differs only in the lines of the last step is one state: no guard  *)
(* and no property reads them.                                             *)
ButSent == <<clientVars, chanVars, frame, broken>>

FewModes == {<<"+", "i">>, <<"-", "o">>}
OneParam == {<<>>} \cup {<<p>> : p \in Param}
=============================================================================
