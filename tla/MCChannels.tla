----------------------------- MODULE MCChannels -----------------------------
(* A small instance of ChannelServer with the view of its clients and the  *)
(* refinement of Membership.                                               *)
EXTENDS ChannelView, ChannelRefinement, TLC

CONSTANTS
  Upper, Lower,   \* two spellings of one channel name
  two             \* the parameter `2', a limit and a key

(* The only name that is not in lower case is Upper.                       *)
MClower == [n \in Text |-> IF n = Upper THEN Lower ELSE n]
MCatoi == [p \in Param |-> IF p = two THEN 2 ELSE 0]

(* Clients are interchangeable: no constant below names one of them.       *)
Interchangeable == Permutations(Client)

FewModes ==
  {<<>>, <<"+", "i">>, <<"-", "i">>, <<"+", "o">>, <<"-", "o", "+", "o">>,
   <<"+", "k">>, <<"-", "k">>, <<"+", "l">>, <<"-", "l">>}
TwoParams == {<<>>} \cup {<<p>> : p \in Param} \cup {<<p, q>> : p, q \in Client}

(* What differs only in the lines of the last step is one state: no guard  *)
(* and no property reads them but for `mirror'.                            *)
ButSent == <<clientVars, chanVars, frame, mirror>>

=============================================================================
