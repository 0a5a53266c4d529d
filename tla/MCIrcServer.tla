----------------------------- MODULE MCIrcServer -----------------------------
(* A small instance of IrcServer: two spellings of one nickname and two    *)
(* others, so that three clients can carry all of them at once and one is  *)
(* free again only when somebody gives it up.                              *)
EXTENDS IrcServer, TLC

CONSTANTS bob, BOB, amy, dan, Lower

MClower == [n \in Text |-> n]
MClowerNick == (bob :> bob) @@ (BOB :> bob) @@ (amy :> amy) @@ (dan :> dan)
MCatoi == [p \in Param |-> 0]
GiveOp == {<<"+", "o">>}
Interchangeable == Permutations(Client)

(* What differs only in the lines of the last step is one state.           *)
ButSent == <<clientVars, chanVars, frame, passwordVerified, nickname, username,
             closing, roster>>
=============================================================================
