----------------------------- MODULE MCLongName -----------------------------
(* One line at its real size, the QUIT of a client that timed out:         *)
(* :a!aa...aa@127.0.0.1 QUIT :Ping timeout                                 *)
EXTENDS Replies

a == 97
LongUsername == {[i \in 1..499 |-> a]}
OneNickname == {<<a>>}
LocalIp == {<<49, 50, 55, 46, 48, 46, 48, 46, 49>>}
Ircserv == <<105, 114, 99, 115, 101, 114, 118>>
RealQuit == <<81, 85, 73, 84>>
RealVerb == {RealQuit}
PingTimeout == {<<80, 105, 110, 103, SPACE, 116, 105, 109, 101, 111, 117, 116>>}
=============================================================================
