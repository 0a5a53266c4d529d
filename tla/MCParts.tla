------------------------------ MODULE MCParts -------------------------------
(***************************************************************************)
(* Small instances of the parts that share no state with each other: one   *)
(* of them runs in each behaviour and the others stand still.              *)
(***************************************************************************)
EXTENDS Replies, ReadBuffer, WriteBuffer, Naming, NameList, Lifecycle

VARIABLE part

a == 97
A == 65
B == 66
Q == 81
H1 == 195   \* begins a character of two bytes
H2 == 169   \* ends it

BoundedSeq(S, n) == UNION {[1..m -> S] : m \in 0..n}
Repeat(b, n) == [k \in 1..n |-> b]

-----------------------------------------------------------------------------
(* Messages.  The words of the table stand for the names of Parser().      *)
MCLoginFree == {<<A>>, <<A, A>>}
MCLoginOnly == {<<B>>}

(* Every line of up to five or six bytes that matter to the parser, lines  *)
(* with one word too many, and lines around the limit.                     *)
MCLine ==
  BoundedSeq({SPACE, COLON, CR, NUL, a, B}, 5)
    \cup {<<B, SPACE, a, SPACE, a>> \o s : s \in BoundedSeq({SPACE, COLON, a}, 5)}
    \cup {<<B, SPACE>> \o Repeat(a, MaxLine - 5) \o s :
            s \in BoundedSeq({SPACE, COLON, H1, H2}, 6)}

MCNickname == {<<a, 94>>}
MCUsername == {<<a>>, <<a, COLON>>}
MCIp == {<<49>>}
MCServerName == <<105>>
MCNumeric == {<<51, 51, 50>>}
MCQuit == <<Q>>
MCVerb == {<<Q>>, <<Q, Q>>}
MCOwnVerb == {<<79>>}
MCBareVerb == {<<69>>}
(* Names, and what a client may have sent in their place.                  *)
MCParam == {<<HASH>>, <<a, COMMA>>, <<>>, <<COLON, a>>, <<a, SPACE, COLON>>, <<a, H1, H2>>}
MCTrail == {<<>>, <<COLON>>, <<SPACE, a>>, <<a, SPACE, SPACE>>,
            <<a, 195, 169, a>>, <<226, 130, 172, SPACE>>, <<240, 159, 146, 169>>}

NoMessage ==
  /\ raw = <<>> /\ registered = FALSE /\ seared = <<>> /\ pos = 1 /\ stage = "trim"
  /\ existPrefix = FALSE /\ prefix = <<>> /\ command = <<>> /\ parameter = <<>>
  /\ reply = NoReply

(* Replies that end around the limit, with characters of two to four bytes.*)
MCReply ==
  {<<>>, <<a, a>>} \cup
  {Repeat(a, MaxLine - 4) \o s :
     s \in {<<a, a, a, 195, 169>>, <<a, a, 226, 130, 172>>, <<a, 240, 159, 146, 169>>,
            <<a, a, a, a, a, a, a>>}}
MCErrorLine == <<69, 69>>

(* Channels of up to four members with entries of one to three bytes: an   *)
(* entry is who it is and its number of bytes.                             *)
MCEntry == {<<who, n>> : who \in 1..4, n \in 1..3}
MCSize(e) == e[2]
MCMembers ==
  UNION {{m \in [1..n -> MCEntry] : \A k \in 1..n : m[k][1] = k} : n \in 0..4}

NoList ==
  /\ _members = <<>> /\ prefixSize = 0 /\ i = 1 /\ users = <<>> /\ size = 0
  /\ lines = <<>> /\ listed = <<>>

-----------------------------------------------------------------------------
Init ==
  /\ part \in {"messages", "reading", "writing", "naming", "names", "process"}
  /\ IF part = "messages" THEN WireInit ELSE NoMessage
  /\ IF part = "names" THEN ListInit ELSE NoList
  /\ ReadInit /\ WriteInit /\ NamingInit /\ LifeInit

Next ==
  /\ UNCHANGED part
  /\ \/ /\ part = "messages" /\ WireNext
        /\ UNCHANGED <<readVars, writeVars, text, listVars, lifeVars>>
     \/ /\ part = "reading" /\ ReadNext
        /\ UNCHANGED <<wireVars, writeVars, text, listVars, lifeVars>>
     \/ /\ part = "writing" /\ WriteNext
        /\ UNCHANGED <<wireVars, readVars, text, listVars, lifeVars>>
     \/ /\ part = "naming" /\ NamingNext
        /\ UNCHANGED <<wireVars, readVars, writeVars, listVars, lifeVars>>
     \/ /\ part = "names" /\ ListNext
        /\ UNCHANGED <<wireVars, readVars, writeVars, text, lifeVars>>
     \/ /\ part = "process" /\ LifeNext
        /\ UNCHANGED <<wireVars, readVars, writeVars, text, listVars>>

Spec ==
  /\ Init
  /\ [][Next]_<<part, wireVars, readVars, writeVars, text, listVars, lifeVars>>
  /\ WF_lifeVars(Run /\ part = "process")

=============================================================================
