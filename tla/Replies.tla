------------------------------ MODULE Replies -------------------------------
(***************************************************************************)
(* The lines the server writes (common/Reply.cpp, common/IrcHelpers.cpp),  *)
(* cut by sendReply, as a peer reads them: the parser of MessageParser     *)
(* stands for the peer's, which follows the same grammar (RFC 2812 2.3.1). *)
(***************************************************************************)
EXTENDS MessageParser

CONSTANTS
  Nickname, Username, Ip, ServerName,
  Numeric,   \* codes of numeric replies, three digits
  Verb,      \* the commands of makeCommand
  QUIT,      \* one of them
  OwnVerb,   \* the server's own: PONG
  BareVerb,  \* and those it sends without a source: PING, ERROR
  Param,     \* what is written without a colon: names, modes, and what a
             \* client has sent, as it came (Nick.cpp:60, Mode.cpp:38)
  MaxArgs,   \* the most of them on a line, the addressee not counted
  Trail,     \* texts after a colon
  NoText,    \* the line has none (JOIN, MODE, INVITE, 004, 324, 341)
  NoReply    \* the line is a client's

(* A username came in a line of its own: USER <username> 0 * x             *)
ASSUME NameAssumption ==
  /\ \A s \in Nickname : isValidNickname(s)
  /\ \A s \in Username : IsMiddle(s) /\ ~Occurs(AT, s) /\ Len(s) + 11 <= MaxLine
  /\ QUIT \in Verb

(* The parameters and texts came from lines of clients, which hold no NUL, *)
(* CR or LF, or are the server's own.  A parameter may be empty, hold      *)
(* spaces or begin with a colon if it was the last of its line.            *)
ASSUME WireAssumption ==
  /\ Nickname \cup Username \cup Ip \cup Param \cup Trail \cup {ServerName} \subseteq Txt
  /\ Numeric \cup Verb \cup OwnVerb \cup BareVerb \subseteq Txt
  /\ \A s \in Username \cup Ip \cup Param \cup Trail \cup {ServerName} :
       NoByte(s, {NUL, CR, LF})
  /\ \A s \in Ip \cup {ServerName} : ~Occurs(SPACE, s)
  /\ \A s \in Numeric \cup Verb \cup OwnVerb \cup BareVerb :
       IsMiddle(s) /\ NoByte(s, {NUL, CR, LF}) /\ toupper(s) = s
  /\ MaxArgs \in Nat /\ MaxArgs < MaxMiddle

VARIABLE reply   \* what the line was put together from, or NoReply

EXCLAMATION == 33
ASTERISK == 42

-----------------------------------------------------------------------------
(* Mutant: a text is written like any other parameter.                     *)
trailingBare(t) == <<SPACE>> \o t

(* " :" + text                                                             *)
trailing(t) == <<SPACE, COLON>> \o t

words(ws) ==
  LET from[i \in 1..(Len(ws) + 1)] ==
        IF i > Len(ws) THEN <<>> ELSE <<SPACE>> \o ws[i] \o from[i + 1]
  IN  from[1]

(* nick!user@host                                                          *)
mask(r) == r.nick \o <<EXCLAMATION>> \o r.user \o <<AT>> \o r.ip

(* makeCommand, and nickNotice with the old nickname.                      *)
makeCommand(r) == <<COLON>> \o mask(r) \o <<SPACE>> \o r.cmd

(* makeReply, formatReply and formatReplyWithParameter; PONG.              *)
makeReply(r) == <<COLON>> \o ServerName \o <<SPACE>> \o r.cmd

opening(r) ==
  IF r.cmd \in BareVerb THEN r.cmd
  ELSE IF r.cmd \in Verb THEN makeCommand(r) ELSE makeReply(r)

(* The addressee of a numeric: a nickname, or * before registration.       *)
targetname == Nickname \cup {<<ASTERISK>>}

(* What follows the opening: the addressee is a numeric's first parameter. *)
Fixed(r) == (IF r.cmd \in Numeric THEN <<r.target>> ELSE <<>>) \o r.args

ending(r) == IF r.text = NoText THEN <<>> ELSE trailing(r.text)

fullLine(r) == opening(r) \o words(Fixed(r)) \o ending(r)

(* What sendReply puts on the wire, without CR-LF.                         *)
onWire(r) == cutLine(fullLine(r), MaxLine)

ReplyRecord ==
  [nick : Nickname, user : Username, ip : Ip, target : targetname,
   cmd : Verb \cup Numeric \cup OwnVerb \cup BareVerb,
   args : UNION {[1..n -> Param] : n \in 0..MaxArgs}, text : Trail \cup {NoText}]

SendReply ==
  /\ reply \in ReplyRecord
  /\ raw = onWire(reply) /\ registered = TRUE
  /\ seared = <<>> /\ pos = 1 /\ stage = "trim"
  /\ existPrefix = FALSE /\ prefix = <<>> /\ command = <<>> /\ parameter = <<>>

wireVars == <<parseVars, reply>>

(* A line of a client, which the server reads, or one of the server.       *)
WireInit == SendReply \/ (ParseInit /\ reply = NoReply)
WireNext == ParseNext /\ UNCHANGED reply
WireSpec == WireInit /\ [][WireNext]_wireVars

-----------------------------------------------------------------------------
Ended == stage \in Outcome /\ reply # NoReply

source(r) ==
  IF r.cmd \in BareVerb THEN <<>> ELSE IF r.cmd \in Verb THEN mask(r) ELSE ServerName

(* The first n parameters are single words, and the line has room for      *)
(* them, for `more' bytes and for the three that cutting may take back.    *)
Legible(r, n, more) ==
  /\ \A j \in 1..n : IsMiddle(Fixed(r)[j])
  /\ Len(opening(r) \o words(SubSeq(Fixed(r), 1, n))) + more + 3 <= MaxLine

(* A reader finds the source and the command as soon as there is room for  *)
(* them, and every parameter up to the first that is too long for the line *)
(* or that a client made up of several words or none: nothing such a       *)
(* parameter holds reaches back to what stands before it.                  *)
HeadRead ==
  \A n \in 0..Len(Fixed(reply)) : Legible(reply, n, 0) =>
    /\ prefix = source(reply) /\ command = reply.cmd
    /\ Len(parameter) >= n /\ \A j \in 1..n : parameter[j] = Fixed(reply)[j]

(* If there is none of these he finds no other parameters, and of the text *)
(* as much as the line had room for, in whole characters.                  *)
TextRead ==
  LET n == Len(Fixed(reply))
  IN  /\ reply.text = NoText /\ Legible(reply, n, 0) => Len(parameter) = n
      /\ reply.text # NoText /\ Legible(reply, n, 2) =>
           /\ Len(parameter) = n + 1
           /\ parameter[n + 1] = SubSeq(reply.text, 1, Len(parameter[n + 1]))
           /\ IsUtf8(reply.text) => IsUtf8(parameter[n + 1])
           /\ parameter[n + 1] = reply.text \/ Len(raw) >= MaxLine - 3

(* What the server puts into a line is what a reader takes out of it       *)
(* (makeReply, makeCommand, IrcReply, sendReply).                          *)
ReadBack == Ended => HeadRead /\ TextRead

(* README: a client that times out "is disconnected and channel members    *)
(* see QUIT :Ping timeout", whatever its username.                         *)
QuitIsSeen == Ended /\ reply.cmd = QUIT /\ reply.text # NoText => command = QUIT

=============================================================================
