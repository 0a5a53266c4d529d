------------------------------ MODULE IrcServer ------------------------------
(***************************************************************************)
(* The server as a whole, as its clients see it: registration and          *)
(* nicknames (Registration) composed with channels (ChannelServer).  They  *)
(* share the client objects and who is registered; a line of a client goes *)
(* to one of the two, connections come and go in both at once, and a       *)
(* registered client's NICK is a step of both.                             *)
(*                                                                         *)
(* Commands name clients by nickname here.  A client that is closing runs  *)
(* no more commands, but it keeps its nickname and its channels until it   *)
(* is disconnected, and others may act on it.                              *)
(***************************************************************************)
EXTENDS ChannelServer

CONSTANTS
  Nick, lowerNick, BadNick, Password, password, BadUser,   \* see Registration
  nobody    \* stands for a parameter that is no registered client's nickname

VARIABLES passwordVerified, nickname, username, closing, regSent, wrongPassword

Reg == INSTANCE Registration WITH lower <- lowerNick, sent <- regSent

ASSUME NobodyAssumption == nobody \in Param \ Client /\ NULL \notin Nick

(* What Registration assumes of its constants.                             *)
ASSUME LoginAssumption ==
  /\ lowerNick \in [Nick -> Nick] /\ Empty \notin Nick
  /\ BadNick \notin Nick \cup {Empty}
  /\ password \in Password /\ Empty \notin Password /\ BadUser # Empty

loginVars == <<passwordVerified, nickname, username, closing, regSent, wrongPassword>>
ircVars   == <<vars, loginVars>>

(* Server::findClientByNickname: the first match among the registered.     *)
Named(n) ==
  LET found == {c \in registered : Reg!toLower(nickname[c]) = Reg!toLower(n)}
  IN  IF found = {} THEN nobody ELSE CHOOSE c \in found : TRUE

-----------------------------------------------------------------------------
(* A line of c is read: no MODE or JOIN 0 is half done, c is not closing.  *)
Serves(c) == Idle /\ Reg!Serving(c)

(* Lines of the login commands change no channel; one of them may register *)
(* the client.                                                             *)
Channels(c) == IF c \in registered' \ registered THEN Register(c) ELSE Ignore

Login(c) ==
  /\ Serves(c)
  /\ \/ \E p \in Password \cup {Empty} : Reg!Pass(c, p) \/ Reg!Ping(c, p)
     \/ \E u \in {"user", Empty, BadUser} : Reg!UserCmd(c, u)
     \/ Reg!Quit(c) \/ Reg!Unknown(c) \/ Reg!NeedsLogin(c)
  /\ Channels(c)

(* NICK: a registered client's is told to everyone it shares a channel     *)
(* with, unless it is the nickname it has.                                 *)
SetNick(c) ==
  /\ Serves(c)
  /\ \E n \in Nick \cup {Empty, BadNick} : Reg!NickCmd(c, n)
  /\ IF c \in registered /\ nickname' # nickname THEN NickChange(c) ELSE Channels(c)

(* The channel commands, by nickname.                                      *)
ChannelLine(c) ==
  \/ \E n \in ChannelArg, p \in Param \cup {Empty} : Join(c, n, p)
  \/ JoinZero(c)
  \/ \E n \in ChannelArg : Part(c, n)
  \/ \E n \in ChannelArg, t \in Topic \cup {Empty, NULL} : TopicCmd(c, n, t)
  \/ \E n \in ChannelArg, x \in Nick :
       \/ Kick(c, n, Named(x)) \/ Invite(c, Named(x), n)
       \/ \E m \in ModeLine : Mode(c, n, m, <<Named(x)>>)
  \/ \E x \in ChannelArg, hasText \in BOOLEAN : Privmsg(c, x, hasText)
  \/ \E x \in Nick, hasText \in BOOLEAN : Privmsg(c, Named(x), hasText)

Talk(c) == Serves(c) /\ ChannelLine(c) /\ UNCHANGED loginVars

Accept(c) == Connect(c) /\ Reg!Connect(c)
Drop(c)   == Disconnect(c) /\ Reg!Disconnect(c)

(* The loops of JOIN 0 and MODE.                                           *)
GoOn ==
  /\ (\E n \in ChannelName : JoinZeroStep(n)) \/ JoinZeroEnd \/ ModeStep
  /\ UNCHANGED loginVars

IrcInit == Init /\ Reg!Init

IrcNext ==
  \/ \E c \in Client : Accept(c) \/ Login(c) \/ SetNick(c) \/ Talk(c) \/ Drop(c)
  \/ GoOn

IrcSpec == IrcInit /\ [][IrcNext]_ircVars

-----------------------------------------------------------------------------
(* What a client reads: who is in its channels, by nickname.  `roster' is  *)
(* a history variable, built from nothing but the lines it was sent.       *)

VARIABLE roster

rosterVars == <<ircVars, roster>>

Of(d, cmd, k) == {m \in {sent'[d][i] : i \in DOMAIN sent'[d]} : m.cmd = cmd /\ m.chan = k}

(* The nicknames that lines to d about k say are gone, or have come.       *)
Gone(d, k) ==
  {nickname[m.from] : m \in Of(d, "PART", k) \cup Of(d, "QUIT", NULL)}
    \cup {nickname[m.arg] : m \in Of(d, "KICK", k)}
Come(d, k) == {nickname[m.from] : m \in Of(d, "JOIN", k)}

(* :old NICK :new                                                          *)
Renamed(d, n) ==
  LET renames == {m \in Of(d, "NICK", NULL) : nickname[m.from] = n}
  IN  IF renames = {} THEN n ELSE nickname'[(CHOOSE m \in renames : TRUE).from]

(* The list of d for k: a name list, which follows its own JOIN, begins    *)
(* it, its own PART or KICK ends it, other lines change it.                *)
Read(d, k) ==
  IF Of(d, "353", k) # {}
  THEN {nickname[x] : x \in UNION {m.arg.members : m \in Of(d, "353", k)}}
  ELSE IF roster[d][k] = {} \/ nickname[d] \in Gone(d, k) THEN {}
  ELSE {Renamed(d, n) : n \in (roster[d][k] \cup Come(d, k)) \ Gone(d, k)}

RosterInit == IrcInit /\ roster = [d \in Client |-> [k \in ChannelKey |-> {}]]

RosterNext ==
  /\ IrcNext
  /\ roster' = [d \in Client |-> [k \in ChannelKey |->
                  IF d \in clients' THEN Read(d, k) ELSE {}]]

RosterSpec == RosterInit /\ [][RosterNext]_rosterVars

(* The nicknames a member has read for a channel are exactly those of its  *)
(* members, through renames, nicknames given up by one client and taken by *)
(* another, kicks, clients that are closing and lost connections: two      *)
(* clients never answer to one name, and no line is sent under a name its  *)
(* readers do not know (Nick.cpp:65-80, Client.cpp:144-172).               *)
RosterExact ==
  \A d \in Client, k \in ChannelKey :
    roster[d][k] = IF d \in members[k] THEN {nickname[x] : x \in members[k]} ELSE {}

=============================================================================
