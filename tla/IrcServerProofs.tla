--------------------------- MODULE IrcServerProofs ---------------------------
(***************************************************************************)
(* The composed server, for every set of clients, nicknames and channels:  *)
(* it implements Registration, it keeps the invariants of the channels,    *)
(* and what its clients read of each other by nickname is right.           *)
(***************************************************************************)
EXTENDS IrcServer, ChannelServerProofs, SequenceTheorems

(* The lemmas about Registration, for the instance Reg of IrcServer.       *)
Facts == INSTANCE RegistrationProofs WITH lower <- lowerNick, sent <- regSent

-----------------------------------------------------------------------------
(* The composed server implements Registration.                            *)

(* No channel command makes, registers or removes a client.                *)
LEMMA TalkKeeps ==
  ASSUME NEW c, ChannelLine(c)
  PROVE  UNCHANGED <<clients, registered>>
  <1>1. ASSUME NEW x, \/ \E code, k, arg : Answer(x, code, k, arg)
                      \/ Ignore \/ Continue \/ \E k : notOnChannel(x, k)
                      \/ \E k : Leave(x, k)
        PROVE  UNCHANGED <<clients, registered>>
    BY <1>1 DEF Answer, Ignore, Continue, notOnChannel, Leave, clientVars
  <1>2. ASSUME NEW n, NEW p, Join(c, n, p)
        PROVE  UNCHANGED <<clients, registered>>
    BY <1>1, <1>2 DEF Join
  <1>3. CASE JoinZero(c)
    BY <1>3 DEF JoinZero, clientVars
  <1>4. ASSUME NEW n, Part(c, n)
        PROVE  UNCHANGED <<clients, registered>>
    BY <1>1, <1>4 DEF Part, handlePart
  <1>5. ASSUME NEW n, NEW t, TopicCmd(c, n, t)
        PROVE  UNCHANGED <<clients, registered>>
    BY <1>1, <1>5 DEF TopicCmd, handleTopic, clientVars
  <1>6. ASSUME NEW n, NEW p, Kick(c, n, p)
        PROVE  UNCHANGED <<clients, registered>>
    BY <1>1, <1>6 DEF Kick, kickUnknown, handleKick
  <1>7. ASSUME NEW n, NEW p, Invite(c, p, n)
        PROVE  UNCHANGED <<clients, registered>>
    BY <1>1, <1>7 DEF Invite, handleInvite
  <1>8. ASSUME NEW n, NEW m, NEW p, Mode(c, n, m, p)
        PROVE  UNCHANGED <<clients, registered>>
    BY <1>1, <1>8 DEF Mode
  <1>9. ASSUME NEW x, NEW hasText, Privmsg(c, x, hasText)
        PROVE  UNCHANGED <<clients, registered>>
    BY <1>1, <1>9 DEF Privmsg, handleChannelPrivmsg, handlePersonalPrivmsg, clientVars
  <1> QED BY <1>2, <1>3, <1>4, <1>5, <1>6, <1>7, <1>8, <1>9 DEF ChannelLine

(* Nor does a step of a loop of JOIN 0 or MODE.                            *)
LEMMA LoopKeeps ==
  ASSUME GoOn
  PROVE  UNCHANGED <<clients, registered>>
  <1>1. CASE JoinZeroEnd \/ \E n : JoinZeroStep(n)
    BY <1>1 DEF JoinZeroEnd, JoinZeroStep, handlePart, notOnChannel, Leave, clientVars
  <1>2. CASE ModeStep
    BY <1>2 DEF ModeStep, ScanSign, ScanUnknown, ScanMissing, ScanOverLimit, ScanOperator,
       ScanFilter, ScanEnd, ApplySign, ApplyInviteOnly, ApplyTopic, ApplyKey, ApplyLimit,
       ApplyEnd, Continue, Complain, handleModeOperator, setModeKey, setModeUserLimit,
       clientVars
  <1> QED BY <1>1, <1>2 DEF GoOn

(* A step of the server is a step of Registration, or changes nothing that *)
(* Registration is about.                                                  *)
LEMMA LoginStep ==
  ASSUME [IrcNext]_ircVars
  PROVE  [Reg!Next]_(Reg!vars)
  <1>1. CASE UNCHANGED ircVars
    BY <1>1 DEF ircVars, vars, clientVars, loginVars, Reg!vars
  <1>2. ASSUME NEW c \in Client, Accept(c) \/ Drop(c)
        PROVE  Reg!Next
    BY <1>2 DEF Accept, Drop, Reg!Next
  <1>3. ASSUME NEW c \in Client, Login(c)
        PROVE  Reg!Next
    BY <1>3 DEF Login, Reg!Next
  <1>4. ASSUME NEW c \in Client, SetNick(c)
        PROVE  Reg!Next
    BY <1>4 DEF SetNick, Reg!Next
  <1>5. ASSUME NEW c \in Client, Talk(c)
        PROVE  UNCHANGED Reg!vars
    BY <1>5, TalkKeeps DEF Talk, loginVars, Reg!vars
  <1>6. CASE GoOn
    BY <1>6, LoopKeeps DEF GoOn, loginVars, Reg!vars
  <1> QED BY <1>1, <1>2, <1>3, <1>4, <1>5, <1>6 DEF IrcNext

(* Composing them changes nothing for whoever registers: every behaviour   *)
(* of the server, seen through its clients' registration, is one that      *)
(* Registration allows.                                                    *)
THEOREM ServerRegisters == IrcSpec => Reg!Spec
  <1>1. IrcInit => Reg!Init
    BY DEF IrcInit
  <1> QED BY <1>1, LoginStep, PTL DEF IrcSpec, Reg!Spec

(* Reg and Facts are instances of one module with the same parameters.     *)
LEMMA SameLogin ==
  /\ Reg!Init => Facts!Init
  /\ [Reg!Next]_(Reg!vars) => [Facts!Next]_(Facts!vars)
  <1>1. Reg!Init => Facts!Init
    BY DEF Reg!Init, Facts!Init
  <1>2. Reg!Next => Facts!Next
    BY DEF Reg!Next, Facts!Next, Reg!Connect, Facts!Connect, Reg!Disconnect,
       Facts!Disconnect, Reg!Quit, Facts!Quit, Reg!Unknown, Facts!Unknown,
       Reg!NeedsLogin, Facts!NeedsLogin, Reg!Pass, Facts!Pass, Reg!Ping, Facts!Ping,
       Reg!NickCmd, Facts!NickCmd, Reg!UserCmd, Facts!UserCmd, Reg!Serving,
       Facts!Serving, Reg!Reply, Facts!Reply, Reg!isNicknameTaken,
       Facts!isNicknameTaken, Reg!toLower, Facts!toLower, Reg!Complete, Facts!Complete,
       Reg!tryCompleteRegistration, Facts!tryCompleteRegistration, Reg!isComplete,
       Facts!isComplete, Reg!isMissingPassword, Facts!isMissingPassword,
       Reg!disconnectClient, Facts!disconnectClient, Reg!eraseClosing,
       Facts!eraseClosing, Reg!checkPassword, Facts!checkPassword
  <1>3. Reg!vars = Facts!vars /\ (Reg!vars)' = (Facts!vars)'
    BY DEF Reg!vars, Facts!vars
  <1> QED BY <1>1, <1>2, <1>3

(* What Registration keeps, the composed server keeps.                     *)
LoginInv == Reg!TypeOK /\ Reg!NickUnique /\ Reg!RegisteredIsComplete
              /\ Reg!NobodyLingers

(* What Registration keeps holds in every state of the server.             *)
LEMMA LoginInductive == IrcSpec => []LoginInv
  <1>1. Facts!Spec => []Facts!RegInv
    BY LoginAssumption, Facts!RegInductive
  <1>2. Facts!RegInv => LoginInv
    BY DEF LoginInv, Facts!RegInv, Reg!TypeOK, Facts!TypeOK, Reg!NickUnique,
       Facts!NickUnique, Reg!RegisteredIsComplete, Facts!RegisteredIsComplete,
       Reg!NobodyLingers, Facts!NobodyLingers, Reg!toLower, Facts!toLower
  <1>3. Reg!Spec => Facts!Spec
    BY SameLogin, PTL DEF Reg!Spec, Facts!Spec
  <1> QED BY <1>1, <1>2, <1>3, ServerRegisters, PTL

-----------------------------------------------------------------------------
(* The composed server keeps what the channels keep.                       *)

(* A name in a command is a client's or nobody's.                          *)
LEMMA NamedType ==
  ASSUME TypeOK, NEW n
  PROVE  Named(n) \in Param
  <1>1. Named(n) \in registered \/ Named(n) = nobody
    BY DEF Named
  <1> QED BY <1>1, ParamAssumption, NobodyAssumption DEF TypeOK

(* Beside the steps of ChannelServer the composed server has only a MODE   *)
(* with one name, and lines that concern no channel.                       *)
LEMMA ChannelKind ==
  ASSUME TypeOK, [IrcNext]_ircVars
  PROVE  \/ [Next]_vars
         \/ Idle /\ Ignore
         \/ \E c \in Client, n \in ChannelArg, m \in ModeLine, p \in Seq(Param) :
              Mode(c, n, m, p)
  <1>1. CASE UNCHANGED ircVars
    BY <1>1 DEF ircVars
  <1>2. ASSUME NEW c \in Client, Accept(c) \/ Drop(c)
        PROVE  Next
    BY <1>2 DEF Accept, Drop, Next
  <1>3. ASSUME NEW c \in Client, Idle, Channels(c)
        PROVE  Next \/ (Idle /\ Ignore)
    BY <1>3 DEF Channels, Next
  <1>4. ASSUME NEW c \in Client, Login(c) \/ SetNick(c)
        PROVE  Next \/ (Idle /\ Ignore)
    <2>1. Idle /\ (Channels(c) \/ NickChange(c))
      BY <1>4 DEF Login, SetNick, Serves
    <2> QED BY <1>3, <2>1 DEF Next, Command
  <1>5. ASSUME NEW c \in Client, Talk(c)
        PROVE  \/ Next
               \/ \E n \in ChannelArg, m \in ModeLine, p \in Seq(Param) : Mode(c, n, m, p)
    <2>1. \A x : Named(x) \in Param /\ <<Named(x)>> \in Seq(Param)
      BY NamedType
    <2>2. ASSUME NEW n \in ChannelArg, NEW x \in Nick, NEW m \in ModeLine,
                 Mode(c, n, m, <<Named(x)>>)
          PROVE  \E y \in ChannelArg, z \in ModeLine, p \in Seq(Param) : Mode(c, y, z, p)
      BY <2>1, <2>2
    <2>3. ASSUME Command(c) PROVE Next
      BY <2>3 DEF Next
    <2>4. ChannelLine(c)
      BY <1>5 DEF Talk
    <2>5. ASSUME NEW n \in ChannelArg, NEW x \in Nick, Kick(c, n, Named(x)) \/ Invite(c, Named(x), n)
          PROVE  Command(c)
      BY <2>1, <2>5 DEF Command
    <2>6. ASSUME NEW x \in Nick, NEW hasText \in BOOLEAN, Privmsg(c, Named(x), hasText)
          PROVE  Command(c)
      BY <2>1, <2>6 DEF Command
    <2>7. ASSUME \/ \E n \in ChannelArg, p \in Param \cup {Empty} : Join(c, n, p)
                 \/ JoinZero(c)
                 \/ \E n \in ChannelArg : Part(c, n)
                 \/ \E n \in ChannelArg, t \in Topic \cup {Empty, NULL} : TopicCmd(c, n, t)
                 \/ \E x \in ChannelArg, hasText \in BOOLEAN : Privmsg(c, x, hasText)
          PROVE  Command(c)
      BY <2>7 DEF Command
    <2> QED BY <2>2, <2>3, <2>4, <2>5, <2>6, <2>7 DEF ChannelLine
  <1>6. CASE GoOn
    BY <1>6 DEF GoOn, Next
  <1> QED BY <1>1, <1>2, <1>4, <1>5, <1>6 DEF IrcNext

(* No step of the server breaks what the channels keep: MODE lines are the *)
(* only commands it takes from a wider set.                                *)
LEMMA ChannelsKept ==
  ASSUME IndInv, [IrcNext]_ircVars
  PROVE  IndInv'
  <1>0. TypeOK /\ Core /\ FramePointers
    BY DEF IndInv
  <1>1. CASE Idle /\ Ignore
    <2>1. frame' = IdleFrame
      BY <1>1 DEF Idle, Ignore
    <2> QED BY <1>0, <1>1, <2>1, TypeReply, CoreReply, IdlePointers DEF IndInv
  <1>2. ASSUME NEW c \in Client, NEW n, NEW m \in ModeLine, NEW p \in Seq(Param),
               Mode(c, n, m, p)
        PROVE  IndInv'
    BY <1>0, <1>2, TypeMode, CoreMode, FrameOfModeLine DEF IndInv
  <1> QED BY <1>0, <1>1, <1>2, ChannelKind, IndStep

(* What the channels keep holds in every state of the server.              *)
LEMMA ChannelsInductive == IrcSpec => []IndInv
  <1>1. IrcInit => IndInv
    BY TypeInit, CoreInit DEF IrcInit, IndInv
  <1> QED BY <1>1, ChannelsKept, PTL DEF IrcSpec

(* In the composed server, where names are given up and taken while the    *)
(* commands run, no list names an object that was deleted, the lists of    *)
(* clients and channels agree, and no two clients have one nickname.       *)
THEOREM ServerIntegrity ==
  IrcSpec => [](/\ NoDanglingPointer /\ MembershipAgrees /\ OperatorsAreMembers
                /\ InvitesAgree /\ NoEmptyChannel /\ Reg!NickUnique)
  <1>1. LoginInv => Reg!NickUnique
    BY DEF LoginInv
  <1> QED BY <1>1, ListsHold, ChannelsInductive, LoginInductive, PTL

(* The composed server implements Membership as ChannelServer does.        *)
THEOREM ServerImplementsMembership == IrcSpec => Implements
  <1>1. IrcInit => Abstract!Init
    BY DEF IrcInit, Init, Abstract!Init
  <1>2. IndInv /\ [IrcNext]_ircVars => [Abstract!Next]_(Abstract!vars)
    <2> SUFFICES ASSUME IndInv, [IrcNext]_ircVars
                 PROVE  Still \/ Abstract!Next
      BY DEF Still, Abstract!vars, Abstract!doors
    <2>1. TypeOK
      BY DEF IndInv
    <2>2. ASSUME NEW c, NEW n, NEW m, NEW p, Mode(c, n, m, p)
          PROVE  Still
      BY <2>2, StillReply DEF Mode
    <2> QED BY <2>1, <2>2, ChannelKind, RefineStep, StillReply
  <1> QED BY <1>1, <1>2, ChannelsInductive, PTL DEF IrcSpec, Implements, Abstract!Spec

-----------------------------------------------------------------------------
(* What a client reads.                                                    *)

(* The lines of the step to d.                                             *)
Lines(d) == {sent'[d][i] : i \in DOMAIN sent'[d]}

(* The lines that a list of k looks at, and a step that sends d none.      *)
Tells(m, k) ==
  \/ m.cmd \in {"JOIN", "PART", "KICK", "353"} /\ m.chan = k
  \/ m.cmd \in {"QUIT", "NICK"} /\ m.chan = NULL

Mute(d, k) == \A m \in Lines(d) : ~Tells(m, k)

(* The nicknames of S.                                                     *)
Names(S) == {nickname[x] : x \in S}

(* What d has read of k by the end of the step is right.                   *)
Right(d, k) ==
  Read(d, k) = IF d \in members'[k] THEN {nickname'[x] : x \in members'[k]} ELSE {}

(* What a list looks at is among the lines of the step.                    *)
LEMMA OfLines ==
  ASSUME NEW d, NEW cmd, NEW k
  PROVE  Of(d, cmd, k) = {m \in Lines(d) : m.cmd = cmd /\ m.chan = k}
  BY DEF Of, Lines

(* No line, one line, and the lines of a JOIN.                             *)
LEMMA NoLines == ASSUME NEW d, sent'[d] = <<>> PROVE Lines(d) = {}
  BY DEF Lines

LEMMA OneLine == ASSUME NEW d, NEW m, sent'[d] = <<m>> PROVE Lines(d) = {m}
  BY DEF Lines

LEMMA FourLines ==
  ASSUME NEW d, NEW a, NEW b, NEW x, NEW y, sent'[d] = <<a>> \o <<b, x, y>>
  PROVE  Lines(d) = {a, b, x, y}
  <1> DEFINE S == {a, b, x, y}
             s == <<a>> \o <<b, x, y>>
  <1>1. <<a>> \in Seq(S) /\ <<b, x, y>> \in Seq(S)
    OBVIOUS
  <1>2. s \in Seq(S) /\ Len(s) = 4
    BY <1>1
  <1>3. s[1] = a /\ s[2] = b /\ s[3] = x /\ s[4] = y
    BY <1>1
  <1>4. DOMAIN s = 1..4
    BY <1>2
  <1> HIDE DEF s, S
  <1>5. sent'[d] = s
    BY DEF s
  <1>6. {s[i] : i \in 1..4} = {a, b, x, y}
    BY <1>3
  <1> QED BY <1>4, <1>5, <1>6 DEF Lines

(* Who reads a line of sendToOne and of sendToAll.                         *)
LEMMA QuietLines == ASSUME sent' = Quiet, NEW d \in Client PROVE Lines(d) = {}
  BY NoLines DEF Quiet

LEMMA ToOne ==
  ASSUME NEW c \in Client, NEW m, sent' = sendToOne(c, m), NEW d \in Client
  PROVE  Lines(d) = IF d = c THEN {m} ELSE {}
  BY NoLines, OneLine DEF sendToOne, Quiet

LEMMA ToAll ==
  ASSUME NEW S, NEW m, sent' = sendToAll(S, m), NEW d \in Client
  PROVE  Lines(d) = IF d \in S THEN {m} ELSE {}
  BY NoLines, OneLine DEF sendToAll

(* A list looks at the only line if that is of the kind it asks for.       *)
LEMMA OfOne ==
  ASSUME NEW d, NEW m, Lines(d) = {m}, NEW cmd, NEW k
  PROVE  Of(d, cmd, k) = IF m.cmd = cmd /\ m.chan = k THEN {m} ELSE {}
  BY OfLines

(* Without a rename every name stays.                                      *)
LEMMA NoRename ==
  ASSUME NEW d, NEW S, Of(d, "NICK", NULL) = {}
  PROVE  {Renamed(d, n) : n \in S} = S
  <1>1. \A n : Renamed(d, n) = n
    BY DEF Renamed
  <1> QED BY <1>1

(* Without a line about k the list of k stays.                             *)
LEMMA ReadStays ==
  ASSUME NEW d, NEW k, Mute(d, k)
  PROVE  Read(d, k) = roster[d][k]
  <1>1. /\ Of(d, "353", k) = {} /\ Of(d, "JOIN", k) = {} /\ Of(d, "PART", k) = {}
        /\ Of(d, "KICK", k) = {} /\ Of(d, "QUIT", NULL) = {} /\ Of(d, "NICK", NULL) = {}
    BY OfLines DEF Mute, Tells
  <1>2. Gone(d, k) = {} /\ Come(d, k) = {}
    BY <1>1 DEF Gone, Come
  <1>3. {Renamed(d, n) : n \in (roster[d][k] \cup {}) \ {}} = (roster[d][k] \cup {}) \ {}
    BY <1>1, NoRename
  <1>4. Read(d, k) = IF roster[d][k] = {} \/ nickname[d] \in {} THEN {}
                     ELSE (roster[d][k] \cup {}) \ {}
    BY <1>1, <1>2, <1>3, Zenon DEF Read
  <1>5. (roster[d][k] \cup {}) \ {} = roster[d][k] /\ nickname[d] \notin {}
    OBVIOUS
  <1> QED BY <1>4, <1>5, Zenon

(* A line that tells of a departure: PART, QUIT or KICK.                   *)
LEMMA ReadGone ==
  ASSUME NEW d, NEW k, NEW m, Lines(d) = {m}, NEW c,
         \/ m.cmd = "PART" /\ m.chan = k /\ m.from = c
         \/ m.cmd = "KICK" /\ m.chan = k /\ m.arg = c
         \/ m.cmd = "QUIT" /\ m.chan = NULL /\ m.from = c
  PROVE  Read(d, k) = IF roster[d][k] = {} \/ nickname[d] = nickname[c] THEN {}
                      ELSE roster[d][k] \ {nickname[c]}
  <1>1. Of(d, "353", k) = {} /\ Of(d, "JOIN", k) = {} /\ Of(d, "NICK", NULL) = {}
    BY OfOne
  <1>2. Come(d, k) = {}
    BY <1>1 DEF Come
  <1>3. Gone(d, k) = {nickname[c]}
    <2>1. CASE m.cmd = "PART" /\ m.chan = k /\ m.from = c
      <3>1. Of(d, "PART", k) = {m} /\ Of(d, "QUIT", NULL) = {} /\ Of(d, "KICK", k) = {}
        BY <2>1, OfOne
      <3> QED BY <2>1, <3>1 DEF Gone
    <2>2. CASE m.cmd = "KICK" /\ m.chan = k /\ m.arg = c
      <3>1. Of(d, "PART", k) = {} /\ Of(d, "QUIT", NULL) = {} /\ Of(d, "KICK", k) = {m}
        BY <2>2, OfOne
      <3> QED BY <2>2, <3>1 DEF Gone
    <2>3. CASE m.cmd = "QUIT" /\ m.chan = NULL /\ m.from = c
      <3>1. Of(d, "PART", k) = {} /\ Of(d, "QUIT", NULL) = {m} /\ Of(d, "KICK", k) = {}
        BY <2>3, OfOne
      <3> QED BY <2>3, <3>1 DEF Gone
    <2> QED BY <2>1, <2>2, <2>3
  <1> DEFINE S == (roster[d][k] \cup {}) \ {nickname[c]}
  <1>4. {Renamed(d, n) : n \in S} = S
    BY <1>1, NoRename
  <1>5. Read(d, k) = IF roster[d][k] = {} \/ nickname[d] \in {nickname[c]} THEN {} ELSE S
    BY <1>1, <1>2, <1>3, <1>4, Zenon DEF Read
  <1>6. S = roster[d][k] \ {nickname[c]}
    OBVIOUS
  <1>7. nickname[d] \in {nickname[c]} <=> nickname[d] = nickname[c]
    OBVIOUS
  <1> HIDE DEF S
  <1> QED BY <1>5, <1>6, <1>7, Zenon

(* A JOIN line of somebody else.                                           *)
LEMMA ReadJoined ==
  ASSUME NEW d, NEW k, NEW c, NEW m, m.cmd = "JOIN" /\ m.chan = k /\ m.from = c,
         Lines(d) = {m}
  PROVE  Read(d, k) = IF roster[d][k] = {} THEN {} ELSE roster[d][k] \cup {nickname[c]}
  <1>1. /\ Of(d, "353", k) = {} /\ Of(d, "JOIN", k) = {m} /\ Of(d, "PART", k) = {}
        /\ Of(d, "KICK", k) = {} /\ Of(d, "QUIT", NULL) = {} /\ Of(d, "NICK", NULL) = {}
    BY OfOne
  <1>2. Gone(d, k) = {} /\ Come(d, k) = {nickname[c]}
    BY <1>1 DEF Gone, Come
  <1> DEFINE S == (roster[d][k] \cup {nickname[c]}) \ {}
  <1>3. {Renamed(d, n) : n \in S} = S
    BY <1>1, NoRename
  <1>4. Read(d, k) = IF roster[d][k] = {} \/ nickname[d] \in {} THEN {} ELSE S
    BY <1>1, <1>2, <1>3, Zenon DEF Read
  <1>5. S = roster[d][k] \cup {nickname[c]} /\ nickname[d] \notin {}
    OBVIOUS
  <1> HIDE DEF S
  <1> QED BY <1>4, <1>5, Zenon

(* A name list.                                                            *)
LEMMA ReadNames ==
  ASSUME NEW d, NEW k, NEW m, Of(d, "353", k) = {m}
  PROVE  Read(d, k) = Names(m.arg.members)
  <1>1. UNION {x.arg.members : x \in Of(d, "353", k)} = m.arg.members
    OBVIOUS
  <1> QED BY <1>1 DEF Read, Names

(* :old NICK :new                                                          *)
LEMMA ReadNick ==
  ASSUME NEW d, NEW k, NEW c, NEW m, m.cmd = "NICK" /\ m.chan = NULL /\ m.from = c,
         Lines(d) = {m}
  PROVE  Read(d, k) = IF roster[d][k] = {} THEN {}
                      ELSE {IF n = nickname[c] THEN nickname'[c] ELSE n : n \in roster[d][k]}
  <1>1. /\ Of(d, "353", k) = {} /\ Of(d, "JOIN", k) = {} /\ Of(d, "PART", k) = {}
        /\ Of(d, "KICK", k) = {} /\ Of(d, "QUIT", NULL) = {} /\ Of(d, "NICK", NULL) = {m}
    BY OfOne
  <1>2. Gone(d, k) = {} /\ Come(d, k) = {}
    BY <1>1 DEF Gone, Come
  <1>3. \A n : Renamed(d, n) = IF n = nickname[c] THEN nickname'[c] ELSE n
    <2> SUFFICES ASSUME NEW n
                 PROVE  Renamed(d, n) = IF n = nickname[c] THEN nickname'[c] ELSE n
      OBVIOUS
    <2> DEFINE R == {x \in Of(d, "NICK", NULL) : nickname[x.from] = n}
    <2>1. CASE n = nickname[c]
      <3>1. R = {m}
        BY <1>1, <2>1
      <3>2. (CHOOSE x \in R : TRUE) = m
        BY <3>1
      <3> QED BY <2>1, <3>1, <3>2 DEF Renamed
    <2>2. CASE n # nickname[c]
      <3>1. R = {}
        BY <1>1, <2>2
      <3> QED BY <2>2, <3>1 DEF Renamed
    <2> QED BY <2>1, <2>2
  <1>4. (roster[d][k] \cup {}) \ {} = roster[d][k] /\ nickname[d] \notin {}
    OBVIOUS
  <1>5. Read(d, k) = IF roster[d][k] = {} THEN {}
                     ELSE {Renamed(d, n) : n \in roster[d][k]}
    BY <1>1, <1>2, <1>4, Zenon DEF Read
  <1>6. {Renamed(d, n) : n \in roster[d][k]}
          = {IF n = nickname[c] THEN nickname'[c] ELSE n : n \in roster[d][k]}
    BY <1>3
  <1> QED BY <1>5, <1>6, Zenon

-----------------------------------------------------------------------------
(* Names identify clients.                                                 *)

(* Two registered clients never have one nickname.                         *)
LEMMA Distinct ==
  ASSUME LoginInv, NEW x \in registered, NEW y \in registered, nickname[x] = nickname[y]
  PROVE  x = y
  BY DEF LoginInv, Reg!TypeOK, Reg!NickUnique, Reg!RegisteredIsComplete

(* Nicknames tell registered clients apart, so a name that goes takes one  *)
(* client from the list, and a rename changes one entry.                   *)
LEMMA NamesWithout ==
  ASSUME LoginInv, NEW S, S \subseteq registered, NEW c \in registered
  PROVE  Names(S) \ {nickname[c]} = Names(S \ {c})
  BY Distinct DEF Names

LEMMA NamesWith ==
  ASSUME NEW S, NEW c
  PROVE  Names(S) \cup {nickname[c]} = Names(S \cup {c})
  BY DEF Names

LEMMA NamesRenamed ==
  ASSUME LoginInv, NEW S, S \subseteq registered, NEW c \in registered,
         \A x \in registered \ {c} : nickname'[x] = nickname[x]
  PROVE  {IF n = nickname[c] THEN nickname'[c] ELSE n : n \in Names(S)}
           = {nickname'[x] : x \in S}
  <1>1. \A x \in S : nickname'[x] = IF nickname[x] = nickname[c] THEN nickname'[c]
                                     ELSE nickname[x]
    BY Distinct
  <1> QED BY <1>1 DEF Names

(* Everyone in a channel is registered.                                    *)
LEMMA MembersRegistered ==
  ASSUME IndInv, NEW k \in ChannelKey
  PROVE  members[k] \subseteq registered /\ members[k] \subseteq Client
  BY DEF IndInv, Core, LiveClients, TypeOK

(* What d has read of k before the step.                                   *)
LEMMA Before ==
  ASSUME RosterExact, NEW d \in Client, NEW k \in ChannelKey
  PROVE  /\ d \in members[k] => /\ roster[d][k] = Names(members[k])
                                /\ roster[d][k] # {}
         /\ d \notin members[k] => roster[d][k] = {}
  <1>1. roster[d][k] = IF d \in members[k] THEN Names(members[k]) ELSE {}
    BY DEF RosterExact, Names
  <1>2. d \in members[k] => nickname[d] \in Names(members[k])
    BY DEF Names
  <1> QED BY <1>1, <1>2

-----------------------------------------------------------------------------
(* Whatever the server does, every client has read the right names.        *)

(* So it is for every client that is still connected.                      *)
AllRight == \A d \in Client, k \in ChannelKey : d \in clients' => Right(d, k)

(* A step that sends d no line about k, and gives it nothing to be told.   *)
LEMMA Unmoved ==
  ASSUME RosterExact, NEW d \in Client, NEW k \in ChannelKey, Mute(d, k),
         d \in members[k] => /\ members'[k] = members[k]
                             /\ \A x \in members[k] : nickname'[x] = nickname[x],
         d \notin members[k] => d \notin members'[k]
  PROVE  Right(d, k)
  <1>1. Read(d, k) = roster[d][k]
    BY ReadStays
  <1>2. CASE d \in members[k]
    <2>1. Names(members[k]) = {nickname'[x] : x \in members'[k]}
      BY <1>2 DEF Names
    <2> QED BY <1>1, <1>2, <2>1, Before DEF Right
  <1>3. CASE d \notin members[k]
    BY <1>1, <1>3, Before DEF Right
  <1> QED BY <1>2, <1>3

(* Nobody comes or goes, and nobody is told so.                            *)
Calm == members' = members /\ \A d \in Client, k \in ChannelKey : Mute(d, k)

(* A step that tells nobody and moves nobody keeps the lists right.        *)
LEMMA CalmRight ==
  ASSUME IndInv, RosterExact, Calm, \A x \in registered : nickname'[x] = nickname[x]
  PROVE  AllRight
  <1> SUFFICES ASSUME NEW d \in Client, NEW k \in ChannelKey PROVE Right(d, k)
    BY DEF AllRight
  <1> QED BY Unmoved, MembersRegistered DEF Calm

(* PART and KICK.                                                          *)
Leaves(c, x) ==
  /\ c \in members[x] /\ Leave(c, x)
  /\ \E m : /\ m.chan = x
            /\ (m.cmd = "PART" /\ m.from = c) \/ (m.cmd = "KICK" /\ m.arg = c)
            /\ sent' = sendToAll(members[x], m)

(* So does a departure that is told to all members, the leaver included.   *)
LEMMA LeaveRight ==
  ASSUME IndInv, LoginInv, RosterExact, nickname' = nickname,
         NEW c \in Client, NEW x \in ChannelKey, Leaves(c, x)
  PROVE  AllRight
  <1> SUFFICES ASSUME NEW d \in Client, NEW k \in ChannelKey PROVE Right(d, k)
    BY DEF AllRight
  <1>1. PICK m : /\ m.chan = x
                 /\ (m.cmd = "PART" /\ m.from = c) \/ (m.cmd = "KICK" /\ m.arg = c)
                 /\ sent' = sendToAll(members[x], m)
    BY DEF Leaves
  <1>2. c \in members[x] /\ members'[k] = IF k = x THEN members[k] \ {c} ELSE members[k]
    BY DEF Leaves, Leave, removeMember, Without
  <1>3. Lines(d) = IF d \in members[x] THEN {m} ELSE {}
    BY <1>1, ToAll
  <1>4. CASE k # x \/ d \notin members[x]
    <2>1. Mute(d, k)
      BY <1>1, <1>3, <1>4 DEF Mute, Tells
    <2> QED BY <1>2, <1>4, <2>1, Unmoved
  <1>5. CASE k = x /\ d \in members[x]
    <2>1. Read(d, k) = IF roster[d][k] = {} \/ nickname[d] = nickname[c] THEN {}
                       ELSE roster[d][k] \ {nickname[c]}
      BY <1>1, <1>3, <1>5, ReadGone
    <2>2. c \in registered /\ d \in registered /\ members[k] \subseteq registered
      BY <1>2, <1>5, MembersRegistered
    <2>3. nickname[d] = nickname[c] <=> d = c
      BY <2>2, Distinct
    <2>4. roster[d][k] = Names(members[k]) /\ roster[d][k] # {}
      BY <1>5, Before
    <2>5. roster[d][k] \ {nickname[c]} = Names(members'[k])
      BY <1>2, <1>5, <2>2, <2>4, NamesWithout
    <2>6. Names(members'[k]) = {nickname'[y] : y \in members'[k]}
      BY DEF Names
    <2> QED BY <1>2, <1>5, <2>1, <2>3, <2>4, <2>5, <2>6 DEF Right
  <1> QED BY <1>4, <1>5

(* JOIN: the newcomer reads the name list, the others its JOIN.            *)
Enters(c, x) == c \notin members[x] /\ admit(c, x)

(* And an arrival: the members read JOIN, the newcomer the list of names.  *)
LEMMA EnterRight ==
  ASSUME IndInv, RosterExact, nickname' = nickname,
         NEW c \in Client, NEW x \in ChannelKey, Enters(c, x)
  PROVE  AllRight
  <1> SUFFICES ASSUME NEW d \in Client, NEW k \in ChannelKey PROVE Right(d, k)
    BY DEF AllRight
  <1> DEFINE j == makeCommand(c, "JOIN", x, Empty)
             t == IF topic[x] = Empty THEN makeReply("331", x, Empty)
                                      ELSE makeReply("332", x, topic[x])
             ops == IF members[x] = {} THEN {c} ELSE operators[x]
             n == makeReply("353", x, [members |-> members[x] \cup {c}, operators |-> ops])
             e == makeReply("366", x, Empty)
  <1>1. members'[k] = IF k = x THEN members[k] \cup {c} ELSE members[k]
    BY DEF Enters, admit, IndInv, TypeOK
  <1>2. /\ j.cmd = "JOIN" /\ j.chan = x /\ j.from = c
        /\ t.cmd \in {"331", "332"} /\ e.cmd = "366"
        /\ n.cmd = "353" /\ n.chan = x /\ n.arg.members = members[x] \cup {c}
    BY DEF makeCommand, makeReply
  <1>3. sent'[d] = IF d = c THEN <<j>> \o <<t, n, e>>
                   ELSE IF d \in members[x] THEN <<j>> ELSE <<>>
    BY DEF Enters, admit, sendToAll, Welcome
  <1> HIDE DEF j, t, n, e
  <1>4. Names(members'[k]) = {nickname'[y] : y \in members'[k]}
    BY DEF Names
  <1>5. CASE d = c
    <2>1. Lines(d) = {j, t, n, e}
      BY <1>3, <1>5, FourLines
    <2>2. CASE k = x
      <3>1. Of(d, "353", k) = {n}
        BY <1>2, <2>1, <2>2, OfLines
      <3>2. Read(d, k) = Names(members[x] \cup {c})
        BY <1>2, <3>1, ReadNames
      <3> QED BY <1>1, <1>4, <1>5, <2>2, <3>2 DEF Right
    <2>3. CASE k # x
      <3>1. Mute(d, k)
        BY <1>2, <2>1, <2>3 DEF Mute, Tells
      <3> QED BY <1>1, <2>3, <3>1, Unmoved
    <2> QED BY <2>2, <2>3
  <1>6. CASE d # c /\ d \in members[x]
    <2>1. Lines(d) = {j}
      BY <1>3, <1>6, OneLine
    <2>2. CASE k = x
      <3>1. Read(d, k) = IF roster[d][k] = {} THEN {} ELSE roster[d][k] \cup {nickname[c]}
        BY <1>2, <2>1, <2>2, ReadJoined
      <3>2. roster[d][k] = Names(members[k]) /\ roster[d][k] # {}
        BY <1>6, <2>2, Before
      <3>3. Names(members[k]) \cup {nickname[c]} = Names(members'[k])
        <4>1. members'[k] = members[k] \cup {c}
          BY <1>1, <2>2
        <4>2. Names(members[k]) \cup {nickname[c]} = Names(members[k] \cup {c})
          BY NamesWith
        <4> QED BY <4>1, <4>2, Zenon
      <3> QED BY <1>1, <1>4, <1>6, <2>2, <3>1, <3>2, <3>3 DEF Right
    <2>3. CASE k # x
      <3>1. Mute(d, k)
        BY <1>2, <2>1, <2>3 DEF Mute, Tells
      <3> QED BY <1>1, <2>3, <3>1, Unmoved
    <2> QED BY <2>2, <2>3
  <1>7. CASE d # c /\ d \notin members[x]
    <2>1. Mute(d, k)
      BY <1>3, <1>7, NoLines DEF Mute
    <2> QED BY <1>1, <1>7, <2>1, Unmoved
  <1> QED BY <1>5, <1>6, <1>7

(* A lost connection: a QUIT reaches everyone who shares a channel, and    *)
(* the nickname it gives up is nobody else's in any of their lists.        *)
LEMMA DropRight ==
  ASSUME IndInv, LoginInv, RosterExact, NEW c \in Client, Drop(c)
  PROVE  AllRight
  <1>1. Disconnect(c) /\ nickname' = [nickname EXCEPT ![c] = Empty]
    BY DEF Drop, Reg!Disconnect
  <1> SUFFICES ASSUME NEW d \in Client, NEW k \in ChannelKey, d # c PROVE Right(d, k)
    BY <1>1 DEF AllRight, Disconnect
  <1>2. TypeOK /\ Core
    BY DEF IndInv
  <1>3. \A x \in Client : x # c => nickname'[x] = nickname[x]
    BY <1>1 DEF LoginInv, Reg!TypeOK
  <1>4. members'[k] = members[k] \ {c}
    <2> DEFINE K == {x \in channels : isMember(c, x)}
    <2>1. k \in K <=> c \in members[k]
      BY <1>2 DEF isMember, Core, ChannelsInUse
    <2>2. members'[k] = IF k \in K THEN members[k] \ {c} ELSE members[k]
      BY <1>1 DEF Disconnect, Without
    <2>3. c \notin members[k] => members[k] = members[k] \ {c}
      OBVIOUS
    <2> QED BY <2>1, <2>2, <2>3
  <1>5. /\ members[k] \subseteq registered /\ members[k] \subseteq Client
        /\ d \in members[k] => roster[d][k] = Names(members[k]) /\ roster[d][k] # {}
        /\ d \notin members[k] => roster[d][k] = {}
    BY MembersRegistered, Before
  <1>6. Names(members'[k]) = {nickname'[x] : x \in members'[k]}
    BY <1>3, <1>4, <1>5 DEF Names
  <1>7. CASE c \in registered
    <2> DEFINE m == makeCommand(c, "QUIT", NULL, Empty)
               S == Neighbours(c) \ {c}
    <2>1. m.cmd = "QUIT" /\ m.chan = NULL /\ m.from = c
      BY DEF makeCommand
    <2>2. sent' = sendToAll(S, m)
      BY <1>1, <1>7 DEF Disconnect, broadcastQuit
    <2> HIDE DEF m, S
    <2>3. Lines(d) = IF d \in S THEN {m} ELSE {}
      BY <2>2, ToAll
    <2>4. CASE d \in S
      <3>1. Read(d, k) = IF roster[d][k] = {} \/ nickname[d] = nickname[c] THEN {}
                         ELSE roster[d][k] \ {nickname[c]}
        BY <2>1, <2>3, <2>4, ReadGone
      <3>2. d \in members[k] => nickname[d] # nickname[c]
        BY <1>5, <1>7, Distinct
      <3>3. Names(members[k]) \ {nickname[c]} = Names(members'[k])
        <4>1. Names(members[k]) \ {nickname[c]} = Names(members[k] \ {c})
          BY <1>5, <1>7, NamesWithout
        <4> QED BY <1>4, <4>1, Zenon
      <3> QED BY <1>4, <1>5, <1>6, <3>1, <3>2, <3>3 DEF Right
    <2>5. CASE d \notin S
      <3>1. Mute(d, k)
        BY <2>3, <2>5 DEF Mute
      <3>2. ASSUME d \in members[k], c \in members[k] PROVE FALSE
        <4>1. name[k] \in ChannelName /\ toLower(name[k]) = k
          BY <1>2 DEF TypeOK, Core, NamesFold
        <4>2. name[k] \in joinedChannels[c]
          BY <1>2, <3>2, <4>1 DEF Core, JoinedIsMember
        <4>3. k \in joinedKeys(c)
          BY <4>1, <4>2 DEF joinedKeys
        <4> QED BY <2>5, <3>2, <4>3 DEF S, Neighbours
      <3> QED BY <1>3, <1>4, <1>5, <3>1, <3>2, Unmoved
    <2> QED BY <2>4, <2>5
  <1>8. CASE c \notin registered
    <2>1. Mute(d, k)
      BY <1>1, <1>8, QuietLines DEF Disconnect, Mute
    <2> QED BY <1>3, <1>4, <1>5, <1>8, <2>1, Unmoved
  <1> QED BY <1>7, <1>8

(* A NICK of a registered client: whoever has the old name reads the line. *)
LEMMA NickRight ==
  ASSUME IndInv, LoginInv, RosterExact, NEW c \in Client, NickChange(c),
         NEW n, nickname' = [nickname EXCEPT ![c] = n]
  PROVE  AllRight
  <1> SUFFICES ASSUME NEW d \in Client, NEW k \in ChannelKey PROVE Right(d, k)
    BY DEF AllRight
  <1>1. c \in registered /\ members' = members
    BY DEF NickChange, Ready, chanVars
  <1>2. TypeOK /\ Core
    BY DEF IndInv
  <1>3. \A x \in Client : x # c => nickname'[x] = nickname[x]
    BY DEF LoginInv, Reg!TypeOK
  <1>4. /\ members[k] \subseteq registered /\ members[k] \subseteq Client
        /\ d \in members[k] => roster[d][k] = Names(members[k]) /\ roster[d][k] # {}
        /\ d \notin members[k] => roster[d][k] = {}
    BY MembersRegistered, Before
  <1> DEFINE m == makeCommand(c, "NICK", NULL, Empty)
             S == Neighbours(c)
  <1>5. m.cmd = "NICK" /\ m.chan = NULL /\ m.from = c
    BY DEF makeCommand
  <1>6. sent' = sendToAll(S, m)
    BY DEF NickChange, broadcastNickChange
  <1> HIDE DEF m, S
  <1>7. Lines(d) = IF d \in S THEN {m} ELSE {}
    BY <1>6, ToAll
  <1>8. CASE d \in S
    <2>1. Read(d, k) = IF roster[d][k] = {} THEN {}
                       ELSE {IF x = nickname[c] THEN nickname'[c] ELSE x : x \in roster[d][k]}
      BY <1>5, <1>7, <1>8, ReadNick
    <2>2. registered \subseteq Client
      BY <1>2 DEF TypeOK
    <2>3. {IF x = nickname[c] THEN nickname'[c] ELSE x : x \in Names(members[k])}
            = {nickname'[x] : x \in members[k]}
      BY <1>1, <1>3, <1>4, <2>2, NamesRenamed
    <2>4. CASE d \in members[k]
      BY <1>1, <1>4, <2>1, <2>3, <2>4, Zenon DEF Right
    <2>5. CASE d \notin members[k]
      BY <1>1, <1>4, <2>1, <2>5 DEF Right
    <2> QED BY <2>4, <2>5
  <1>9. CASE d \notin S
    <2>1. Mute(d, k)
      BY <1>7, <1>9 DEF Mute
    <2>2. ASSUME d \in members[k], c \in members[k] PROVE FALSE
      <3>1. name[k] \in ChannelName /\ toLower(name[k]) = k
        BY <1>2 DEF TypeOK, Core, NamesFold
      <3>2. name[k] \in joinedChannels[c]
        BY <1>2, <2>2, <3>1 DEF Core, JoinedIsMember
      <3>3. k \in joinedKeys(c)
        BY <3>1, <3>2 DEF joinedKeys
      <3> QED BY <1>9, <2>2, <3>3 DEF S, Neighbours
    <2> QED BY <1>1, <1>3, <1>4, <2>1, <2>2, Unmoved
  <1> QED BY <1>8, <1>9

-----------------------------------------------------------------------------
(* A channel command or an iteration of a loop is calm, or somebody comes  *)
(* or goes.                                                                *)

(* A step of a channel command, as far as the lists are concerned.         *)
Moves == Calm \/ \E c \in Client, k \in ChannelKey : Enters(c, k) \/ Leaves(c, k)

(* The commands that a list looks at.                                      *)
Telling == {"JOIN", "PART", "KICK", "353", "QUIT", "NICK"}

(* Steps that send nothing, or nothing that a list looks at, are calm.     *)
LEMMA CalmQuiet ==
  ASSUME members' = members, sent' = Quiet
  PROVE  Calm
  BY QuietLines DEF Calm, Mute

LEMMA CalmLine ==
  ASSUME members' = members, NEW m, m.cmd \notin Telling,
         \/ \E c \in Client : sent' = sendToOne(c, m)
         \/ \E S : sent' = sendToAll(S, m)
  PROVE  Calm
  <1>1. \A k : ~Tells(m, k)
    BY DEF Tells, Telling
  <1>2. \A d \in Client : Lines(d) \subseteq {m}
    BY ToOne, ToAll
  <1> QED BY <1>1, <1>2 DEF Calm, Mute

LEMMA CalmReply ==
  ASSUME members' = members, NEW c \in Client, NEW code, code \notin Telling, NEW k, NEW arg,
         sent' = sendToOne(c, makeReply(code, k, arg))
  PROVE  Calm
  <1>1. makeReply(code, k, arg).cmd = code
    BY DEF makeReply
  <1> QED BY <1>1, CalmLine

LEMMA CalmAnswer ==
  ASSUME NEW c \in Client, NEW code, code \notin Telling, NEW k, NEW arg,
         Answer(c, code, k, arg)
  PROVE  Calm
  BY CalmReply DEF Answer, chanVars

LEMMA CalmIgnore == ASSUME Ignore \/ Continue PROVE Calm
  BY CalmQuiet DEF Ignore, Continue, chanVars

LEMMA CalmRefusal ==
  ASSUME IndInv, NEW c \in Client, NEW k \in channels, notOnChannel(c, k)
  PROVE  Calm
  <1>1. members' = members
    BY RefusalKeeps DEF IndInv, chanVars
  <1>2. "442" \notin Telling
    BY DEF Telling
  <1> QED BY <1>1, <1>2, CalmReply DEF notOnChannel

(* JOIN, PART and KICK move one client of one channel; no other command    *)
(* moves any.                                                              *)
LEMMA JoinMoves ==
  ASSUME IndInv, NEW c \in Client, NEW n, NEW p, Join(c, n, p)
  PROVE  Moves
  <1>1. CASE Answer(c, "461", NULL, Empty) \/ Answer(c, "476", NULL, Empty)
    BY <1>1, CalmAnswer DEF Telling, Moves
  <1>2. CASE n \in ChannelName /\ handleJoin(c, toLower(n), p)
    <2> DEFINE k == toLower(n)
    <2>1. k \in ChannelKey /\ handleJoin(c, k, p)
      BY <1>2, LowerIsKey
    <2> HIDE DEF k
    <2>2. ASSUME NEW code, code \notin Telling, refuse(c, k, code)
          PROVE  Calm
      BY <2>2, CalmReply DEF refuse
    <2>3. CASE sent' = Quiet /\ members' = members
      BY <2>3, CalmQuiet DEF Moves
    <2>4. CASE ~isMember(c, k) /\ admit(c, k)
      BY <2>1, <2>4 DEF isMember, Enters, Moves
    <2>5. CASE \E code \in {"471", "473", "475"} : refuse(c, k, code)
      BY <2>2, <2>5 DEF Telling, Moves
    <2> QED BY <2>1, <2>3, <2>4, <2>5 DEF handleJoin
  <1> QED BY <1>1, <1>2 DEF Join

LEMMA PartMoves ==
  ASSUME IndInv, NEW c \in Client, NEW k \in channels, handlePart(c, k)
  PROVE  Moves
  <1>0. k \in ChannelKey
    BY DEF IndInv, TypeOK
  <1>1. CASE notOnChannel(c, k)
    BY <1>1, CalmRefusal DEF Moves
  <1>2. CASE /\ isMember(c, k)
             /\ sent' = sendToAll(members[k], makeCommand(c, "PART", k, Empty))
             /\ Leave(c, k)
    <2> DEFINE m == makeCommand(c, "PART", k, Empty)
    <2>1. m.cmd = "PART" /\ m.chan = k /\ m.from = c /\ sent' = sendToAll(members[k], m)
      BY <1>2 DEF makeCommand
    <2> HIDE DEF m
    <2> QED BY <1>0, <1>2, <2>1 DEF isMember, Leaves, Moves
  <1> QED BY <1>1, <1>2 DEF handlePart

LEMMA KickMoves ==
  ASSUME IndInv, NEW c \in Client, NEW n, NEW p, Kick(c, n, p)
  PROVE  Moves
  <1>1. ASSUME NEW code \in {"461", "403", "442", "482", "441"}, NEW k,
               Answer(c, code, k, Empty)
        PROVE  Moves
    <2>1. code \notin Telling
      BY DEF Telling
    <2> QED BY <1>1, <2>1, CalmAnswer DEF Moves
  <1>2. CASE findChannel(n) # NULL /\ kickUnknown(c, findChannel(n))
    BY <1>1, <1>2 DEF kickUnknown
  <1>3. CASE /\ findChannel(n) # NULL /\ findClientByNickname(p) # NULL
             /\ handleKick(c, findClientByNickname(p), findChannel(n))
    <2> DEFINE k == findChannel(n)
               d == findClientByNickname(p)
    <2>1. k \in channels /\ k \in ChannelKey /\ d \in Client
      BY <1>3 DEF findChannel, findClientByNickname, IndInv, TypeOK
    <2>2. handleKick(c, d, k)
      BY <1>3
    <2> HIDE DEF k, d
    <2>3. CASE notOnChannel(c, k)
      BY <2>1, <2>3, CalmRefusal DEF Moves
    <2>4. CASE /\ isMember(d, k)
               /\ sent' = sendToAll(kickAudience(d, k), makeCommand(c, "KICK", k, d))
               /\ Leave(d, k)
      <3> DEFINE m == makeCommand(c, "KICK", k, d)
      <3>1. /\ m.cmd = "KICK" /\ m.chan = k /\ m.arg = d
            /\ sent' = sendToAll(members[k], m) /\ d \in members[k]
        BY <2>4 DEF makeCommand, isMember, kickAudience
      <3> HIDE DEF m
      <3> QED BY <2>1, <2>4, <3>1 DEF Leaves, Moves
    <2> QED BY <1>1, <2>2, <2>3, <2>4 DEF handleKick
  <1> QED BY <1>1, <1>2, <1>3 DEF Kick

LEMMA TopicCalm ==
  ASSUME IndInv, NEW c \in Client, NEW n, NEW t, TopicCmd(c, n, t)
  PROVE  Calm
  <1>1. ASSUME NEW code \in {"461", "403", "442", "482", "331", "332"}, NEW k, NEW arg,
               Answer(c, code, k, arg)
        PROVE  Calm
    <2>1. code \notin Telling
      BY DEF Telling
    <2> QED BY <1>1, <2>1, CalmAnswer
  <1>2. ASSUME NEW k, members' = members,
               sent' = sendToAll(members[k], makeCommand(c, "TOPIC", k, t))
        PROVE  Calm
    <2>1. makeCommand(c, "TOPIC", k, t).cmd \notin Telling
      BY DEF makeCommand, Telling
    <2> QED BY <1>2, <2>1, CalmLine
  <1> QED BY <1>1, <1>2 DEF TopicCmd, handleTopic

LEMMA InviteCalm ==
  ASSUME IndInv, NEW c \in Client, NEW p, NEW n, Invite(c, p, n)
  PROVE  Calm
  <1>1. ASSUME NEW code \in {"461", "401", "403", "442", "482", "443"}, NEW k,
               Answer(c, code, k, Empty)
        PROVE  Calm
    <2>1. code \notin Telling
      BY DEF Telling
    <2> QED BY <1>1, <2>1, CalmAnswer
  <1>2. ASSUME NEW d, NEW k, members' = members,
               sent' = [sendToOne(c, makeReply("341", k, d))
                          EXCEPT ![d] = <<makeCommand(c, "INVITE", k, d)>>]
        PROVE  Calm
    <2> SUFFICES ASSUME NEW e \in Client, NEW x \in ChannelKey PROVE Mute(e, x)
      BY <1>2 DEF Calm
    <2> DEFINE r == makeReply("341", k, d)
               i == makeCommand(c, "INVITE", k, d)
    <2>1. r.cmd = "341" /\ i.cmd = "INVITE"
      BY DEF makeReply, makeCommand
    <2>2. sent'[e] = <<i>> \/ sent'[e] = <<r>> \/ sent'[e] = <<>>
      BY <1>2 DEF sendToOne, Quiet
    <2> HIDE DEF r, i
    <2>3. Lines(e) = {i} \/ Lines(e) = {r} \/ Lines(e) = {}
      BY <2>2, OneLine, NoLines
    <2> QED BY <2>1, <2>3 DEF Mute, Tells
  <1> QED BY <1>1, <1>2, CalmIgnore DEF Invite, handleInvite

LEMMA PrivmsgCalm ==
  ASSUME IndInv, NEW c \in Client, NEW x, NEW hasText, Privmsg(c, x, hasText)
  PROVE  Calm
  <1>1. ASSUME NEW code \in {"411", "412", "401", "404"}, NEW k, Answer(c, code, k, Empty)
        PROVE  Calm
    <2>1. code \notin Telling
      BY DEF Telling
    <2> QED BY <1>1, <2>1, CalmAnswer
  <1>2. \A k : makeCommand(c, "PRIVMSG", k, Empty).cmd \notin Telling
    BY DEF makeCommand, Telling
  <1>3. ASSUME NEW k, handleChannelPrivmsg(c, k) PROVE Calm
    BY <1>1, <1>2, <1>3, CalmLine DEF handleChannelPrivmsg, chanVars
  <1>4. ASSUME NEW d \in Client, handlePersonalPrivmsg(c, d) PROVE Calm
    BY <1>2, <1>4, CalmLine DEF handlePersonalPrivmsg, chanVars
  <1>5. findClientByNickname(x) # NULL => findClientByNickname(x) \in Client
    BY DEF findClientByNickname, IndInv, TypeOK
  <1> QED BY <1>1, <1>3, <1>4, <1>5 DEF Privmsg

LEMMA ModeCalm ==
  ASSUME NEW c \in Client, NEW n, NEW m, NEW p, Mode(c, n, m, p)
  PROVE  Calm
  <1>1. ASSUME NEW code \in {"461", "403", "324", "442", "482", "472"}, NEW k, NEW arg,
               Answer(c, code, k, arg)
        PROVE  Calm
    <2>1. code \notin Telling
      BY DEF Telling
    <2> QED BY <1>1, <2>1, CalmAnswer
  <1> QED BY <1>1, CalmIgnore DEF Mode

(* So a channel command moves at most one client, and so does a step of a  *)
(* loop: of JOIN 0, whose copy of the list is still joined, or of MODE.    *)
LEMMA TalkMoves ==
  ASSUME IndInv, NEW c \in Client, ChannelLine(c)
  PROVE  Moves
  <1>1. ASSUME NEW n, Part(c, n)
        PROVE  Moves
    <2>1. CASE Answer(c, "461", NULL, Empty) \/ Answer(c, "403", NULL, Empty)
      BY <2>1, CalmAnswer DEF Telling, Moves
    <2>2. CASE findChannel(n) # NULL /\ handlePart(c, findChannel(n))
      <3>1. findChannel(n) \in channels
        BY <2>2 DEF findChannel
      <3> QED BY <2>2, <3>1, PartMoves
    <2> QED BY <1>1, <2>1, <2>2 DEF Part
  <1>2. CASE JoinZero(c)
    BY <1>2, CalmQuiet DEF JoinZero, chanVars, Moves
  <1>3. ASSUME Calm PROVE Moves
    BY <1>3 DEF Moves
  <1> QED BY <1>1, <1>2, <1>3, JoinMoves, KickMoves, TopicCalm, InviteCalm, PrivmsgCalm,
             ModeCalm DEF ChannelLine

LEMMA LoopMoves ==
  ASSUME IndInv, GoOn
  PROVE  Moves
  <1>1. ASSUME NEW n \in ChannelName, JoinZeroStep(n)
        PROVE  Moves
    <2>1. frame.client \in Client /\ n \in joinedChannels[frame.client]
      BY <1>1 DEF JoinZeroStep, IndInv, FramePointers, TypeOK
    <2>2. toLower(n) \in channels
      BY <2>1, LowerIsKey DEF IndInv, Core, JoinedIsMember, ChannelsInUse
    <2> QED BY <1>1, <2>1, <2>2, PartMoves DEF JoinZeroStep
  <1>2. CASE JoinZeroEnd
    BY <1>2, CalmQuiet DEF JoinZeroEnd, chanVars, Moves
  <1>3. CASE ModeStep
    <2> SUFFICES Calm
      BY DEF Moves
    <2>1. ASSUME frame.op \in {"scan", "apply"},
                 \E code \in {"461", "472", "441", "482", "525", "467", "696"} : Complain(code)
          PROVE  Calm
      <3>1. frame.client \in Client
        BY <2>1 DEF IndInv, FramePointers, TypeOK
      <3>2. \A code \in {"461", "472", "441", "482", "525", "467", "696"} : code \notin Telling
        BY DEF Telling
      <3> QED BY <2>1, <3>1, <3>2, CalmReply DEF Complain, chanVars
    <2>2. ASSUME NEW cmd \in {"MODE", "MODEO"}, NEW S, NEW c, NEW k, NEW arg,
                 members' = members, sent' = sendToAll(S, makeCommand(c, cmd, k, arg))
          PROVE  Calm
      <3>1. makeCommand(c, cmd, k, arg).cmd \notin Telling
        BY DEF makeCommand, Telling
      <3> QED BY <2>2, <3>1, CalmLine
    <2>3. CASE ScanOperator
      BY <2>1, <2>2, <2>3, CalmIgnore DEF ScanOperator, Scanning, handleModeOperator
    <2>4. CASE ApplyEnd
      BY <2>2, <2>4, CalmQuiet DEF ApplyEnd, chanVars
    <2>5. CASE ApplyInviteOnly
      BY <2>5, CalmIgnore, CalmQuiet DEF ApplyInviteOnly, Apply
    <2>6. CASE ApplyTopic
      BY <2>6, CalmIgnore, CalmQuiet DEF ApplyTopic, Apply
    <2>7. CASE ApplyKey
      BY <2>1, <2>7, CalmIgnore, CalmQuiet DEF ApplyKey, Applying, Apply, setModeKey
    <2>8. CASE ApplyLimit
      BY <2>1, <2>8, CalmIgnore, CalmQuiet DEF ApplyLimit, Applying, Apply, setModeUserLimit
    <2>9. CASE ScanSign \/ ScanUnknown \/ ScanMissing \/ ScanOverLimit \/ ScanFilter
                 \/ ScanEnd \/ ApplySign
      BY <2>1, <2>9, CalmIgnore DEF ScanSign, ScanUnknown, ScanMissing, ScanOverLimit,
         ScanFilter, ScanEnd, ApplySign, Scanning, Applying
    <2> QED BY <1>3, <2>3, <2>4, <2>5, <2>6, <2>7, <2>8, <2>9 DEF ModeStep
  <1> QED BY <1>1, <1>2, <1>3 DEF GoOn

(* In each case the lists stay right.                                      *)
LEMMA MovesRight ==
  ASSUME IndInv, LoginInv, RosterExact, nickname' = nickname, Moves
  PROVE  AllRight
  BY CalmRight, EnterRight, LeaveRight DEF Moves

(* The login commands: only the nickname of a client in no channel may     *)
(* change without a line.                                                  *)
LEMMA LoginCalm ==
  ASSUME NEW c \in Client, Channels(c)
  PROVE  Calm
  <1>1. CASE Register(c)
    <2>1. "001" \notin Telling
      BY DEF Telling
    <2> QED BY <1>1, <2>1, CalmReply DEF Register, chanVars
  <1> QED BY <1>1, CalmIgnore DEF Channels

(* PASS, USER and the rest of the login keep the lists right.              *)
LEMMA LoginRight ==
  ASSUME IndInv, LoginInv, RosterExact, NEW c \in Client, Login(c)
  PROVE  AllRight
  <1>1. Channels(c) /\ nickname' = nickname
    BY DEF Login, Reg!Pass, Reg!Ping, Reg!UserCmd, Reg!Quit, Reg!Unknown, Reg!NeedsLogin,
       Reg!Reply
  <1> QED BY <1>1, LoginCalm, CalmRight

(* NICK does too: a registered client's is told to whoever shares a        *)
(* channel.                                                                *)
LEMMA SetNickRight ==
  ASSUME IndInv, LoginInv, RosterExact, NEW c \in Client, SetNick(c)
  PROVE  AllRight
  <1>1. nickname' = nickname \/ \E n : nickname' = [nickname EXCEPT ![c] = n]
    BY DEF SetNick, Reg!NickCmd, Reg!Reply
  <1>2. CASE c \in registered /\ nickname' # nickname
    BY <1>1, <1>2, NickRight DEF SetNick
  <1>3. CASE nickname' = nickname
    BY <1>3, LoginCalm, CalmRight DEF SetNick
  <1>4. CASE c \notin registered
    <2>1. Calm
      BY <1>4, LoginCalm DEF SetNick
    <2>2. \A x \in registered : nickname'[x] = nickname[x]
      BY <1>1, <1>4 DEF IndInv, TypeOK, LoginInv, Reg!TypeOK
    <2> QED BY <2>1, <2>2, CalmRight
  <1> QED BY <1>2, <1>3, <1>4

(* Every step of the server.                                               *)
LEMMA StepRight ==
  ASSUME IndInv, LoginInv, RosterExact, IrcNext
  PROVE  AllRight
  <1>1. ASSUME NEW c \in Client, Accept(c)
        PROVE  AllRight
    <2>1. Calm /\ nickname' = nickname
      BY <1>1, CalmQuiet DEF Accept, Connect, Reg!Connect, chanVars
    <2> QED BY <2>1, CalmRight
  <1>2. ASSUME NEW c \in Client, Talk(c)
        PROVE  AllRight
    BY <1>2, TalkMoves, MovesRight DEF Talk, loginVars
  <1>3. CASE GoOn
    BY <1>3, LoopMoves, MovesRight DEF GoOn, loginVars
  <1> QED BY <1>1, <1>2, <1>3, LoginRight, SetNickRight, DropRight DEF IrcNext

(* At every moment each member of a channel has read exactly the nicknames *)
(* of its members, through every rename, kick, quit and lost connection,   *)
(* and with nicknames that pass from one client to another; whoever is not *)
(* in has none.                                                            *)
THEOREM NamesAreKnown == RosterSpec => []RosterExact
  <1>1. RosterSpec => IrcSpec
    <2>1. RosterInit => IrcInit
      BY DEF RosterInit
    <2>2. [RosterNext]_rosterVars => [IrcNext]_ircVars
      BY DEF RosterNext, rosterVars
    <2> QED BY <2>1, <2>2, PTL DEF RosterSpec, IrcSpec
  <1>2. RosterInit => RosterExact
    BY DEF RosterInit, IrcInit, Init, RosterExact
  <1>3. IndInv /\ IndInv' /\ LoginInv /\ RosterExact /\ [RosterNext]_rosterVars
          => RosterExact'
    <2> SUFFICES ASSUME IndInv, IndInv', LoginInv, RosterExact, [RosterNext]_rosterVars
                 PROVE  RosterExact'
      OBVIOUS
    <2>1. CASE UNCHANGED rosterVars
      <3>1. members' = members /\ nickname' = nickname /\ roster' = roster
        BY <2>1 DEF rosterVars, ircVars, vars, chanVars, loginVars
      <3>2. ASSUME NEW d \in Client, NEW k \in ChannelKey
            PROVE  roster'[d][k] = IF d \in members'[k] THEN {nickname'[x] : x \in members'[k]}
                                   ELSE {}
        BY <3>1 DEF RosterExact
      <3> QED BY <3>2 DEF RosterExact
    <2>2. CASE RosterNext
      <3>1. AllRight
        BY <2>2, StepRight DEF RosterNext
      <3>2. ASSUME NEW d \in Client, NEW k \in ChannelKey
            PROVE  roster'[d][k] = IF d \in members'[k] THEN {nickname'[x] : x \in members'[k]}
                                   ELSE {}
        <4>1. roster'[d][k] = IF d \in clients' THEN Read(d, k) ELSE {}
          BY <2>2 DEF RosterNext
        <4>2. d \notin clients' => d \notin members'[k]
          BY DEF IndInv, Core, LiveClients
        <4> QED BY <3>1, <4>1, <4>2 DEF AllRight, Right
      <3> QED BY <3>2 DEF RosterExact
    <2> QED BY <2>1, <2>2
  <1> QED BY <1>1, <1>2, <1>3, LoginInductive, ChannelsInductive, PTL DEF RosterSpec

=============================================================================
