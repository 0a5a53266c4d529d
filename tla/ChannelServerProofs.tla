------------------------- MODULE ChannelServerProofs -------------------------
(***************************************************************************)
(* Proofs that the invariants of ChannelServer hold for every set of       *)
(* clients, channel names, parameters and mode lines.  First the types,    *)
(* then IndInv: clients and channels never disagree and never point to     *)
(* deleted objects.  Under IndInv every step is a step of Membership or    *)
(* leaves its variables alone: ChannelServer implements Membership.        *)
(***************************************************************************)
EXTENDS ChannelRefinement, TLAPS

(* A registry key is a name in lower case.                                 *)
LEMMA KeysAreNames == ChannelKey \subseteq ChannelName
  BY NameAssumption DEF ChannelKey

(* The server starts, with no client and no channel, in a state of the     *)
(* right type.                                                             *)
LEMMA TypeInit == Init => TypeOK
  BY KeysAreNames DEF Init, TypeOK, Quiet, IdleFrame, Frame

(* The write buffers stay a function on Client.                            *)
SentOK == sent' = [d \in Client |-> sent'[d]]

(* A step that only answers: nothing but the write buffers and the locals  *)
(* of the running command changes.                                         *)
LEMMA TypeAnswer ==
  ASSUME TypeOK, UNCHANGED <<clientVars, chanVars>>, frame' \in Frame, SentOK
  PROVE  TypeOK'
  BY DEF TypeOK, clientVars, chanVars, settings, SentOK

(* A command that only answers its sender keeps the type of the state.     *)
LEMMA TypeReply ==
  ASSUME TypeOK,
         \/ \E c, code, k, arg : Answer(c, code, k, arg)
         \/ Ignore
  PROVE  TypeOK'
  <1>1. frame' \in Frame
    BY DEF Answer, Ignore, TypeOK
  <1>2. SentOK
    BY DEF SentOK, Answer, Ignore, sendToOne, Quiet
  <1> QED
    BY <1>1, <1>2, TypeAnswer DEF Answer, Ignore

(* A new connection or registration keeps the type of the state.           *)
LEMMA TypeConnect ==
  ASSUME TypeOK, NEW c \in Client, Connect(c) \/ Register(c)
  PROVE  TypeOK'
  <1>1. SentOK
    BY DEF Connect, Register, SentOK, sendToOne, Quiet
  <1> QED
    BY <1>1 DEF TypeOK, Connect, Register, chanVars, settings, SentOK

(* deleteChannel gives every attribute a value the constructor could give  *)
(* it.                                                                     *)
LEMMA TypeDelete ==
  ASSUME TypeOK, NEW D, deleteChannel(D)
  PROVE  /\ channels' \subseteq ChannelKey
         /\ name' \in [ChannelKey -> ChannelName]
         /\ topic' \in [ChannelKey -> Topic \cup {Empty}]
         /\ key' \in [ChannelKey -> ValidKey \cup {Empty}]
         /\ userLimit' \in [ChannelKey -> Nat]
         /\ inviteOnly' \in [ChannelKey -> BOOLEAN]
         /\ topicByOpOnly' \in [ChannelKey -> BOOLEAN]
  BY KeysAreNames DEF TypeOK, deleteChannel, Reset

(* Leaving a channel, by PART or KICK, keeps the type of the state.        *)
LEMMA TypeLeave ==
  ASSUME TypeOK, NEW c, NEW k, Leave(c, k), frame' \in Frame, SentOK
  PROVE  TypeOK'
  <1> DEFINE D == Emptied(c, {k})
  <1>1. deleteChannel(D)
    BY DEF Leave, deleteChannels
  <1>2. members' \in [ChannelKey -> SUBSET Client]
    BY DEF Leave, removeMember, Without, TypeOK
  <1>3. operators' \in [ChannelKey -> SUBSET Client]
    BY DEF Leave, removeMember, Without, TypeOK
  <1>4. joinedChannels' \in [Client -> SUBSET ChannelName]
    BY DEF Leave, removeMember, removeJoinedChannels, TypeOK
  <1>5. invitedUsers' \in [ChannelKey -> SUBSET Client]
    BY DEF Leave, deleteChannels, Reset, TypeOK
  <1>6. invitedChannels' \in [Client -> SUBSET ChannelKey]
    BY DEF Leave, deleteChannels, clearInvitedUsers, TypeOK
  <1>7. clients' \subseteq Client /\ registered' \subseteq Client
    BY DEF Leave, TypeOK
  <1> QED
    BY <1>1, <1>2, <1>3, <1>4, <1>5, <1>6, <1>7, TypeDelete DEF TypeOK, SentOK

(* A lost connection keeps the type of the state.                          *)
LEMMA TypeDisconnect ==
  ASSUME TypeOK, NEW c \in Client, Disconnect(c)
  PROVE  TypeOK'
  <1> DEFINE K == {k \in channels : isMember(c, k)}
             D == Emptied(c, K)
  <1>1. deleteChannel(D)
    BY DEF Disconnect
  <1>2. members' \in [ChannelKey -> SUBSET Client]
    BY DEF Disconnect, Without, TypeOK
  <1>3. operators' \in [ChannelKey -> SUBSET Client]
    BY DEF Disconnect, Without, TypeOK
  <1>4. joinedChannels' \in [Client -> SUBSET ChannelName]
    BY DEF Disconnect, TypeOK
  <1>5. invitedUsers' \in [ChannelKey -> SUBSET Client]
    BY DEF Disconnect, removeMemberfromInvitedUsers, Reset, Without, TypeOK
  <1>6. invitedChannels' \in [Client -> SUBSET ChannelKey]
    BY DEF Disconnect, clearInvitedUsers, TypeOK
  <1>7. clients' \subseteq Client /\ registered' \subseteq Client /\ frame' \in Frame
    BY DEF Disconnect, TypeOK
  <1>8. SentOK
    BY DEF Disconnect, SentOK, broadcastQuit, sendToAll, Quiet
  <1> QED
    BY <1>1, <1>2, <1>3, <1>4, <1>5, <1>6, <1>7, <1>8, TypeDelete
    DEF TypeOK, SentOK

(* The lower-case form of a channel name is a registry key.                *)
LEMMA LowerIsKey == \A n \in ChannelName : toLower(n) \in ChannelKey
  BY DEF ChannelKey

(* JOIN keeps the type of the state, whichever gate stops it.              *)
LEMMA TypeJoin ==
  ASSUME TypeOK, NEW c \in Client, NEW n, NEW p, Join(c, n, p)
  PROVE  TypeOK'
  <1>1. CASE n = NULL /\ Answer(c, "461", NULL, Empty)
    BY <1>1, TypeReply
  <1>2. CASE n = BadName /\ Answer(c, "476", NULL, Empty)
    BY <1>2, TypeReply
  <1>3. CASE /\ n \in ChannelName
             /\ findOrCreateChannel(n, toLower(n))
             /\ handleJoin(c, toLower(n), p)
             /\ UNCHANGED <<clients, registered, settings, frame>>
    <2> DEFINE k == toLower(n)
    <2>1. k \in ChannelKey
      BY <1>3, LowerIsKey
    <2>2. channels' \subseteq ChannelKey /\ name' \in [ChannelKey -> ChannelName]
      BY <1>3, <2>1 DEF findOrCreateChannel, TypeOK
    <2>3. /\ SentOK
          /\ members' \in [ChannelKey -> SUBSET Client]
          /\ operators' \in [ChannelKey -> SUBSET Client]
          /\ invitedUsers' \in [ChannelKey -> SUBSET Client]
          /\ invitedChannels' \in [Client -> SUBSET ChannelKey]
          /\ joinedChannels' \in [Client -> SUBSET ChannelName]
      <3>1. CASE admit(c, k)
        <4>1. SentOK
          BY <3>1 DEF admit, SentOK, sendToAll
        <4>2. members' \in [ChannelKey -> SUBSET Client]
          BY <3>1 DEF admit, TypeOK
        <4>3. operators' \in [ChannelKey -> SUBSET Client]
          <5>1. \/ operators' = operators
                \/ operators' = [operators EXCEPT ![k] = @ \cup {c}]
            BY <3>1 DEF admit
          <5> QED BY <5>1 DEF TypeOK
        <4>4. /\ invitedUsers' \in [ChannelKey -> SUBSET Client]
              /\ invitedChannels' \in [Client -> SUBSET ChannelKey]
          BY <3>1 DEF admit, consumeInvite, TypeOK
        <4>5. joinedChannels' \in [Client -> SUBSET ChannelName]
          <5>1. name'[k] \in ChannelName
            BY <2>1, <2>2
          <5>2. joinedChannels' = [joinedChannels EXCEPT ![c] = @ \cup {name'[k]}]
            BY <3>1 DEF admit
          <5> QED BY <5>1, <5>2 DEF TypeOK
        <4> QED BY <4>1, <4>2, <4>3, <4>4, <4>5
      <3>2. CASE \E code : refuse(c, k, code)
        BY <3>2 DEF refuse, SentOK, sendToOne, Quiet, TypeOK
      <3>3. CASE /\ sent' = Quiet
                 /\ UNCHANGED <<invitedUsers, invitedChannels, members,
                                joinedChannels, operators>>
        BY <3>3 DEF SentOK, Quiet, TypeOK
      <3> QED BY <3>1, <3>2, <3>3, <1>3 DEF handleJoin
    <2> QED BY <1>3, <2>2, <2>3 DEF TypeOK, settings, SentOK
  <1> QED BY <1>1, <1>2, <1>3 DEF Join

(* So does a refused PART or KICK, whether or not it deletes the channel.  *)
LEMMA TypeNotOnChannel ==
  ASSUME TypeOK, NEW c, NEW k, notOnChannel(c, k), frame' \in Frame
  PROVE  TypeOK'
  <1>1. SentOK
    BY DEF notOnChannel, SentOK, sendToOne, Quiet
  <1>2. CASE /\ deleteChannels({k})
             /\ UNCHANGED <<clients, registered, joinedChannels, members, operators>>
    <2>1. invitedUsers' \in [ChannelKey -> SUBSET Client]
      BY <1>2 DEF deleteChannels, Reset, TypeOK
    <2>2. invitedChannels' \in [Client -> SUBSET ChannelKey]
      BY <1>2 DEF deleteChannels, clearInvitedUsers, TypeOK
    <2>3. deleteChannel({k})
      BY <1>2 DEF deleteChannels
    <2> QED BY <1>1, <1>2, <2>1, <2>2, <2>3, TypeDelete DEF TypeOK, SentOK
  <1> QED BY <1>1, <1>2, TypeAnswer DEF notOnChannel

(* Channel::handlePart keeps the type of the state.                        *)
LEMMA TypeHandlePart ==
  ASSUME TypeOK, NEW c, NEW k, handlePart(c, k), frame' \in Frame
  PROVE  TypeOK'
  <1>1. ASSUME NEW m, sent' = sendToAll(members[k], m), Leave(c, k)
        PROVE  TypeOK'
    <2>1. SentOK
      BY <1>1 DEF SentOK, sendToAll
    <2> QED BY <1>1, <2>1, TypeLeave
  <1> QED BY <1>1, TypeNotOnChannel DEF handlePart

(* PART keeps the type of the state.                                       *)
LEMMA TypePart ==
  ASSUME TypeOK, NEW c \in Client, NEW n, Part(c, n)
  PROVE  TypeOK'
  <1>1. CASE \E code : Answer(c, code, NULL, Empty)
    BY <1>1, TypeReply
  <1>2. CASE handlePart(c, findChannel(n)) /\ UNCHANGED frame
    BY <1>2, TypeHandlePart DEF TypeOK
  <1> QED BY <1>1, <1>2 DEF Part

(* The steps of JOIN 0 keep the type of the state.                         *)
LEMMA TypeJoinZero ==
  ASSUME TypeOK,
         \/ \E c \in Client : JoinZero(c)
         \/ \E n \in ChannelName : JoinZeroStep(n)
         \/ JoinZeroEnd
  PROVE  TypeOK'
  <1>1. ASSUME NEW c \in Client, JoinZero(c)
        PROVE  TypeOK'
    <2>1. frame' \in Frame
      <3>1. joinedChannels[c] \in SUBSET ChannelName
        BY DEF TypeOK
      <3>2. IdleFrame \in Frame
        BY DEF IdleFrame, Frame
      <3> QED BY <1>1, <3>1, <3>2 DEF JoinZero, Frame
    <2>2. SentOK
      BY <1>1 DEF JoinZero, SentOK, Quiet
    <2> QED BY <1>1, <2>1, <2>2, TypeAnswer DEF JoinZero
  <1>2. ASSUME NEW n \in ChannelName, JoinZeroStep(n)
        PROVE  TypeOK'
    <2>1. frame' \in Frame
      BY <1>2 DEF JoinZeroStep, Frame, TypeOK
    <2> QED BY <1>2, <2>1, TypeHandlePart DEF JoinZeroStep
  <1>3. CASE JoinZeroEnd
    <2>1. frame' \in Frame
      BY <1>3 DEF JoinZeroEnd, IdleFrame, Frame
    <2>2. SentOK
      BY <1>3 DEF JoinZeroEnd, SentOK, Quiet
    <2> QED BY <1>3, <2>1, <2>2, TypeAnswer DEF JoinZeroEnd
  <1> QED BY <1>1, <1>2, <1>3

(* KICK keeps the type of the state.                                       *)
LEMMA TypeKick ==
  ASSUME TypeOK, NEW c \in Client, NEW n, NEW p, Kick(c, n, p)
  PROVE  TypeOK'
  <1>1. CASE \E code, k : Answer(c, code, k, Empty)
    BY <1>1, TypeReply
  <1>2. ASSUME NEW d, NEW k,
               sent' = sendToAll(kickAudience(d, k), makeCommand(c, "KICK", k, d)),
               Leave(d, k), UNCHANGED frame
        PROVE  TypeOK'
    <2>1. SentOK
      BY <1>2 DEF SentOK, sendToAll
    <2> QED BY <1>2, <2>1, TypeLeave DEF TypeOK
  <1>3. CASE kickUnknown(c, findChannel(n))
    BY <1>3, <1>1 DEF kickUnknown
  <1>4. CASE handleKick(c, findClientByNickname(p), findChannel(n))
    BY <1>4, <1>1, <1>2, TypeNotOnChannel DEF handleKick, TypeOK
  <1> QED BY <1>1, <1>3, <1>4 DEF Kick

(* TOPIC keeps the type of the state: a topic is set or cleared.           *)
LEMMA TypeTopic ==
  ASSUME TypeOK, NEW c \in Client, NEW n, NEW t \in Topic \cup {Empty, NULL},
         TopicCmd(c, n, t)
  PROVE  TypeOK'
  <1>1. CASE \E code, k, arg : Answer(c, code, k, arg)
    BY <1>1, TypeReply
  <1>2. ASSUME NEW k, t # NULL,
               topic' = [topic EXCEPT ![k] = t],
               sent' = sendToAll(members[k], makeCommand(c, "TOPIC", k, t)),
               UNCHANGED <<clientVars, channels, name, members, operators,
                           invitedUsers, key, userLimit, inviteOnly,
                           topicByOpOnly, frame>>
        PROVE  TypeOK'
    <2>1. SentOK
      BY <1>2 DEF SentOK, sendToAll
    <2>2. topic' \in [ChannelKey -> Topic \cup {Empty}]
      BY <1>2 DEF TypeOK
    <2> QED BY <1>2, <2>1, <2>2 DEF TypeOK, clientVars, SentOK
  <1>3. CASE handleTopic(c, findChannel(n), t)
    BY <1>3, <1>1, <1>2 DEF handleTopic
  <1> QED BY <1>1, <1>3 DEF TopicCmd

(* INVITE keeps the type of the state.                                     *)
LEMMA TypeInvite ==
  ASSUME TypeOK, NEW c \in Client, NEW p, NEW n, Invite(c, p, n)
  PROVE  TypeOK'
  <1>1. CASE Ignore \/ \E code, k : Answer(c, code, k, Empty)
    BY <1>1, TypeReply
  <1>2. CASE handleInvite(c, findClientByNickname(p), findChannel(n))
            /\ findClientByNickname(p) # NULL /\ findChannel(n) # NULL
    <2> DEFINE d == findClientByNickname(p)
               k == findChannel(n)
    <2>1. d \in Client /\ k \in ChannelKey
      BY <1>2 DEF findClientByNickname, findChannel, TypeOK
    <2>2. ASSUME invitedUsers' = [invitedUsers EXCEPT ![k] = @ \cup {d}],
                 invitedChannels' = [invitedChannels EXCEPT ![d] = @ \cup {k}],
                 sent' = [sendToOne(c, makeReply("341", k, d))
                            EXCEPT ![d] = <<makeCommand(c, "INVITE", k, d)>>],
                 UNCHANGED <<clients, registered, joinedChannels, channels, name,
                             members, operators, settings, frame>>
          PROVE  TypeOK'
      <3>1. SentOK
        BY <2>2 DEF SentOK, sendToOne, Quiet
      <3>2. /\ invitedUsers' \in [ChannelKey -> SUBSET Client]
            /\ invitedChannels' \in [Client -> SUBSET ChannelKey]
        BY <2>1, <2>2 DEF TypeOK
      <3> QED BY <2>2, <3>1, <3>2 DEF TypeOK, settings, SentOK
    <2> QED BY <1>1, <1>2, <2>2 DEF handleInvite
  <1> QED BY <1>1, <1>2 DEF Invite

(* PRIVMSG and the notice of a NICK keep the type of the state.            *)
LEMMA TypePrivmsg ==
  ASSUME TypeOK, NEW c \in Client,
         NickChange(c) \/ \E x, hasText : Privmsg(c, x, hasText)
  PROVE  TypeOK'
  <1>1. CASE \E code, k : Answer(c, code, k, Empty)
    BY <1>1, TypeReply
  <1>2. ASSUME NEW S, NEW m, sent' = sendToAll(S, m) \/ sent' = sendToOne(S, m),
               UNCHANGED <<clientVars, chanVars, frame>>
        PROVE  TypeOK'
    <2>1. SentOK
      BY <1>2 DEF SentOK, sendToAll, sendToOne, Quiet
    <2> QED BY <1>2, <2>1, TypeAnswer DEF TypeOK
  <1>3. CASE NickChange(c)
    BY <1>2, <1>3 DEF NickChange, broadcastNickChange
  <1>4. ASSUME NEW x, NEW hasText, Privmsg(c, x, hasText)
        PROVE  TypeOK'
    <2>1. CASE handleChannelPrivmsg(c, findChannel(x))
      BY <1>1, <1>2, <2>1 DEF handleChannelPrivmsg
    <2>2. CASE handlePersonalPrivmsg(c, findClientByNickname(x))
      BY <1>2, <2>2 DEF handlePersonalPrivmsg
    <2> QED BY <1>1, <1>4, <2>1, <2>2 DEF Privmsg
  <1> QED BY <1>3, <1>4

-----------------------------------------------------------------------------
(* MODE                                                                    *)

(* An iteration of a MODE loop without effect, or with an error reply,     *)
(* keeps the type of the state.                                            *)
LEMMA TypeContinue ==
  ASSUME TypeOK, frame' \in Frame, Continue \/ \E code : Complain(code)
  PROVE  TypeOK'
  <1>1. SentOK
    BY DEF Continue, Complain, SentOK, sendToOne, Quiet
  <1> QED BY <1>1, TypeAnswer DEF Continue, Complain

(* The locals a MODE command starts a loop with.                           *)
LEMMA FrameStart ==
  ASSUME NEW c \in Client \cup {NULL}, NEW k \in ChannelKey \cup {NULL},
         NEW op \in {"scan", "apply"},
         NEW m \in Seq(ModeChar), NEW p \in Seq(Param)
  PROVE  ModeFrame(c, k, op, m, p) \in Frame
  <1>1. IdleFrame \in Frame
    BY DEF IdleFrame, Frame
  <1> QED BY <1>1 DEF ModeFrame, Frame

(* The start of MODE keeps the type of the state.                          *)
LEMMA TypeMode ==
  ASSUME TypeOK, NEW c \in Client, NEW n, NEW m \in ModeLine, NEW p \in Seq(Param),
         Mode(c, n, m, p)
  PROVE  TypeOK'
  <1>1. CASE Ignore \/ \E code, k, arg : Answer(c, code, k, arg)
    BY <1>1, TypeReply
  <1>2. CASE /\ findChannel(n) # NULL
             /\ frame' = ModeFrame(c, findChannel(n), "scan", m, p)
             /\ Continue
    <2>1. findChannel(n) \in ChannelKey
      BY <1>2 DEF findChannel, TypeOK
    <2>2. frame' \in Frame
      BY <1>2, <2>1, FrameStart, LineAssumption
    <2> QED BY <1>2, <2>2, TypeContinue
  <1> QED BY <1>1, <1>2 DEF Mode

(* appendApplied gives a string of mode characters.                        *)
LEMMA AppendedType ==
  ASSUME NEW s \in Seq(ModeChar), NEW l, NEW e \in BOOLEAN, NEW x \in ModeChar
  PROVE  appendApplied(s, l, e, x) \in Seq(ModeChar)
  <1>1. sign(e) \in ModeChar /\ <<sign(e)>> \in Seq(ModeChar) /\ <<x>> \in Seq(ModeChar)
    BY DEF sign, ModeChar, Sign
  <1>2. <<>> \in Seq(ModeChar)
    OBVIOUS
  <1> DEFINE mid == IF sign(e) = l THEN <<>> ELSE <<sign(e)>>
  <1>3. mid \in Seq(ModeChar)
    BY <1>1, <1>2
  <1>4. s \o mid \in Seq(ModeChar)
    BY <1>3
  <1>5. (s \o mid) \o <<x>> \in Seq(ModeChar)
    BY <1>1, <1>4
  <1> QED BY <1>5 DEF appendApplied

(* The locals while there is a letter left.                                *)
LEMMA LetterType ==
  ASSUME TypeOK, frame.modes # <<>>
  PROVE  /\ letter \in ModeChar /\ Tail(frame.modes) \in Seq(ModeChar)
         /\ sign(frame.enable) \in Sign
         /\ rest \in Seq(Param)
         /\ frame.params # <<>> => /\ Head(frame.params) \in Param
                                   /\ Tail(frame.params) \in Seq(Param)
  <1>1. /\ frame.modes \in Seq(ModeChar) /\ frame.params \in Seq(Param)
        /\ frame.enable \in BOOLEAN
    BY DEF TypeOK, Frame
  <1>2. letter \in ModeChar /\ Tail(frame.modes) \in Seq(ModeChar)
    BY <1>1 DEF letter
  <1>3. frame.params # <<>> => /\ Head(frame.params) \in Param
                               /\ Tail(frame.params) \in Seq(Param)
    BY <1>1
  <1>4. rest \in Seq(Param)
    BY <1>1, <1>3 DEF rest, hasParam
  <1>5. sign(frame.enable) \in Sign
    BY DEF sign, Sign
  <1> QED BY <1>2, <1>3, <1>4, <1>5

(* The loop of Mode::execute keeps the type of the state.                  *)
LEMMA TypeScan ==
  ASSUME TypeOK,
         ScanSign \/ ScanUnknown \/ ScanMissing \/ ScanOverLimit \/ ScanFilter
           \/ ScanOperator \/ ScanEnd
  PROVE  TypeOK'
  <1> USE DEF Scanning
  <1>0. frame \in Frame
    BY DEF TypeOK
  <1>1. CASE ScanSign
    <2>1. frame' \in Frame
      BY <1>0, <1>1, LetterType DEF ScanSign, Frame
    <2> QED BY <1>1, <2>1, TypeContinue DEF ScanSign
  <1>2. CASE ScanUnknown
    <2>1. frame' \in Frame
      BY <1>0, <1>2, LetterType DEF ScanUnknown, Frame
    <2> QED BY <1>2, <2>1, TypeContinue DEF ScanUnknown
  <1>3. CASE ScanMissing
    <2>1. frame' \in Frame
      BY <1>0, <1>3, LetterType DEF ScanMissing, Frame
    <2> QED BY <1>3, <2>1, TypeContinue DEF ScanMissing
  <1>4. CASE ScanOverLimit
    <2>1. frame' \in Frame
      BY <1>0, <1>4, LetterType DEF ScanOverLimit, Frame
    <2> QED BY <1>4, <2>1, TypeContinue DEF ScanOverLimit
  <1>5. CASE ScanFilter
    <2>1. appendApplied(frame.out, frame.lastSign, frame.enable, letter) \in Seq(ModeChar)
      BY <1>0, <1>5, AppendedType, LetterType DEF ScanFilter, Frame
    <2>2. (IF keepsParam THEN Append(frame.outParams, Head(frame.params))
                         ELSE frame.outParams) \in Seq(Param)
      BY <1>0, <1>5, LetterType DEF ScanFilter, Frame, keepsParam, hasParam
    <2>3. (IF letter \in {"k", "l"} THEN frame.paramModeCount + 1
                                    ELSE frame.paramModeCount) \in 0..3
      <3>1. frame.paramModeCount \in 0..3
        BY <1>0 DEF Frame
      <3>2. letter \in {"k", "l"} => ~(frame.paramModeCount >= 3)
        BY <1>5 DEF ScanFilter, overLimit
      <3> QED BY <3>1, <3>2
    <2>4. frame' \in Frame
      BY <1>0, <1>5, <2>1, <2>2, <2>3, LetterType DEF ScanFilter, Frame
    <2> QED BY <1>5, <2>4, TypeContinue DEF ScanFilter
  <1>6. CASE ScanOperator
    <2>1. frame' \in Frame
      <3>1. frame.paramModeCount + 1 \in 0..3
        BY <1>0, <1>6 DEF ScanOperator, Frame, overLimit
      <3>2. frame' = [frame EXCEPT !.modes = Tail(@), !.params = rest,
                                   !.paramModeCount = @ + 1]
        BY <1>6 DEF ScanOperator
      <3>3. Tail(frame.modes) \in Seq(ModeChar) /\ rest \in Seq(Param)
        BY <1>6, LetterType DEF ScanOperator
      <3> QED BY <1>0, <3>1, <3>2, <3>3 DEF Frame
    <2> DEFINE d == findClientByNickname(Head(frame.params))
               k == frame.chan
    <2>2. CASE Continue \/ \E code : Complain(code)
      BY <2>1, <2>2, TypeContinue
    <2>3. ASSUME d # NULL,
                 operators' = [operators EXCEPT ![k] =
                                 IF frame.enable THEN @ \cup {d} ELSE @ \ {d}],
                 sent' = sendToAll(members[k], makeCommand(frame.client, "MODEO", k,
                                     [enable |-> frame.enable, who |-> d])),
                 UNCHANGED <<clientVars, channels, name, members, invitedUsers,
                             settings>>
          PROVE  TypeOK'
      <3>1. d \in Client
        BY <2>3 DEF findClientByNickname, TypeOK
      <3>2. operators' \in [ChannelKey -> SUBSET Client]
        BY <2>3, <3>1 DEF TypeOK
      <3>3. SentOK
        BY <2>3 DEF SentOK, sendToAll
      <3> QED BY <2>1, <2>3, <3>2, <3>3 DEF TypeOK, SentOK, clientVars, settings
    <2> QED BY <1>6, <2>2, <2>3 DEF ScanOperator, handleModeOperator
  <1>7. CASE ScanEnd
    <2>1. IdleFrame \in Frame
      BY DEF IdleFrame, Frame
    <2>2. ModeFrame(frame.client, frame.chan, "apply", frame.out, frame.outParams) \in Frame
      BY <1>0, FrameStart DEF Frame
    <2>3. frame' \in Frame
      BY <1>7, <2>1, <2>2 DEF ScanEnd
    <2> QED BY <1>7, <2>3, TypeContinue DEF ScanEnd
  <1> QED BY <1>1, <1>2, <1>3, <1>4, <1>5, <1>6, <1>7

(* The loop of Channel::handleMode keeps the type of the state.            *)
LEMMA TypeApply ==
  ASSUME TypeOK,
         ApplySign \/ ApplyInviteOnly \/ ApplyTopic \/ ApplyKey \/ ApplyLimit \/ ApplyEnd
  PROVE  TypeOK'
  <1> USE DEF Applying
  <1>0. frame \in Frame
    BY DEF TypeOK
  <1>1. CASE ApplySign
    <2>1. frame' \in Frame
      BY <1>0, <1>1, LetterType DEF ApplySign, Frame
    <2> QED BY <1>1, <2>1, TypeContinue DEF ApplySign
  <1>2. ASSUME NEW ps \in Seq(Param), Skip(ps), frame.modes # <<>>,
               Continue \/ \E code : Complain(code)
        PROVE  TypeOK'
    <2>1. frame' \in Frame
      BY <1>0, <1>2, LetterType DEF Skip, Frame
    <2> QED BY <1>2, <2>1, TypeContinue
  <1>3. ASSUME NEW ps \in Seq(Param), NEW args \in Seq(Param), Apply(ps, args),
               frame.modes # <<>>
        PROVE  frame' \in Frame /\ SentOK
    <2>1. appendApplied(frame.out, frame.lastSign, frame.enable, letter) \in Seq(ModeChar)
      BY <1>0, <1>3, AppendedType, LetterType DEF Frame
    <2>2. frame.outParams \o args \in Seq(Param)
      BY <1>0, <1>3 DEF Frame
    <2>3. frame' \in Frame
      BY <1>0, <1>3, <2>1, <2>2, LetterType DEF Apply, Frame
    <2> QED BY <1>3, <2>3 DEF Apply, SentOK, Quiet
  <1>4. frame.params \in Seq(Param) /\ frame.enable \in BOOLEAN /\ <<>> \in Seq(Param)
    BY <1>0 DEF Frame
  <1>5. CASE ApplyInviteOnly
    <2>1. CASE Skip(frame.params) /\ Continue
      BY <1>2, <1>4, <1>5, <2>1 DEF ApplyInviteOnly
    <2>2. CASE /\ inviteOnly' = [inviteOnly EXCEPT ![frame.chan] = frame.enable]
               /\ Apply(frame.params, <<>>)
               /\ UNCHANGED <<clientVars, channels, name, members, operators,
                              invitedUsers, topic, key, userLimit, topicByOpOnly>>
      <3>1. frame' \in Frame /\ SentOK
        BY <1>3, <1>4, <1>5, <2>2 DEF ApplyInviteOnly
      <3>2. inviteOnly' \in [ChannelKey -> BOOLEAN]
        BY <1>4, <2>2 DEF TypeOK
      <3> QED BY <2>2, <3>1, <3>2 DEF TypeOK, SentOK, clientVars
    <2> QED BY <1>5, <2>1, <2>2 DEF ApplyInviteOnly
  <1>6. CASE ApplyTopic
    <2>1. CASE Skip(frame.params) /\ Continue
      BY <1>2, <1>4, <1>6, <2>1 DEF ApplyTopic
    <2>2. CASE /\ topicByOpOnly' = [topicByOpOnly EXCEPT ![frame.chan] = frame.enable]
               /\ Apply(frame.params, <<>>)
               /\ UNCHANGED <<clientVars, channels, name, members, operators,
                              invitedUsers, topic, key, userLimit, inviteOnly>>
      <3>1. frame' \in Frame /\ SentOK
        BY <1>3, <1>4, <1>6, <2>2 DEF ApplyTopic
      <3>2. topicByOpOnly' \in [ChannelKey -> BOOLEAN]
        BY <1>4, <2>2 DEF TypeOK
      <3> QED BY <2>2, <3>1, <3>2 DEF TypeOK, SentOK, clientVars
    <2> QED BY <1>6, <2>1, <2>2 DEF ApplyTopic
  <1>7. CASE ApplyKey
    <2>1. ASSUME NEW ps \in Seq(Param), NEW args \in Seq(Param), Apply(ps, args),
                 NEW p \in ValidKey \cup {Empty}, setModeKey(p)
          PROVE  TypeOK'
      <3>1. frame' \in Frame /\ SentOK
        BY <1>3, <1>7, <2>1 DEF ApplyKey
      <3>2. key' \in [ChannelKey -> ValidKey \cup {Empty}]
        BY <2>1 DEF TypeOK, setModeKey
      <3> QED BY <2>1, <3>1, <3>2 DEF TypeOK, SentOK, clientVars, setModeKey
    <2>2. CASE frame.enable
      <3>1. frame.params # <<>>
        BY <1>7, <2>2 DEF ApplyKey
      <3>2. Tail(frame.params) \in Seq(Param) /\ <<Head(frame.params)>> \in Seq(Param)
        BY <1>4, <3>1
      <3> QED BY <1>2, <1>7, <2>1, <2>2, <3>2 DEF ApplyKey, isValidKey
    <2>3. CASE ~frame.enable
      BY <1>2, <1>4, <1>7, <2>1, <2>3 DEF ApplyKey
    <2> QED BY <2>2, <2>3
  <1>8. CASE ApplyLimit
    <2>1. ASSUME NEW ps \in Seq(Param), NEW args \in Seq(Param), Apply(ps, args),
                 NEW p \in Nat, setModeUserLimit(p)
          PROVE  TypeOK'
      <3>1. frame' \in Frame /\ SentOK
        BY <1>3, <1>8, <2>1 DEF ApplyLimit
      <3>2. userLimit' \in [ChannelKey -> Nat]
        BY <2>1 DEF TypeOK, setModeUserLimit
      <3> QED BY <2>1, <3>1, <3>2 DEF TypeOK, SentOK, clientVars, setModeUserLimit
    <2>2. CASE frame.enable
      <3>1. frame.params # <<>>
        BY <1>8, <2>2 DEF ApplyLimit
      <3>2. Tail(frame.params) \in Seq(Param) /\ <<Head(frame.params)>> \in Seq(Param)
        BY <1>4, <3>1
      <3>3. atoi[Head(frame.params)] \in Nat
        BY <1>4, <3>1, ParamAssumption
      <3> QED BY <1>2, <1>8, <2>1, <2>2, <3>2, <3>3 DEF ApplyLimit
    <2>3. CASE ~frame.enable
      BY <1>2, <1>4, <1>8, <2>1, <2>3 DEF ApplyLimit
    <2> QED BY <2>2, <2>3
  <1>9. CASE ApplyEnd
    <2>1. frame' \in Frame
      BY <1>9 DEF ApplyEnd, IdleFrame, Frame
    <2>2. SentOK
      BY <1>9 DEF ApplyEnd, SentOK, sendToAll, Quiet
    <2> QED BY <1>9, <2>1, <2>2, TypeAnswer DEF ApplyEnd
  <1> QED BY <1>1, <1>5, <1>6, <1>7, <1>8, <1>9

(* TypeOK is inductive.                                                    *)
LEMMA TypeStep == ASSUME TypeOK, [Next]_vars PROVE TypeOK'
  <1>1. CASE UNCHANGED vars
    BY <1>1 DEF vars, clientVars, chanVars, settings, TypeOK
  <1>2. ASSUME NEW c \in Client, Connect(c) \/ Register(c) \/ Disconnect(c)
        PROVE  TypeOK'
    BY <1>2, TypeConnect, TypeDisconnect
  <1>3. ASSUME NEW c \in Client, Command(c)
        PROVE  TypeOK'
    <2>1. CASE \E n \in ChannelArg, p \in Param \cup {Empty} : Join(c, n, p)
      BY <2>1, TypeJoin
    <2>2. CASE JoinZero(c)
      BY <2>2, TypeJoinZero
    <2>3. CASE \E n \in ChannelArg : Part(c, n)
      BY <2>3, TypePart
    <2>4. CASE \E n \in ChannelArg, p \in Param : Kick(c, n, p)
      BY <2>4, TypeKick
    <2>5. CASE \E n \in ChannelArg, t \in Topic \cup {Empty, NULL} : TopicCmd(c, n, t)
      BY <2>5, TypeTopic
    <2>6. CASE \E n \in ChannelArg, p \in Param : Invite(c, p, n)
      BY <2>6, TypeInvite
    <2>7. CASE NickChange(c) \/ \E x \in ChannelArg \cup Param, h \in BOOLEAN : Privmsg(c, x, h)
      BY <2>7, TypePrivmsg
    <2>8. CASE \E n \in ChannelArg, m \in ModeLine, p \in ParamLine : Mode(c, n, m, p)
      BY <2>8, TypeMode, LineAssumption
    <2> QED BY <1>3, <2>1, <2>2, <2>3, <2>4, <2>5, <2>6, <2>7, <2>8 DEF Command
  <1>4. CASE (\E n \in ChannelName : JoinZeroStep(n)) \/ JoinZeroEnd
    BY <1>4, TypeJoinZero
  <1>5. CASE ModeStep
    BY <1>5, TypeScan, TypeApply DEF ModeStep
  <1> QED BY <1>1, <1>2, <1>3, <1>4, <1>5 DEF Next

(* TypeOK holds in every reachable state of the channel server.            *)
THEOREM TypeCorrect == Spec => []TypeOK
  BY TypeInit, TypeStep, PTL DEF Spec

-----------------------------------------------------------------------------
(* What Mode::execute hands to Channel::handleMode.                        *)

(* The sign in force after the first letter of ms was read under `on'.     *)
after(ms, on) == IF ms[1] = "+" THEN TRUE ELSE IF ms[1] = "-" THEN FALSE ELSE on

(* Reading a letter shifts the positions and may change the sign.          *)
LEMMA PlusOfTail ==
  ASSUME NEW ms \in Seq(ModeChar), ms # <<>>, NEW on \in BOOLEAN,
         NEW j \in 1..Len(Tail(ms))
  PROVE  plus(Tail(ms), after(ms, on), j) <=> plus(ms, on, j + 1)
  <1> DEFINE t == Tail(ms)
  <1>1. /\ Len(ms) \in Nat /\ Len(t) = Len(ms) - 1
        /\ \A m \in 1..Len(t) : t[m] = ms[m + 1]
    OBVIOUS
  <1>2. ASSUME plus(t, after(ms, on), j)
        PROVE  plus(ms, on, j + 1)
    <2>1. CASE after(ms, on) /\ \A m \in 1..(j - 1) : t[m] # "-"
      <3>1. \A m \in 2..j : ms[m] # "-"
        <4> SUFFICES ASSUME NEW m \in 2..j PROVE ms[m] # "-"
          OBVIOUS
        <4>1. m - 1 \in 1..(j - 1) /\ m - 1 \in 1..Len(t) /\ (m - 1) + 1 = m
          BY <1>1
        <4> QED BY <1>1, <2>1, <4>1
      <3>2. CASE ms[1] = "+"
        <4>1. 1 \in 1..((j + 1) - 1) /\ \A m \in (1 + 1)..((j + 1) - 1) : ms[m] # "-"
          BY <3>1
        <4> QED BY <3>2, <4>1 DEF plus
      <3>3. CASE ms[1] # "+"
        <4>1. on /\ ms[1] # "-"
          BY <2>1, <3>3 DEF after
        <4>2. \A m \in 1..((j + 1) - 1) : ms[m] # "-"
          BY <3>1, <4>1
        <4> QED BY <4>1, <4>2 DEF plus
      <3> QED BY <3>2, <3>3
    <2>2. ASSUME NEW h \in 1..(j - 1), t[h] = "+", \A m \in (h + 1)..(j - 1) : t[m] # "-"
          PROVE  plus(ms, on, j + 1)
      <3>1. h + 1 \in 1..((j + 1) - 1) /\ ms[h + 1] = "+"
        BY <1>1, <2>2
      <3>2. \A m \in ((h + 1) + 1)..((j + 1) - 1) : ms[m] # "-"
        <4> SUFFICES ASSUME NEW m \in ((h + 1) + 1)..((j + 1) - 1) PROVE ms[m] # "-"
          OBVIOUS
        <4>1. m - 1 \in (h + 1)..(j - 1) /\ m - 1 \in 1..Len(t) /\ (m - 1) + 1 = m
          BY <1>1
        <4> QED BY <1>1, <2>2, <4>1
      <3> QED BY <3>1, <3>2 DEF plus
    <2> QED BY <1>2, <2>1, <2>2 DEF plus
  <1>3. ASSUME plus(ms, on, j + 1)
        PROVE  plus(t, after(ms, on), j)
    <2>1. CASE on /\ \A m \in 1..((j + 1) - 1) : ms[m] # "-"
      <3>1. after(ms, on)
        BY <1>1, <2>1 DEF after
      <3>2. \A m \in 1..(j - 1) : t[m] # "-"
        BY <1>1, <2>1
      <3> QED BY <3>1, <3>2 DEF plus
    <2>2. ASSUME NEW h \in 1..((j + 1) - 1), ms[h] = "+",
                 \A m \in (h + 1)..((j + 1) - 1) : ms[m] # "-"
          PROVE  plus(t, after(ms, on), j)
      <3>1. CASE h = 1
        <4>1. after(ms, on)
          BY <2>2, <3>1 DEF after
        <4>2. \A m \in 1..(j - 1) : t[m] # "-"
          BY <1>1, <2>2, <3>1
        <4> QED BY <4>1, <4>2 DEF plus
      <3>2. CASE h # 1
        <4>1. h - 1 \in 1..(j - 1) /\ t[h - 1] = "+"
          BY <1>1, <2>2, <3>2
        <4>2. \A m \in ((h - 1) + 1)..(j - 1) : t[m] # "-"
          BY <1>1, <2>2, <3>2
        <4> QED BY <4>1, <4>2 DEF plus
      <3> QED BY <3>1, <3>2
    <2> QED BY <1>3, <2>1, <2>2 DEF plus
  <1> QED BY <1>2, <1>3

(* Parameters matched with letters stay so when the letters move one place *)
(* up, and when the first letter takes the first parameter away.           *)
LEMMA MatchedShift ==
  ASSUME NEW V, NEW W, NEW n \in Nat, Matched(V, n),
         \A j \in W : j \in Nat /\ j # 0 /\ j + 1 \in V
  PROVE  Matched(W, n) /\ (1 \in V => n # 0 /\ Matched(W, n - 1))
  <1>1. PICK f \in [V -> 1..n] : \A a, b \in V : a < b => f[a] < f[b]
    BY DEF Matched
  <1>2. Matched(W, n)
    <2> DEFINE g == [j \in W |-> f[j + 1]]
    <2>1. g \in [W -> 1..n]
      OBVIOUS
    <2>2. \A a, b \in W : a < b => g[a] < g[b]
      <3> SUFFICES ASSUME NEW a \in W, NEW b \in W, a < b PROVE f[a + 1] < f[b + 1]
        OBVIOUS
      <3>1. a + 1 < b + 1
        OBVIOUS
      <3> QED BY <1>1, <3>1
    <2> HIDE DEF g
    <2> QED BY <2>1, <2>2 DEF Matched
  <1>3. ASSUME 1 \in V
        PROVE  n # 0 /\ Matched(W, n - 1)
    <2>1. f[1] \in 1..n
      BY <1>3
    <2>2. \A j \in W : f[j + 1] \in 1..n /\ f[1] < f[j + 1]
      <3> SUFFICES ASSUME NEW j \in W PROVE f[j + 1] \in 1..n /\ f[1] < f[j + 1]
        OBVIOUS
      <3>1. 1 < j + 1
        OBVIOUS
      <3> QED BY <1>1, <1>3, <3>1
    <2> DEFINE g == [j \in W |-> f[j + 1] - 1]
    <2>3. g \in [W -> 1..(n - 1)]
      <3>1. \A j \in W : f[j + 1] - 1 \in 1..(n - 1)
        BY <2>1, <2>2
      <3> QED BY <3>1
    <2>4. \A a, b \in W : a < b => g[a] < g[b]
      <3> SUFFICES ASSUME NEW a \in W, NEW b \in W, a < b PROVE f[a + 1] - 1 < f[b + 1] - 1
        OBVIOUS
      <3>1. a + 1 < b + 1
        OBVIOUS
      <3>2. f[a + 1] < f[b + 1]
        BY <1>1, <3>1
      <3> QED BY <2>2, <3>2
    <2> HIDE DEF g
    <2> QED BY <2>1, <2>3, <2>4 DEF Matched
  <1> QED BY <1>2, <1>3

(* One more letter, behind all others, takes one more parameter.           *)
LEMMA MatchedMore ==
  ASSUME NEW V, NEW n \in Nat, Matched(V, n), NEW e \in Nat,
         \A j \in V : j \in Nat /\ j < e
  PROVE  Matched(V \cup {e}, n + 1)
  <1>1. PICK f \in [V -> 1..n] : \A a, b \in V : a < b => f[a] < f[b]
    BY DEF Matched
  <1> DEFINE W == V \cup {e}
             g == [j \in W |-> IF j = e THEN n + 1 ELSE f[j]]
  <1>2. g \in [W -> 1..(n + 1)]
    OBVIOUS
  <1>3. \A a, b \in W : a < b => g[a] < g[b]
    <2> SUFFICES ASSUME NEW a \in W, NEW b \in W, a < b PROVE g[a] < g[b]
      OBVIOUS
    <2>1. a \in V /\ a # e
      OBVIOUS
    <2>2. CASE b = e
      BY <2>1, <2>2
    <2>3. CASE b # e
      BY <1>1, <2>1, <2>3
    <2> QED BY <2>2, <2>3
  <1> HIDE DEF g
  <1> QED BY <1>2, <1>3 DEF Matched

(* Fewer letters need no more parameters.                                  *)
LEMMA MatchedFewer ==
  ASSUME NEW V, NEW W, W \subseteq V, NEW n, Matched(V, n)
  PROVE  Matched(W, n)
  <1>1. PICK f \in [V -> 1..n] : \A a, b \in V : a < b => f[a] < f[b]
    BY DEF Matched
  <1> DEFINE g == [j \in W |-> f[j]]
  <1>2. g \in [W -> 1..n] /\ \A a, b \in W : a < b => g[a] < g[b]
    BY <1>1
  <1> HIDE DEF g
  <1> QED BY <1>2 DEF Matched

(* The letters that want a parameter, one place further on.                *)
LEMMA WantingOfTail ==
  ASSUME NEW ms \in Seq(ModeChar), ms # <<>>, NEW on \in BOOLEAN
  PROVE  \A j \in Wanting(Tail(ms), after(ms, on)) :
           j \in Nat /\ j # 0 /\ j + 1 \in Wanting(ms, on)
  <1> SUFFICES ASSUME NEW j \in Wanting(Tail(ms), after(ms, on))
               PROVE  j \in Nat /\ j # 0 /\ j + 1 \in Wanting(ms, on)
    OBVIOUS
  <1>1. j \in 1..Len(Tail(ms)) /\ Tail(ms)[j] \in {"k", "l"}
        /\ plus(Tail(ms), after(ms, on), j)
    BY DEF Wanting
  <1>2. j + 1 \in 1..Len(ms) /\ ms[j + 1] = Tail(ms)[j]
    BY <1>1
  <1> QED BY <1>1, <1>2, PlusOfTail DEF Wanting

(* handleMode reads a letter that takes no parameter.                      *)
LEMMA SuppliedSkip ==
  ASSUME NEW ms \in Seq(ModeChar), ms # <<>>, NEW on \in BOOLEAN, NEW ps \in Seq(Param),
         Supplied(ms, on, ps)
  PROVE  Supplied(Tail(ms), after(ms, on), ps)
  BY WantingOfTail, MatchedShift DEF Supplied

(* It reads a k or l under a +: there is a parameter, and those that       *)
(* follow keep theirs.                                                     *)
LEMMA SuppliedTake ==
  ASSUME NEW ms \in Seq(ModeChar), ms # <<>>, NEW ps \in Seq(Param),
         NEW on \in BOOLEAN, on, ms[1] \in {"k", "l"}, Supplied(ms, on, ps)
  PROVE  ps # <<>> /\ Supplied(Tail(ms), on, Tail(ps))
  <1> DEFINE V == Wanting(ms, on)
             W == Wanting(Tail(ms), after(ms, on))
  <1>1. after(ms, on) = on
    BY DEF after
  <1>2. 1 \in V
    <2>1. plus(ms, on, 1)
      BY DEF plus
    <2>2. 1 \in 1..Len(ms)
      OBVIOUS
    <2> QED BY <2>1, <2>2 DEF Wanting
  <1>3. \A j \in W : j \in Nat /\ j # 0 /\ j + 1 \in V
    BY WantingOfTail
  <1>4. Matched(V, Len(ps))
    BY DEF Supplied
  <1> HIDE DEF V, W
  <1>5. Len(ps) \in Nat
    OBVIOUS
  <1>6. Len(ps) # 0 /\ Matched(W, Len(ps) - 1)
    BY <1>2, <1>3, <1>4, <1>5, MatchedShift, Zenon
  <1>7. ps # <<>> /\ Len(Tail(ps)) = Len(ps) - 1
    BY <1>6
  <1> QED BY <1>1, <1>6, <1>7, Zenon DEF Supplied, W

(* appendApplied, place by place.                                          *)
LEMMA AppendedPlaces ==
  ASSUME NEW s \in Seq(ModeChar), NEW l, NEW e \in BOOLEAN, NEW x \in ModeChar
  PROVE  LET r == appendApplied(s, l, e, x)
         IN  /\ r \in Seq(ModeChar)
             /\ \A j \in 1..Len(s) : r[j] = s[j]
             /\ sign(e) = l => Len(r) = Len(s) + 1 /\ r[Len(s) + 1] = x
             /\ sign(e) # l => /\ Len(r) = Len(s) + 2 /\ r[Len(s) + 1] = sign(e)
                               /\ r[Len(s) + 2] = x
  <1> DEFINE r == appendApplied(s, l, e, x)
             mid == IF sign(e) = l THEN <<>> ELSE <<sign(e)>>
  <1>0. r \in Seq(ModeChar) /\ sign(e) \in ModeChar
    BY AppendedType DEF sign, ModeChar, Sign
  <1>1. CASE sign(e) = l
    <2>1. r = (s \o <<>>) \o <<x>>
      BY <1>1 DEF appendApplied
    <2> QED BY <1>0, <1>1, <2>1
  <1>2. CASE sign(e) # l
    <2> DEFINE y == sign(e)
    <2>1. r = (s \o <<y>>) \o <<x>>
      BY <1>2 DEF appendApplied
    <2>2. y \in ModeChar
      BY <1>0
    <2> HIDE DEF y
    <2>3. Len(r) = Len(s) + 2 /\ r[Len(s) + 1] = y /\ r[Len(s) + 2] = x
          /\ \A j \in 1..Len(s) : r[j] = s[j]
      BY <2>1, <2>2
    <2> QED BY <1>0, <1>2, <2>3 DEF y
  <1> QED BY <1>1, <1>2

(* A letter keeps the sign it is read under when others are added.         *)
LEMMA PlusSame ==
  ASSUME NEW s, NEW r, NEW on \in BOOLEAN, NEW j \in Nat,
         \A m \in 1..(j - 1) : r[m] = s[m]
  PROVE  plus(r, on, j) <=> plus(s, on, j)
  BY DEF plus

(* The letter copied by Mode::execute is read again under its sign, and so *)
(* is the next one unless another sign is written first.                   *)
LEMMA AppendedSign ==
  ASSUME NEW s \in Seq(ModeChar), NEW l, LastIs(s, l), NEW e \in BOOLEAN,
         NEW x \in {"i", "t", "k", "l"}
  PROVE  LET r == appendApplied(s, l, e, x)
         IN  /\ plus(r, initially, Len(r)) <=> e
             /\ plus(r, initially, Len(r) + 1) <=> e
  <1> DEFINE r == appendApplied(s, l, e, x)
             n == Len(s)
             on == initially
  <1>b. on \in BOOLEAN
    BY DEF initially
  <1> HIDE DEF on
  <1>0. x \in ModeChar
    BY DEF ModeChar
  <1>1. /\ r \in Seq(ModeChar) /\ n \in Nat
        /\ \A j \in 1..n : r[j] = s[j]
        /\ sign(e) = l => Len(r) = n + 1 /\ r[n + 1] = x
        /\ sign(e) # l => Len(r) = n + 2 /\ r[n + 1] = sign(e) /\ r[n + 2] = x
    BY <1>0, AppendedPlaces
  <1>2. x # "+" /\ x # "-"
    OBVIOUS
  <1>3. sign(e) = (IF e THEN "+" ELSE "-")
    BY DEF sign
  <1> HIDE DEF r
  <1>4. plus(r, on, Len(r)) <=> e
    <2>1. CASE sign(e) = l
      <3>1. Len(r) = n + 1
        BY <1>1, <2>1
      <3>2. plus(r, on, n + 1) <=> plus(s, on, n + 1)
        <4>1. n + 1 \in Nat /\ \A m \in 1..((n + 1) - 1) : r[m] = s[m]
          BY <1>1
        <4> HIDE DEF n
        <4> QED BY <1>b, <4>1, PlusSame, Zenon
      <3>3. plus(s, on, n + 1) <=> e
        <4>1. l = "+" => plus(s, on, n + 1)
          BY DEF LastIs, on
        <4>2. l = "-" => ~plus(s, on, n + 1)
          BY DEF LastIs, on
        <4>3. CASE e = TRUE
          BY <1>3, <2>1, <4>1, <4>3
        <4>4. CASE e = FALSE
          BY <1>3, <2>1, <4>2, <4>4
        <4> QED BY <4>3, <4>4
      <3> QED BY <3>1, <3>2, <3>3
    <2>2. CASE sign(e) # l
      <3>1. Len(r) = n + 2 /\ r[n + 1] = sign(e)
        BY <1>1, <2>2
      <3>2. CASE e = TRUE
        <4>1. r[n + 1] = "+"
          BY <1>3, <3>1, <3>2
        <4>2. n + 1 \in 1..((n + 2) - 1) /\ \A m \in ((n + 1) + 1)..((n + 2) - 1) : r[m] # "-"
          BY <1>1
        <4>3. plus(r, on, n + 2)
          BY <4>1, <4>2 DEF plus
        <4> QED BY <3>1, <3>2, <4>3
      <3>3. CASE e = FALSE
        <4>1. r[n + 1] = "-"
          BY <1>3, <3>1, <3>3
        <4>2. n + 1 \in 1..((n + 2) - 1)
          BY <1>1
        <4>3. \A h \in 1..((n + 2) - 1) : r[h] = "+" => n + 1 \in (h + 1)..((n + 2) - 1)
          <5> SUFFICES ASSUME NEW h \in 1..((n + 2) - 1), r[h] = "+"
                       PROVE  n + 1 \in (h + 1)..((n + 2) - 1)
            OBVIOUS
          <5>1. h # n + 1
            BY <4>1
          <5> QED BY <1>1, <5>1
        <4>4. ~plus(r, on, n + 2)
          BY <4>1, <4>2, <4>3 DEF plus
        <4> QED BY <3>1, <3>3, <4>4
      <3> QED BY <3>2, <3>3
    <2> QED BY <2>1, <2>2
  <1>5. plus(r, on, Len(r) + 1) <=> plus(r, on, Len(r))
    <2> DEFINE q == Len(r)
    <2>1. q \in Nat /\ q >= 1 /\ r[q] = x
      BY <1>1
    <2> HIDE DEF q
    <2>2. ASSUME plus(r, on, q)
          PROVE  plus(r, on, q + 1)
      <3>1. CASE on /\ \A m \in 1..(q - 1) : r[m] # "-"
        <4>1. \A m \in 1..((q + 1) - 1) : r[m] # "-"
          BY <1>2, <2>1, <3>1
        <4> QED BY <3>1, <4>1 DEF plus
      <3>2. ASSUME NEW h \in 1..(q - 1), r[h] = "+", \A m \in (h + 1)..(q - 1) : r[m] # "-"
            PROVE  plus(r, on, q + 1)
        <4>1. h \in 1..((q + 1) - 1) /\ \A m \in (h + 1)..((q + 1) - 1) : r[m] # "-"
          BY <1>2, <2>1, <3>2
        <4> QED BY <3>2, <4>1 DEF plus
      <3> QED BY <2>2, <3>1, <3>2 DEF plus
    <2>3. ASSUME plus(r, on, q + 1)
          PROVE  plus(r, on, q)
      <3>1. CASE on /\ \A m \in 1..((q + 1) - 1) : r[m] # "-"
        <4>1. \A m \in 1..(q - 1) : r[m] # "-"
          BY <2>1, <3>1
        <4> QED BY <3>1, <4>1 DEF plus
      <3>2. ASSUME NEW h \in 1..((q + 1) - 1), r[h] = "+",
                   \A m \in (h + 1)..((q + 1) - 1) : r[m] # "-"
            PROVE  plus(r, on, q)
        <4>1. h # q
          BY <1>2, <2>1, <3>2
        <4>2. h \in 1..(q - 1) /\ \A m \in (h + 1)..(q - 1) : r[m] # "-"
          BY <2>1, <3>2, <4>1
        <4> QED BY <3>2, <4>2 DEF plus
      <3> QED BY <2>3, <3>1, <3>2 DEF plus
    <2> QED BY <2>2, <2>3 DEF q
  <1> QED BY <1>4, <1>5 DEF r, on

(* The letter copied is behind all others, and the parameter copied with   *)
(* it behind all others too.                                               *)
LEMMA SuppliedMore ==
  ASSUME NEW s \in Seq(ModeChar), NEW l, LastIs(s, l), NEW e \in BOOLEAN,
         NEW x \in {"i", "t", "k", "l"}, NEW ps \in Seq(Param),
         Supplied(s, initially, ps), Plain(s)
  PROVE  LET r == appendApplied(s, l, e, x)
         IN  /\ Plain(r) /\ LastIs(r, sign(e))
             /\ x \in {"k", "l"} /\ e =>
                  \A p \in Param : Supplied(r, initially, Append(ps, p))
             /\ ~(x \in {"k", "l"} /\ e) => Supplied(r, initially, ps)
  <1> DEFINE r == appendApplied(s, l, e, x)
             n == Len(s)
             q == Len(r)
             on == initially
             V == Wanting(s, on)
             W == Wanting(r, on)
  <1>0. x \in ModeChar /\ on \in BOOLEAN
    BY DEF ModeChar, initially
  <1>1. /\ r \in Seq(ModeChar) /\ n \in Nat /\ q \in {n + 1, n + 2} /\ r[q] = x
        /\ \A j \in 1..n : r[j] = s[j]
        /\ \A j \in 1..q : j \in 1..n \/ j = q \/ r[j] = sign(e)
    BY <1>0, AppendedPlaces
  <1>2. sign(e) \in {"+", "-"} /\ (sign(e) = "+" <=> e) /\ (sign(e) = "-" <=> ~e)
    BY DEF sign
  <1>3. (plus(r, on, q) <=> e) /\ (plus(r, on, q + 1) <=> e)
    BY AppendedSign
  <1> HIDE DEF r, on
  <1>4. Plain(r)
    BY <1>1, <1>2 DEF Plain
  <1>5. LastIs(r, sign(e))
    BY <1>2, <1>3 DEF LastIs, on
  <1>6. V \subseteq 1..n
    BY DEF Wanting
  <1>7. \A j \in W : j \in V \/ (j = q /\ x \in {"k", "l"} /\ e)
    <2> SUFFICES ASSUME NEW j \in W, j # q PROVE j \in V
      BY <1>1, <1>3 DEF Wanting
    <2>1. j \in 1..q /\ r[j] \in {"k", "l"} /\ plus(r, on, j)
      BY DEF Wanting
    <2>2. j \in 1..n /\ r[j] = s[j]
      BY <1>1, <1>2, <2>1
    <2>3. j \in Nat /\ \A m \in 1..(j - 1) : r[m] = s[m]
      BY <1>1, <2>2
    <2>4. plus(s, on, j)
      BY <1>0, <2>1, <2>3, PlusSame, Zenon
    <2> QED BY <2>1, <2>2, <2>4 DEF Wanting
  <1>8. Matched(V, Len(ps)) /\ Len(ps) \in Nat
    BY DEF Supplied, on
  <1>9. q \in Nat /\ \A j \in V : j \in Nat /\ j < q
    BY <1>1, <1>6
  <1> HIDE DEF V, W, q
  <1>10. Matched(V \cup {q}, Len(ps) + 1)
    BY <1>8, <1>9, MatchedMore
  <1>11. ASSUME x \in {"k", "l"} /\ e, NEW p \in Param
         PROVE  Supplied(r, initially, Append(ps, p))
    <2>1. W \subseteq V \cup {q}
      BY <1>7
    <2>2. Len(Append(ps, p)) = Len(ps) + 1
      OBVIOUS
    <2>3. Matched(W, Len(ps) + 1)
      BY <1>8, <1>10, <2>1, MatchedFewer
    <2> QED BY <2>2, <2>3, Zenon DEF Supplied, W, on
  <1>12. ASSUME ~(x \in {"k", "l"} /\ e)
         PROVE  Supplied(r, initially, ps)
    <2>1. W \subseteq V
      BY <1>7, <1>12
    <2>2. Matched(W, Len(ps))
      BY <1>8, <2>1, MatchedFewer
    <2> QED BY <2>2, Zenon DEF Supplied, W, on
  <1> QED BY <1>4, <1>5, <1>11, <1>12 DEF r

(* A step outside of MODE leaves no MODE loop behind it.                   *)
LEMMA LettersElsewhere ==
  ASSUME frame.op \notin {"scan", "apply"}, UNCHANGED frame \/ frame'.op \notin {"scan", "apply"}
  PROVE  LettersInv'
  BY DEF LettersInv

(* A MODE that starts has copied nothing yet.                              *)
LEMMA LettersStart ==
  ASSUME NEW c, NEW k, NEW ms, NEW ps, frame' = ModeFrame(c, k, "scan", ms, ps)
  PROVE  LettersInv'
  <1>1. /\ frame'.op = "scan" /\ frame'.out = <<>> /\ frame'.outParams = <<>>
        /\ frame'.lastSign = "none"
    BY DEF ModeFrame, IdleFrame
  <1>2. Plain(<<>>)
    BY DEF Plain
  <1>3. Supplied(<<>>, initially, <<>>)
    <2>1. Wanting(<<>>, initially) = {}
      BY DEF Wanting
    <2> DEFINE f == [j \in {} |-> 1]
    <2>2. f \in [{} -> 1..0]
      OBVIOUS
    <2>3. Matched({}, 0)
      BY <2>2 DEF Matched
    <2>4. Len(<<>>) = 0
      OBVIOUS
    <2> QED BY <2>1, <2>3, <2>4, Zenon DEF Supplied
  <1>4. LastIs(<<>>, "none")
    BY DEF LastIs
  <1> QED BY <1>1, <1>2, <1>3, <1>4 DEF LettersInv

(* The commands: all but MODE leave the frame alone or start JOIN 0.       *)
LEMMA CommandFrames ==
  ASSUME NEW c \in Client, Connect(c) \/ Register(c) \/ Disconnect(c) \/ Command(c)
  PROVE  \/ UNCHANGED frame
         \/ JoinZero(c)
         \/ \E n \in ChannelArg, m \in ModeLine, p \in ParamLine : Mode(c, n, m, p)
  <1>1. CASE Connect(c) \/ Register(c) \/ Disconnect(c)
    BY <1>1 DEF Connect, Register, Disconnect
  <1>2. ASSUME NEW n \in ChannelArg, NEW p \in Param \cup {Empty}, Join(c, n, p)
        PROVE  UNCHANGED frame
    BY <1>2 DEF Join, Answer, Ignore
  <1>3. ASSUME NEW n \in ChannelArg, Part(c, n)
        PROVE  UNCHANGED frame
    BY <1>3 DEF Part, Answer, Ignore
  <1>4. ASSUME NEW n \in ChannelArg, NEW p \in Param, Kick(c, n, p)
        PROVE  UNCHANGED frame
    BY <1>4 DEF Kick, kickUnknown, handleKick, Answer
  <1>5. ASSUME NEW n \in ChannelArg, NEW t, TopicCmd(c, n, t)
        PROVE  UNCHANGED frame
    BY <1>5 DEF TopicCmd, handleTopic, Answer, Ignore
  <1>6. ASSUME NEW n \in ChannelArg, NEW p \in Param, Invite(c, p, n)
        PROVE  UNCHANGED frame
    BY <1>6 DEF Invite, handleInvite, Answer, Ignore
  <1>7. ASSUME NEW x, NEW h, NickChange(c) \/ Privmsg(c, x, h)
        PROVE  UNCHANGED frame
    BY <1>7 DEF NickChange, Privmsg, handleChannelPrivmsg, handlePersonalPrivmsg, Answer
  <1> QED BY <1>1, <1>2, <1>3, <1>4, <1>5, <1>6, <1>7 DEF Command

(* A command that starts finds nothing copied and copies nothing.          *)
LEMMA LettersCommand ==
  ASSUME Idle, NEW c \in Client, Connect(c) \/ Register(c) \/ Disconnect(c) \/ Command(c)
  PROVE  LettersInv'
  <1>0. frame.op \notin {"scan", "apply"}
    BY DEF Idle, IdleFrame
  <1>1. CASE UNCHANGED frame
    BY <1>0, <1>1, LettersElsewhere
  <1>2. CASE JoinZero(c)
    BY <1>0, <1>2, LettersElsewhere DEF JoinZero, IdleFrame
  <1>3. ASSUME NEW n, NEW m, NEW p, Mode(c, n, m, p)
        PROVE  LettersInv'
    <2>1. UNCHANGED frame \/ \E k : frame' = ModeFrame(c, k, "scan", m, p)
      BY <1>3 DEF Mode, Answer, Ignore
    <2> QED BY <1>1, <2>1, LettersStart
  <1> QED BY <1>1, <1>2, <1>3, CommandFrames

(* The loop of Mode::execute.                                              *)
LEMMA LettersScan ==
  ASSUME TypeOK, LettersInv,
         ScanSign \/ ScanUnknown \/ ScanMissing \/ ScanOverLimit \/ ScanFilter
           \/ ScanOperator \/ ScanEnd
  PROVE  LettersInv'
  <1>0. /\ frame \in Frame /\ frame.op = "scan"
        /\ frame.out \in Seq(ModeChar) /\ frame.outParams \in Seq(Param)
        /\ frame.params \in Seq(Param) /\ frame.enable \in BOOLEAN
    BY DEF TypeOK, Frame, ScanSign, ScanUnknown, ScanMissing, ScanOverLimit, ScanFilter,
           ScanOperator, ScanEnd, Scanning
  <1>1. /\ Plain(frame.out) /\ Supplied(frame.out, initially, frame.outParams)
        /\ LastIs(frame.out, frame.lastSign)
    BY <1>0 DEF LettersInv
  <1>2. CASE /\ frame'.op = frame.op /\ frame'.out = frame.out
             /\ frame'.outParams = frame.outParams /\ frame'.lastSign = frame.lastSign
    BY <1>0, <1>1, <1>2 DEF LettersInv
  <1>3. CASE ScanSign \/ ScanUnknown \/ ScanMissing \/ ScanOverLimit \/ ScanOperator
    <2>1. \E ms, ps, e, m : frame' = [frame EXCEPT !.modes = ms, !.params = ps,
                                        !.enable = e, !.paramModeCount = m]
      <3>1. CASE ScanSign
        <4>1. frame' = [frame EXCEPT !.modes = Tail(frame.modes), !.params = frame.params,
                          !.enable = (letter = "+"), !.paramModeCount = frame.paramModeCount]
          BY <1>0, <3>1 DEF ScanSign, Frame
        <4> QED BY <4>1
      <3>2. CASE ScanUnknown \/ ScanMissing
        <4>1. frame' = [frame EXCEPT !.modes = Tail(frame.modes), !.params = frame.params,
                          !.enable = frame.enable, !.paramModeCount = frame.paramModeCount]
          BY <1>0, <3>2 DEF ScanUnknown, ScanMissing, Frame
        <4> QED BY <4>1
      <3>3. CASE ScanOverLimit
        <4>1. frame' = [frame EXCEPT !.modes = Tail(frame.modes), !.params = rest,
                          !.enable = frame.enable, !.paramModeCount = frame.paramModeCount]
          BY <1>0, <3>3 DEF ScanOverLimit, Frame
        <4> QED BY <4>1
      <3>4. CASE ScanOperator
        <4>1. frame' = [frame EXCEPT !.modes = Tail(frame.modes), !.params = rest,
                          !.enable = frame.enable,
                          !.paramModeCount = frame.paramModeCount + 1]
          BY <1>0, <3>4 DEF ScanOperator, Frame
        <4> QED BY <4>1
      <3> QED BY <1>3, <3>1, <3>2, <3>3, <3>4
    <2>2. /\ frame'.op = frame.op /\ frame'.out = frame.out
          /\ frame'.outParams = frame.outParams /\ frame'.lastSign = frame.lastSign
      BY <1>0, <2>1 DEF Frame
    <2> QED BY <1>2, <2>2
  <1>4. CASE ScanFilter
    <2> DEFINE r == appendApplied(frame.out, frame.lastSign, frame.enable, letter)
               kl == letter \in {"k", "l"} /\ frame.enable
               p == Head(frame.params)
    <2>1. letter \in {"i", "t", "k", "l"}
      BY <1>4 DEF ScanFilter, Scanning, letter
    <2>2. keepsParam <=> kl
      BY <1>4 DEF ScanFilter, keepsParam, requiresParam, hasParam
    <2>3. /\ frame'.op = "scan" /\ frame'.out = r
          /\ frame'.lastSign = sign(frame.enable)
          /\ frame'.outParams = IF keepsParam THEN Append(frame.outParams, p)
                                              ELSE frame.outParams
      BY <1>0, <1>4 DEF ScanFilter, Frame
    <2>4. CASE kl
      <3>1. p \in Param
        BY <1>0, <2>2, <2>4 DEF keepsParam, hasParam
      <3>2. /\ Plain(r) /\ LastIs(r, sign(frame.enable))
            /\ Supplied(r, initially, Append(frame.outParams, p))
        BY <1>0, <1>1, <2>1, <2>4, <3>1, SuppliedMore
      <3> QED BY <2>2, <2>3, <2>4, <3>2 DEF LettersInv
    <2>5. CASE ~kl
      <3>1. /\ Plain(r) /\ LastIs(r, sign(frame.enable))
            /\ Supplied(r, initially, frame.outParams)
        BY <1>0, <1>1, <2>1, <2>5, SuppliedMore
      <3> QED BY <2>2, <2>3, <2>5, <3>1 DEF LettersInv
    <2> QED BY <2>4, <2>5
  <1>5. CASE ScanEnd
    <2>1. CASE frame' = IdleFrame
      BY <2>1 DEF LettersInv, IdleFrame
    <2>2. CASE frame' = ModeFrame(frame.client, frame.chan, "apply",
                                  frame.out, frame.outParams)
      <3>1. /\ frame'.op = "apply" /\ frame'.modes = frame.out
            /\ frame'.params = frame.outParams /\ frame'.enable = initially
        BY <2>2 DEF ModeFrame, IdleFrame, initially
      <3> QED BY <1>1, <3>1 DEF LettersInv
    <2> QED BY <1>5, <2>1, <2>2 DEF ScanEnd
  <1> QED BY <1>3, <1>4, <1>5

(* The loop of Channel::handleMode.                                        *)
LEMMA LettersApply ==
  ASSUME TypeOK, LettersInv,
         ApplySign \/ ApplyInviteOnly \/ ApplyTopic \/ ApplyKey \/ ApplyLimit \/ ApplyEnd
  PROVE  LettersInv'
  <1> DEFINE ms == frame.modes
             ps == frame.params
             on == frame.enable
  <1>0. /\ frame \in Frame /\ frame.op = "apply"
        /\ ms \in Seq(ModeChar) /\ ps \in Seq(Param) /\ on \in BOOLEAN
    BY DEF TypeOK, Frame, ApplySign, ApplyInviteOnly, ApplyTopic, ApplyKey, ApplyLimit,
           ApplyEnd, Applying
  <1>1. Plain(ms) /\ Supplied(ms, on, ps)
    BY <1>0 DEF LettersInv
  <1>2. CASE ApplyEnd
    BY <1>2 DEF ApplyEnd, LettersInv, IdleFrame
  <1>3. CASE ~ApplyEnd
    <2>1. ms # <<>> /\ letter = ms[1]
      BY <1>0, <1>3 DEF ApplySign, ApplyInviteOnly, ApplyTopic, ApplyKey, ApplyLimit,
                        Applying, letter
    <2>2. Plain(Tail(ms))
      BY <1>0, <1>1, <2>1 DEF Plain
    <2>3. Supplied(Tail(ms), after(ms, on), ps)
      BY <1>0, <1>1, <2>1, SuppliedSkip
    <2>4. CASE ApplySign
      <3>1. /\ frame'.op = "apply" /\ frame'.modes = Tail(ms) /\ frame'.params = ps
            /\ frame'.enable = (letter = "+")
        BY <1>0, <2>4 DEF ApplySign, Frame
      <3>2. letter \in {"+", "-"}
        BY <2>4 DEF ApplySign, Applying, letter, Sign
      <3>3. after(ms, on) = (letter = "+")
        BY <2>1, <3>2 DEF after
      <3> QED BY <2>2, <2>3, <3>1, <3>3, Zenon DEF LettersInv
    <2>5. ASSUME NEW qs, Skip(qs) \/ \E args : Apply(qs, args), letter \notin Sign,
                 Supplied(Tail(ms), on, qs)
          PROVE  LettersInv'
      <3>1. /\ frame'.op = "apply" /\ frame'.modes = Tail(ms) /\ frame'.params = qs
            /\ frame'.enable = on
        BY <1>0, <2>5 DEF Skip, Apply, Frame
      <3> QED BY <2>2, <2>5, <3>1 DEF LettersInv
    <2>6. ASSUME letter \notin Sign
          PROVE  Supplied(Tail(ms), on, ps)
      <3>1. after(ms, on) = on
        BY <2>1, <2>6 DEF after, Sign
      <3> QED BY <2>3, <3>1
    <2>7. CASE ApplyInviteOnly \/ ApplyTopic
      <3>1. letter \notin Sign
        BY <2>7 DEF ApplyInviteOnly, ApplyTopic, Applying, letter, Sign
      <3>2. Skip(ps) \/ \E args : Apply(ps, args)
        BY <2>7 DEF ApplyInviteOnly, ApplyTopic
      <3> QED BY <2>5, <2>6, <3>1, <3>2
    <2>8. CASE ApplyKey \/ ApplyLimit
      <3>1. letter \in {"k", "l"} /\ letter \notin Sign
        BY <2>8 DEF ApplyKey, ApplyLimit, Applying, letter, Sign
      <3>2. CASE on
        <4>1. Skip(Tail(ps)) \/ \E args : Apply(Tail(ps), args)
          BY <2>8, <3>2 DEF ApplyKey, ApplyLimit
        <4>2. Supplied(Tail(ms), on, Tail(ps))
          BY <1>0, <1>1, <2>1, <3>1, <3>2, SuppliedTake
        <4> QED BY <2>5, <3>1, <4>1, <4>2
      <3>3. CASE ~on
        <4>1. Skip(ps) \/ \E args : Apply(ps, args)
          BY <2>8, <3>3 DEF ApplyKey, ApplyLimit
        <4> QED BY <2>5, <2>6, <3>1, <4>1
      <3> QED BY <3>2, <3>3
    <2> QED BY <1>3, <2>4, <2>7, <2>8
  <1> QED BY <1>2, <1>3

(* No letter but i, t, k and l reaches handleMode, and every +k and +l     *)
(* comes with its parameter, whatever mode string and parameters MODE was  *)
(* given: handleMode's three other branches are dead (NoBranchLeft).       *)
THEOREM NothingLeftOver == Spec => []NoBranchLeft
  <1>1. Init => LettersInv
    BY DEF Init, LettersInv, IdleFrame
  <1>2. ASSUME TypeOK, LettersInv, [Next]_vars
        PROVE  LettersInv'
    <2>1. CASE UNCHANGED vars
      BY <1>2, <2>1 DEF vars, LettersInv
    <2>2. ASSUME NEW c \in Client, Connect(c) \/ Register(c) \/ Disconnect(c) \/ Command(c)
          PROVE  LettersInv'
      <3>1. Idle
        BY <2>2 DEF Connect, Register, Disconnect, Command, Ready, Join, JoinZero, Part,
                    Kick, TopicCmd, Invite, Privmsg, Mode, NickChange
      <3> QED BY <2>2, <3>1, LettersCommand
    <2>3. CASE (\E n \in ChannelName : JoinZeroStep(n)) \/ JoinZeroEnd
      <3>1. frame \in Frame
        BY <1>2 DEF TypeOK
      <3>2. frame.op = "join0" /\ frame'.op \in {"join0", "idle"}
        BY <2>3, <3>1 DEF JoinZeroStep, JoinZeroEnd, IdleFrame, Frame
      <3> QED BY <3>2, LettersElsewhere
    <2>4. CASE ModeStep
      BY <1>2, <2>4, LettersScan, LettersApply DEF ModeStep
    <2> QED BY <1>2, <2>1, <2>2, <2>3, <2>4 DEF Next
  <1>3. TypeOK /\ LettersInv => NoBranchLeft
    <2> SUFFICES ASSUME TypeOK, LettersInv, frame.op = "apply", frame.modes # <<>>
                 PROVE  /\ Head(frame.modes) \notin {"o", "x"}
                        /\ Head(frame.modes) \in {"k", "l"} /\ frame.enable
                             => frame.params # <<>>
      BY DEF NoBranchLeft
    <2> DEFINE ms == frame.modes
    <2>1. /\ ms \in Seq(ModeChar) /\ frame.params \in Seq(Param)
          /\ frame.enable \in BOOLEAN
      BY DEF TypeOK, Frame
    <2>2. Head(ms) = ms[1] /\ 1 \in 1..Len(ms)
      BY <2>1
    <2>3. Plain(ms) /\ Supplied(ms, frame.enable, frame.params)
      BY DEF LettersInv
    <2>4. Head(ms) \notin {"o", "x"}
      BY <2>2, <2>3 DEF Plain
    <2>5. Head(ms) \in {"k", "l"} /\ frame.enable => frame.params # <<>>
      BY <2>1, <2>2, <2>3, SuppliedTake
    <2> QED BY <2>4, <2>5
  <1> QED BY <1>1, <1>2, <1>3, TypeCorrect, PTL DEF Spec

-----------------------------------------------------------------------------
(* Clients and channels agree.                                             *)

(* The server starts with empty lists and no command in progress.          *)
LEMMA CoreInit == Init => Core /\ FramePointers
  <1> SUFFICES ASSUME Init PROVE Core /\ FramePointers
    OBVIOUS
  <1>1. LiveClients /\ OperatorsAreMembers /\ InvitesAgree /\ ChannelsInUse
    BY DEF Init, LiveClients, OperatorsAreMembers, InvitesAgree, ChannelsInUse
  <1>2. \A k \in ChannelKey : toLower(k) = k
    BY NameAssumption DEF ChannelKey
  <1>3. NamesFold
    BY <1>2 DEF Init, NamesFold
  <1>4. JoinedIsMember
    BY LowerIsKey DEF Init, JoinedIsMember
  <1>5. FramePointers
    BY DEF Init, FramePointers, IdleFrame
  <1> QED BY <1>1, <1>3, <1>4, <1>5 DEF Core

(* A step that changes no list and no registry, and may change the modes   *)
(* of a channel that exists.                                               *)
LEMMA CoreModes ==
  ASSUME TypeOK, Core,
         UNCHANGED <<clientVars, channels, name, members, operators, invitedUsers>>,
         \A k \in ChannelKey \ channels :
           key'[k] = key[k] /\ userLimit'[k] = userLimit[k] /\ inviteOnly'[k] = inviteOnly[k]
  PROVE  Core'
  BY DEF Core, LiveClients, OperatorsAreMembers, InvitesAgree, ChannelsInUse,
         NamesFold, JoinedIsMember, clientVars

(* A step that changes no client and no channel keeps Core.                *)
LEMMA CoreAnswer ==
  ASSUME TypeOK, Core, UNCHANGED <<clientVars, chanVars>>
  PROVE  Core'
  BY CoreModes DEF chanVars, settings

(* A command that only answers its sender keeps Core.                      *)
LEMMA CoreReply ==
  ASSUME TypeOK, Core,
         \/ \E c, code, k, arg : Answer(c, code, k, arg)
         \/ Ignore
  PROVE  Core'
  BY CoreAnswer DEF Answer, Ignore

(* Leaving: the members, the member's own list and the invitations of a    *)
(* channel that is deleted change together.                                *)
LEMMA CoreLeave ==
  ASSUME TypeOK, Core, NEW c \in Client, NEW k \in ChannelKey,
         c \in members[k], Leave(c, k)
  PROVE  Core'
  <1> DEFINE D == Emptied(c, {k})
  <1>1. D = IF members[k] = {c} THEN {k} ELSE {}
    BY DEF Emptied
  <1>2. \A x \in ChannelKey :
          /\ members'[x] = IF x = k THEN members[k] \ {c} ELSE members[x]
          /\ operators'[x] = IF x = k THEN operators[k] \ {c} ELSE operators[x]
    BY DEF Leave, removeMember, Without
  <1>3. \A d \in Client :
          joinedChannels'[d] = IF d = c THEN joinedChannels[c] \ {name[k]}
                                        ELSE joinedChannels[d]
    BY DEF Leave, removeMember, removeJoinedChannels, TypeOK
  <1>4. /\ channels' = channels \ D
        /\ \A x \in ChannelKey :
             /\ name'[x] = IF x \in D THEN x ELSE name[x]
             /\ key'[x] = IF x \in D THEN Empty ELSE key[x]
             /\ userLimit'[x] = IF x \in D THEN 0 ELSE userLimit[x]
             /\ inviteOnly'[x] = IF x \in D THEN FALSE ELSE inviteOnly[x]
    BY DEF Leave, deleteChannels, deleteChannel, Reset
  <1>5. \A x \in ChannelKey : invitedUsers'[x] = IF x \in D THEN {} ELSE invitedUsers[x]
    BY DEF Leave, deleteChannels, Reset
  <1>6. \A d \in Client :
          invitedChannels'[d] = IF d \in clients THEN invitedChannels[d] \ D
                                                 ELSE invitedChannels[d]
    BY DEF Leave, deleteChannels, clearInvitedUsers
  <1>7. clients' = clients /\ registered' = registered
    BY DEF Leave
  <1>8. LiveClients'
    BY <1>2, <1>5, <1>7 DEF Core, LiveClients
  <1>9. OperatorsAreMembers'
    BY <1>2 DEF Core, OperatorsAreMembers
  <1>10. InvitesAgree'
    <2> SUFFICES ASSUME NEW d \in Client, NEW x \in ChannelKey
                 PROVE  /\ d \in invitedUsers'[x] <=> x \in invitedChannels'[d]
                        /\ d \in invitedUsers'[x] => d \notin members'[x]
      BY DEF InvitesAgree
    <2>1. /\ d \in invitedUsers[x] <=> x \in invitedChannels[d]
          /\ d \in invitedUsers[x] => d \notin members[x]
          /\ d \in invitedUsers[x] => d \in clients
      BY DEF Core, InvitesAgree, LiveClients
    <2> QED BY <1>2, <1>5, <1>6, <2>1
  <1>11. ChannelsInUse'
    <2> SUFFICES ASSUME NEW x \in ChannelKey
                 PROVE  /\ x \in channels' <=> members'[x] # {}
                        /\ x \notin channels' =>
                             /\ invitedUsers'[x] = {}
                             /\ key'[x] = Empty /\ userLimit'[x] = 0 /\ ~inviteOnly'[x]
      BY DEF ChannelsInUse
    <2>1. CASE x # k
      BY <1>1, <1>2, <1>4, <1>5, <2>1 DEF Core, ChannelsInUse
    <2>2. CASE x = k /\ members[k] = {c}
      BY <1>1, <1>2, <1>4, <1>5, <2>2
    <2>3. CASE x = k /\ members[k] # {c}
      BY <1>1, <1>2, <1>4, <1>5, <2>3 DEF Core, ChannelsInUse
    <2> QED BY <2>1, <2>2, <2>3
  <1>12. NamesFold'
    <2>1. \A x \in ChannelKey : toLower(x) = x
      BY NameAssumption DEF ChannelKey
    <2> QED BY <1>4, <2>1 DEF Core, NamesFold
  <1>13. JoinedIsMember'
    <2> SUFFICES ASSUME NEW d \in Client, NEW n \in ChannelName
                 PROVE  n \in joinedChannels'[d]
                          <=> d \in members'[toLower(n)] /\ name'[toLower(n)] = n
      BY DEF JoinedIsMember
    <2>1. toLower(n) \in ChannelKey
      BY LowerIsKey
    <2>2. n \in joinedChannels[d] <=> d \in members[toLower(n)] /\ name[toLower(n)] = n
      BY DEF Core, JoinedIsMember
    <2>3. toLower(name[k]) = k
      BY DEF Core, NamesFold
    <2>4. CASE toLower(n) # k
      BY <1>1, <1>2, <1>3, <1>4, <2>1, <2>2, <2>3, <2>4
    <2>5. CASE toLower(n) = k /\ d = c
      <3>1. c \notin members'[k]
        BY <1>2
      <3>2. n \notin joinedChannels'[c]
        BY <1>3, <2>2, <2>5
      <3> QED BY <2>5, <3>1, <3>2
    <2>6. CASE toLower(n) = k /\ d # c
      <3>1. joinedChannels'[d] = joinedChannels[d]
        BY <1>3, <2>6
      <3>2. d \in members'[k] <=> d \in members[k]
        BY <1>2, <2>6
      <3>3. d \in members[k] => name'[k] = name[k]
        BY <1>1, <1>4, <2>6
      <3> QED BY <2>2, <2>6, <3>1, <3>2, <3>3
    <2> QED BY <2>4, <2>5, <2>6
  <1> QED BY <1>8, <1>9, <1>10, <1>11, <1>12, <1>13 DEF Core

(* A lost connection: the same for every channel of the client at once,    *)
(* and for the invitations it holds.                                       *)
LEMMA CoreDisconnect ==
  ASSUME TypeOK, Core, NEW c \in Client, Disconnect(c)
  PROVE  Core'
  <1> DEFINE K == {k \in channels : isMember(c, k)}
             D == Emptied(c, K)
  <1>1. \A x \in ChannelKey : /\ x \in K <=> c \in members[x]
                              /\ x \in D <=> members[x] = {c}
    BY DEF Emptied, isMember, Core, ChannelsInUse
  <1>2. \A x \in ChannelKey : /\ members'[x] = members[x] \ {c}
                              /\ operators'[x] = operators[x] \ {c}
    <2>1. \A x \in ChannelKey :
            /\ members'[x] = IF x \in K THEN members[x] \ {c} ELSE members[x]
            /\ operators'[x] = IF x \in K THEN operators[x] \ {c} ELSE operators[x]
      BY DEF Disconnect, Without
    <2>2. \A x \in ChannelKey : operators[x] \subseteq members[x]
      BY DEF Core, OperatorsAreMembers
    <2> QED BY <1>1, <2>1, <2>2
  <1>3. \A d \in Client : joinedChannels'[d] = IF d = c THEN {} ELSE joinedChannels[d]
    BY DEF Disconnect, TypeOK
  <1>4. /\ channels' = channels \ D
        /\ \A x \in ChannelKey :
             /\ name'[x] = IF x \in D THEN x ELSE name[x]
             /\ key'[x] = IF x \in D THEN Empty ELSE key[x]
             /\ userLimit'[x] = IF x \in D THEN 0 ELSE userLimit[x]
             /\ inviteOnly'[x] = IF x \in D THEN FALSE ELSE inviteOnly[x]
    BY DEF Disconnect, deleteChannel, Reset
  <1>5. \A x \in ChannelKey :
          invitedUsers'[x] = IF x \in D THEN {} ELSE invitedUsers[x] \ {c}
    <2>1. \A x \in ChannelKey :
            invitedUsers'[x] = IF x \in D THEN {}
                               ELSE IF x \in invitedChannels[c] THEN invitedUsers[x] \ {c}
                               ELSE invitedUsers[x]
      BY DEF Disconnect, removeMemberfromInvitedUsers, Reset, Without
    <2>2. \A x \in ChannelKey : c \in invitedUsers[x] => x \in invitedChannels[c]
      BY DEF Core, InvitesAgree
    <2> QED BY <2>1, <2>2
  <1>6. \A d \in Client :
          invitedChannels'[d] = IF d = c THEN {}
                                ELSE IF d \in clients THEN invitedChannels[d] \ D
                                ELSE invitedChannels[d]
    BY DEF Disconnect, clearInvitedUsers
  <1>7. clients' = clients \ {c} /\ registered' = registered \ {c}
    BY DEF Disconnect
  <1>8. LiveClients'
    BY <1>2, <1>5, <1>7 DEF Core, LiveClients
  <1>9. OperatorsAreMembers'
    BY <1>2 DEF Core, OperatorsAreMembers
  <1>10. InvitesAgree'
    <2> SUFFICES ASSUME NEW d \in Client, NEW x \in ChannelKey
                 PROVE  /\ d \in invitedUsers'[x] <=> x \in invitedChannels'[d]
                        /\ d \in invitedUsers'[x] => d \notin members'[x]
      BY DEF InvitesAgree
    <2>1. /\ d \in invitedUsers[x] <=> x \in invitedChannels[d]
          /\ d \in invitedUsers[x] => d \notin members[x]
          /\ d \in invitedUsers[x] => d \in clients
      BY DEF Core, InvitesAgree, LiveClients
    <2> QED BY <1>2, <1>5, <1>6, <2>1
  <1>11. ChannelsInUse'
    <2> SUFFICES ASSUME NEW x \in ChannelKey
                 PROVE  /\ x \in channels' <=> members'[x] # {}
                        /\ x \notin channels' =>
                             /\ invitedUsers'[x] = {}
                             /\ key'[x] = Empty /\ userLimit'[x] = 0 /\ ~inviteOnly'[x]
      BY DEF ChannelsInUse
    <2>1. CASE x \in D
      BY <1>1, <1>2, <1>4, <1>5, <2>1
    <2>2. CASE x \notin D
      <3>1. members'[x] # {} <=> members[x] # {}
        BY <1>1, <1>2, <2>2
      <3> QED BY <1>4, <1>5, <2>2, <3>1 DEF Core, ChannelsInUse
    <2> QED BY <2>1, <2>2
  <1>12. NamesFold'
    <2>1. \A x \in ChannelKey : toLower(x) = x
      BY NameAssumption DEF ChannelKey
    <2> QED BY <1>4, <2>1 DEF Core, NamesFold
  <1>13. JoinedIsMember'
    <2> SUFFICES ASSUME NEW d \in Client, NEW n \in ChannelName
                 PROVE  n \in joinedChannels'[d]
                          <=> d \in members'[toLower(n)] /\ name'[toLower(n)] = n
      BY DEF JoinedIsMember
    <2>1. toLower(n) \in ChannelKey
      BY LowerIsKey
    <2>2. n \in joinedChannels[d] <=> d \in members[toLower(n)] /\ name[toLower(n)] = n
      BY DEF Core, JoinedIsMember
    <2>3. CASE d = c
      BY <1>2, <1>3, <2>1, <2>3
    <2>4. CASE d # c
      <3>1. d \in members'[toLower(n)] <=> d \in members[toLower(n)]
        BY <1>2, <2>1, <2>4
      <3>2. d \in members[toLower(n)] => name'[toLower(n)] = name[toLower(n)]
        BY <1>1, <1>4, <2>1, <2>4
      <3> QED BY <1>3, <2>2, <2>4, <3>1, <3>2
    <2> QED BY <2>3, <2>4
  <1> QED BY <1>8, <1>9, <1>10, <1>11, <1>12, <1>13 DEF Core

(* A new connection or registration keeps Core.                            *)
LEMMA CoreConnect ==
  ASSUME TypeOK, Core, NEW c \in Client, Connect(c) \/ Register(c)
  PROVE  Core'
  BY DEF Connect, Register, chanVars, settings, Core, LiveClients, InvitesAgree,
         OperatorsAreMembers, ChannelsInUse, NamesFold, JoinedIsMember

(* JOIN.  Only a channel that exists can refuse, so a refusal leaves no    *)
(* empty channel behind.                                                   *)
LEMMA CoreJoin ==
  ASSUME TypeOK, Core, NEW c \in Client, NEW n, NEW p, Join(c, n, p)
  PROVE  Core'
  <1>1. CASE \E code : Answer(c, code, NULL, Empty)
    BY <1>1, CoreReply
  <1>2. CASE /\ n \in ChannelName
             /\ findOrCreateChannel(n, toLower(n))
             /\ handleJoin(c, toLower(n), p)
             /\ UNCHANGED <<clients, registered, settings, frame>>
    <2> DEFINE k == toLower(n)
    <2>1. k \in ChannelKey
      BY <1>2, LowerIsKey
    <2>2. c \in registered
      BY DEF Join, Ready
    <2>3. CASE /\ k \in channels
               /\ UNCHANGED <<invitedUsers, invitedChannels, members, joinedChannels,
                              operators>>
      <3>1. channels' = channels /\ name' = name
        BY <1>2, <2>3 DEF findOrCreateChannel
      <3> QED BY <1>2, <2>3, <3>1, CoreModes DEF settings, clientVars
    <2>4. CASE ~isMember(c, k) /\ admit(c, k)
      <3>1. \A x \in ChannelKey :
              /\ members'[x] = IF x = k THEN members[x] \cup {c} ELSE members[x]
              /\ operators'[x] = IF x = k /\ members[x] = {} THEN operators[x] \cup {c}
                                                           ELSE operators[x]
              /\ invitedUsers'[x] = IF x = k THEN invitedUsers[x] \ {c} ELSE invitedUsers[x]
        <4>1. \/ members[k] = {} /\ operators' = [operators EXCEPT ![k] = @ \cup {c}]
              \/ members[k] # {} /\ operators' = operators
          BY <2>4 DEF admit
        <4>2. members' = [members EXCEPT ![k] = @ \cup {c}]
          BY <2>4 DEF admit
        <4>3. invitedUsers' = [invitedUsers EXCEPT ![k] = @ \ {c}]
          BY <2>4 DEF admit, consumeInvite
        <4> QED BY <4>1, <4>2, <4>3 DEF TypeOK
      <3>2. \A d \in Client :
              /\ invitedChannels'[d] = IF d = c THEN invitedChannels[d] \ {k}
                                                ELSE invitedChannels[d]
              /\ joinedChannels'[d] = IF d = c THEN joinedChannels[d] \cup {name'[k]}
                                               ELSE joinedChannels[d]
        <4>1. invitedChannels' = [invitedChannels EXCEPT ![c] = @ \ {k}]
          BY <2>4 DEF admit, consumeInvite
        <4>2. joinedChannels' = [joinedChannels EXCEPT ![c] = @ \cup {name'[k]}]
          BY <2>4 DEF admit
        <4> QED BY <4>1, <4>2 DEF TypeOK
      <3>3. /\ channels' = channels \cup {k}
            /\ \A x \in ChannelKey : name'[x] = IF x = k /\ x \notin channels THEN n
                                                                        ELSE name[x]
        <4>1. \/ k \in channels /\ name' = name
              \/ k \notin channels /\ name' = [name EXCEPT ![k] = n]
          BY <1>2 DEF findOrCreateChannel
        <4>2. channels' = channels \cup {k}
          BY <1>2 DEF findOrCreateChannel
        <4> QED BY <4>1, <4>2 DEF TypeOK
      <3>4. c \notin members[k]
        BY <2>4 DEF isMember
      <3>5. /\ clients' = clients /\ registered' = registered
            /\ key' = key /\ userLimit' = userLimit /\ inviteOnly' = inviteOnly
        BY <1>2 DEF settings
      <3>6. LiveClients'
        BY <2>2, <3>1, <3>5 DEF Core, LiveClients
      <3>7. OperatorsAreMembers'
        BY <3>1 DEF Core, OperatorsAreMembers
      <3>8. InvitesAgree'
        <4> SUFFICES ASSUME NEW d \in Client, NEW x \in ChannelKey
                     PROVE  /\ d \in invitedUsers'[x] <=> x \in invitedChannels'[d]
                            /\ d \in invitedUsers'[x] => d \notin members'[x]
          BY DEF InvitesAgree
        <4>1. /\ d \in invitedUsers[x] <=> x \in invitedChannels[d]
              /\ d \in invitedUsers[x] => d \notin members[x]
          BY DEF Core, InvitesAgree
        <4> QED BY <3>1, <3>2, <4>1
      <3>9. ChannelsInUse'
        BY <2>1, <3>1, <3>3, <3>5 DEF Core, ChannelsInUse
      <3>10. NamesFold'
        BY <3>3 DEF Core, NamesFold
      <3>11. JoinedIsMember'
        <4> SUFFICES ASSUME NEW d \in Client, NEW m \in ChannelName
                     PROVE  m \in joinedChannels'[d]
                              <=> d \in members'[toLower(m)] /\ name'[toLower(m)] = m
          BY DEF JoinedIsMember
        <4>1. toLower(m) \in ChannelKey
          BY LowerIsKey
        <4>2. m \in joinedChannels[d] <=> d \in members[toLower(m)] /\ name[toLower(m)] = m
          BY DEF Core, JoinedIsMember
        <4>3. toLower(name'[k]) = k
          BY <2>1, <3>3 DEF Core, NamesFold
        <4>4. CASE toLower(m) # k
          BY <3>1, <3>2, <3>3, <4>1, <4>2, <4>3, <4>4
        <4>5. CASE toLower(m) = k /\ d = c
          <5>1. m \notin joinedChannels[c]
            BY <3>4, <4>2, <4>5
          <5>2. m \in joinedChannels'[c] <=> m = name'[k]
            BY <3>2, <5>1
          <5>3. c \in members'[k]
            BY <2>1, <3>1
          <5> QED BY <4>5, <5>2, <5>3
        <4>6. CASE toLower(m) = k /\ d # c
          <5>1. joinedChannels'[d] = joinedChannels[d]
            BY <3>2, <4>6
          <5>2. d \in members'[k] <=> d \in members[k]
            BY <2>1, <3>1, <4>6
          <5>3. d \in members[k] => name'[k] = name[k]
            BY <2>1, <3>3 DEF Core, ChannelsInUse
          <5> QED BY <4>2, <4>6, <5>1, <5>2, <5>3
        <4> QED BY <4>4, <4>5, <4>6
      <3> QED BY <3>6, <3>7, <3>8, <3>9, <3>10, <3>11 DEF Core
    <2>5. k \notin channels =>
            /\ ~isMember(c, k) /\ ~keyRefused(k, p) /\ ~inviteRefused(c, k) /\ ~isFull(k)
      BY <2>1 DEF Core, ChannelsInUse, isMember, keyRefused, inviteRefused, isFull
    <2> QED BY <1>2, <2>3, <2>4, <2>5 DEF handleJoin, refuse
  <1> QED BY <1>1, <1>2 DEF Join

(* No channel is empty, so a refused PART or KICK changes none.            *)
LEMMA RefusalKeeps ==
  ASSUME TypeOK, Core, NEW c, NEW k \in channels, notOnChannel(c, k)
  PROVE  UNCHANGED <<clientVars, chanVars>>
  BY DEF notOnChannel, Core, ChannelsInUse, TypeOK

(* Channel::handlePart keeps Core, refused or not.                         *)
LEMMA CoreHandlePart ==
  ASSUME TypeOK, Core, NEW c \in Client, NEW k \in channels, handlePart(c, k)
  PROVE  Core'
  <1>1. k \in ChannelKey
    BY DEF TypeOK
  <1> QED BY <1>1, CoreLeave, CoreAnswer, RefusalKeeps DEF handlePart, isMember

(* PART keeps Core.                                                        *)
LEMMA CorePart ==
  ASSUME TypeOK, Core, NEW c \in Client, NEW n, Part(c, n)
  PROVE  Core'
  <1>1. CASE \E code : Answer(c, code, NULL, Empty)
    BY <1>1, CoreReply
  <1>2. CASE findChannel(n) # NULL /\ handlePart(c, findChannel(n))
    <2>1. findChannel(n) \in channels
      BY <1>2 DEF findChannel
    <2> QED BY <1>2, <2>1, CoreHandlePart
  <1> QED BY <1>1, <1>2 DEF Part

(* The steps of JOIN 0 keep Core.                                          *)
LEMMA CoreJoinZero ==
  ASSUME TypeOK, Core, FramePointers,
         \/ \E c \in Client : JoinZero(c)
         \/ \E n \in ChannelName : JoinZeroStep(n)
         \/ JoinZeroEnd
  PROVE  Core'
  <1>1. ASSUME NEW n \in ChannelName, JoinZeroStep(n)
        PROVE  Core'
    <2>1. frame.client \in Client /\ n \in joinedChannels[frame.client]
      BY <1>1 DEF JoinZeroStep, FramePointers, TypeOK
    <2>2. toLower(n) \in channels
      BY <2>1, LowerIsKey DEF Core, JoinedIsMember, ChannelsInUse
    <2> QED BY <1>1, <2>1, <2>2, CoreHandlePart DEF JoinZeroStep
  <1> QED BY <1>1, CoreAnswer DEF JoinZero, JoinZeroEnd

(* KICK keeps Core: the kicked client leaves as by a PART of its own.      *)
LEMMA CoreKick ==
  ASSUME TypeOK, Core, NEW c \in Client, NEW n, NEW p, Kick(c, n, p)
  PROVE  Core'
  <1>1. CASE \E code, k : Answer(c, code, k, Empty)
    BY <1>1, CoreReply
  <1>2. CASE findChannel(n) # NULL /\ kickUnknown(c, findChannel(n))
    BY <1>1, <1>2 DEF kickUnknown
  <1>3. CASE /\ findChannel(n) # NULL /\ findClientByNickname(p) # NULL
             /\ handleKick(c, findClientByNickname(p), findChannel(n))
    <2>1. /\ findChannel(n) \in channels /\ findChannel(n) \in ChannelKey
          /\ findClientByNickname(p) \in Client
      BY <1>3 DEF findChannel, findClientByNickname, TypeOK
    <2>2. CASE notOnChannel(c, findChannel(n))
      BY <2>1, <2>2, RefusalKeeps, CoreAnswer
    <2> QED BY <1>1, <1>3, <2>1, <2>2, CoreLeave DEF handleKick, isMember
  <1> QED BY <1>1, <1>2, <1>3 DEF Kick

(* TOPIC keeps Core.                                                       *)
LEMMA CoreTopic ==
  ASSUME TypeOK, Core, NEW c, NEW n, NEW t, TopicCmd(c, n, t)
  PROVE  Core'
  <1>1. CASE \E code, k, arg : Answer(c, code, k, arg)
    BY <1>1, CoreReply
  <1>2. CASE UNCHANGED <<clientVars, channels, name, members, operators, invitedUsers,
                         key, userLimit, inviteOnly, topicByOpOnly, frame>>
    BY <1>2, CoreModes
  <1> QED BY <1>1, <1>2 DEF TopicCmd, handleTopic

(* INVITE keeps Core: both records of the invitation are made, and for a   *)
(* client that is no member.                                               *)
LEMMA CoreInvite ==
  ASSUME TypeOK, Core, NEW c, NEW p, NEW n, Invite(c, p, n)
  PROVE  Core'
  <1>1. CASE Ignore \/ \E code, k : Answer(c, code, k, Empty)
    BY <1>1, CoreReply
  <1>2. CASE /\ findClientByNickname(p) # NULL /\ findChannel(n) # NULL
             /\ handleInvite(c, findClientByNickname(p), findChannel(n))
    <2> DEFINE d == findClientByNickname(p)
               k == findChannel(n)
    <2>1. d \in registered /\ d \in Client /\ k \in channels /\ k \in ChannelKey
      BY <1>2 DEF findClientByNickname, findChannel, TypeOK
    <2>2. CASE /\ ~isMember(d, k)
               /\ invitedUsers' = [invitedUsers EXCEPT ![k] = @ \cup {d}]
               /\ invitedChannels' = [invitedChannels EXCEPT ![d] = @ \cup {k}]
               /\ UNCHANGED <<clients, registered, joinedChannels, channels, name,
                              members, operators, settings, frame>>
      <3>1. \A x \in ChannelKey :
              invitedUsers'[x] = IF x = k THEN invitedUsers[x] \cup {d} ELSE invitedUsers[x]
        BY <2>2 DEF TypeOK
      <3>2. \A e \in Client :
              invitedChannels'[e] = IF e = d THEN invitedChannels[e] \cup {k}
                                             ELSE invitedChannels[e]
        BY <2>2 DEF TypeOK
      <3>3. LiveClients'
        BY <2>1, <2>2, <3>1 DEF Core, LiveClients
      <3>4. InvitesAgree'
        BY <2>1, <2>2, <3>1, <3>2 DEF Core, InvitesAgree, isMember
      <3>5. ChannelsInUse'
        BY <2>1, <2>2, <3>1 DEF Core, ChannelsInUse, settings
      <3>6. OperatorsAreMembers' /\ NamesFold' /\ JoinedIsMember'
        BY <2>2 DEF Core, OperatorsAreMembers, NamesFold, JoinedIsMember
      <3> QED BY <3>3, <3>4, <3>5, <3>6 DEF Core
    <2> QED BY <1>1, <1>2, <2>2 DEF handleInvite
  <1> QED BY <1>1, <1>2 DEF Invite

(* PRIVMSG and the notice of a NICK keep Core.                             *)
LEMMA CoreMessages ==
  ASSUME TypeOK, Core, NEW c,
         NickChange(c) \/ \E x, hasText : Privmsg(c, x, hasText)
  PROVE  Core'
  BY CoreAnswer, CoreReply DEF NickChange, Privmsg, handleChannelPrivmsg,
     handlePersonalPrivmsg

(* The start of MODE keeps Core.                                           *)
LEMMA CoreMode ==
  ASSUME TypeOK, Core, NEW c, NEW n, NEW m, NEW p, Mode(c, n, m, p)
  PROVE  Core'
  BY CoreAnswer, CoreReply DEF Mode, Continue

(* An iteration of a MODE loop without effect, or with an error reply,     *)
(* keeps Core.                                                             *)
LEMMA CoreContinue ==
  ASSUME TypeOK, Core, Continue \/ \E code : Complain(code)
  PROVE  Core'
  BY CoreAnswer DEF Continue, Complain

(* The loops of MODE keep Core: an operator is made of a member only.      *)
LEMMA CoreModeStep ==
  ASSUME TypeOK, Core, FramePointers, ModeStep
  PROVE  Core'
  <1>1. CASE Continue \/ \E code : Complain(code)
    BY <1>1, CoreContinue
  <1>2. CASE ApplyEnd
    BY <1>2, CoreAnswer DEF ApplyEnd
  <1>3. CASE ScanOperator
    <2> DEFINE d == findClientByNickname(Head(frame.params))
               k == frame.chan
    <2>1. CASE /\ d # NULL /\ isTarget(d, k)
               /\ operators' = [operators EXCEPT ![k] =
                                  IF frame.enable THEN @ \cup {d} ELSE @ \ {d}]
               /\ UNCHANGED <<clientVars, channels, name, members, invitedUsers, settings>>
      <3>1. \A x \in ChannelKey :
              operators'[x] \subseteq operators[x] \cup IF x = k THEN {d} ELSE {}
        BY <2>1 DEF TypeOK
      <3>2. OperatorsAreMembers'
        BY <2>1, <3>1 DEF Core, OperatorsAreMembers, isTarget, isMember
      <3>3. LiveClients' /\ InvitesAgree' /\ ChannelsInUse' /\ NamesFold' /\ JoinedIsMember'
        BY <2>1 DEF Core, LiveClients, InvitesAgree, ChannelsInUse, NamesFold,
                    JoinedIsMember, clientVars, settings
      <3> QED BY <3>2, <3>3 DEF Core
    <2> QED BY <1>1, <1>3, <2>1 DEF ScanOperator, handleModeOperator
  <1>4. ASSUME Applying({"i", "t", "k", "l"}),
               UNCHANGED <<clientVars, channels, name, members, operators, invitedUsers>>,
               \A x \in ChannelKey \ {frame.chan} :
                 key'[x] = key[x] /\ userLimit'[x] = userLimit[x]
                   /\ inviteOnly'[x] = inviteOnly[x]
        PROVE  Core'
    <2>1. frame.chan \in channels
      BY <1>4 DEF Applying, FramePointers
    <2> QED BY <1>4, <2>1, CoreModes
  <1>5. CASE ApplyInviteOnly
    BY <1>1, <1>4, <1>5 DEF ApplyInviteOnly, Applying, TypeOK
  <1>6. CASE ApplyTopic
    BY <1>1, <1>4, <1>6 DEF ApplyTopic, Applying, TypeOK
  <1>7. CASE ApplyKey
    BY <1>1, <1>4, <1>7 DEF ApplyKey, Applying, setModeKey, TypeOK
  <1>8. CASE ApplyLimit
    BY <1>1, <1>4, <1>8 DEF ApplyLimit, Applying, setModeUserLimit, TypeOK
  <1>9. CASE ScanSign \/ ScanUnknown \/ ScanMissing \/ ScanOverLimit \/ ScanFilter
               \/ ScanEnd \/ ApplySign
    BY <1>1, <1>9 DEF ScanSign, ScanUnknown, ScanMissing, ScanOverLimit, ScanFilter,
                      ScanEnd, ApplySign
  <1> QED BY <1>2, <1>3, <1>5, <1>6, <1>7, <1>8, <1>9 DEF ModeStep

-----------------------------------------------------------------------------
(* What a command in progress holds on to.                                 *)

(* Between two commands no pointer is held.                                *)
LEMMA IdlePointers == ASSUME frame' = IdleFrame PROVE FramePointers'
  BY DEF FramePointers, IdleFrame

(* MODE starts its loop, if it does, with live pointers.                   *)
LEMMA FrameOfModeLine ==
  ASSUME NEW c, NEW n, NEW m, NEW p, Mode(c, n, m, p)
  PROVE  FramePointers'
  <1>1. CASE frame' = frame
    <2>1. frame = IdleFrame
      BY DEF Mode, Ready, Idle
    <2> QED BY <1>1, <2>1, IdlePointers
  <1>2. CASE frame' # frame
    <2>1. /\ findChannel(n) # NULL
          /\ frame' = ModeFrame(c, findChannel(n), "scan", m, p)
          /\ UNCHANGED <<clientVars, chanVars>>
      BY <1>2 DEF Mode, Answer, Ignore, Continue
    <2>2. c \in registered' /\ findChannel(n) \in channels'
      BY <1>2, <2>1 DEF Mode, Ready, findChannel, clientVars, chanVars
    <2>3. /\ frame'.op = "scan" /\ frame'.client = c /\ frame'.chan = findChannel(n)
          /\ frame'.todo = {}
      BY <2>1 DEF ModeFrame, IdleFrame
    <2> QED BY <2>2, <2>3 DEF FramePointers
  <1> QED BY <1>1, <1>2

(* A command that starts no loop leaves the frame idle, and one that does  *)
(* starts with live pointers.                                              *)
LEMMA FrameOfCommands ==
  ASSUME TypeOK, NEW c \in Client, Connect(c) \/ Register(c) \/ Disconnect(c) \/ Command(c)
  PROVE  FramePointers'
  <1>1. CASE frame' = frame
    <2>1. frame = IdleFrame
      BY DEF Connect, Register, Disconnect, Command, Join, JoinZero, Part, Kick, TopicCmd,
             Invite, Privmsg, Mode, NickChange, Ready, Idle
    <2> QED BY <1>1, <2>1, IdlePointers
  <1>2. CASE JoinZero(c)
    <2>1. c \in registered /\ registered' = registered /\ joinedChannels' = joinedChannels
      BY <1>2 DEF JoinZero, Ready, clientVars
    <2>2. frame'.op = "join0" /\ frame'.client = c /\ frame'.todo = joinedChannels[c]
      BY <1>2 DEF JoinZero, IdleFrame
    <2> QED BY <2>1, <2>2 DEF FramePointers
  <1>3. ASSUME NEW n, NEW m, NEW p, Mode(c, n, m, p)
        PROVE  FramePointers'
    BY <1>3, FrameOfModeLine
  <1>4. ASSUME frame' # frame
        PROVE  JoinZero(c) \/ \E n \in ChannelArg, m \in ModeLine, p \in ParamLine : Mode(c, n, m, p)
    <2>1. ~Connect(c) /\ ~Register(c) /\ ~Disconnect(c)
      BY <1>4 DEF Connect, Register, Disconnect
    <2>2. \A n, p : ~Join(c, n, p) /\ ~Kick(c, n, p) /\ ~Invite(c, p, n) /\ ~TopicCmd(c, n, p)
      BY <1>4 DEF Join, Kick, Invite, TopicCmd, kickUnknown, handleKick, handleInvite,
                  handleTopic, Answer, Ignore
    <2>3. \A n, h : ~Part(c, n) /\ ~Privmsg(c, n, h) /\ ~NickChange(c)
      BY <1>4 DEF Part, Privmsg, NickChange, handleChannelPrivmsg, handlePersonalPrivmsg,
                  Answer
    <2> QED BY <2>1, <2>2, <2>3 DEF Command
  <1> QED BY <1>1, <1>2, <1>3, <1>4

(* JOIN 0 walks a copy of _joinedChannels: what is left of the copy is     *)
(* still joined, because each PART removes the one entry just visited.     *)
LEMMA FrameOfJoinZero ==
  ASSUME TypeOK, Core, FramePointers,
         (\E n \in ChannelName : JoinZeroStep(n)) \/ JoinZeroEnd
  PROVE  FramePointers'
  <1>1. ASSUME NEW n \in ChannelName, JoinZeroStep(n)
        PROVE  FramePointers'
    <2> DEFINE c == frame.client
               k == toLower(n)
    <2>1. /\ frame.op = "join0" /\ n \in frame.todo
          /\ c \in registered /\ c \in Client
          /\ frame.todo \subseteq joinedChannels[c]
      BY <1>1 DEF JoinZeroStep, FramePointers, TypeOK
    <2>2. frame'.op = "join0" /\ frame'.client = c /\ frame'.todo = frame.todo \ {n}
      BY <1>1 DEF JoinZeroStep, TypeOK, Frame
    <2>3. c \in members[k] /\ name[k] = n
      BY <2>1 DEF Core, JoinedIsMember
    <2>4. Leave(c, k)
      BY <1>1, <2>3 DEF JoinZeroStep, handlePart, isMember
    <2>5. joinedChannels'[c] = joinedChannels[c] \ {n} /\ registered' = registered
      BY <2>1, <2>3, <2>4 DEF Leave, removeMember, removeJoinedChannels, TypeOK
    <2> QED BY <2>1, <2>2, <2>5 DEF FramePointers
  <1>2. CASE JoinZeroEnd
    BY <1>2, IdlePointers DEF JoinZeroEnd
  <1> QED BY <1>1, <1>2

(* The client and the channel a MODE command holds outlive its loops, and  *)
(* handleMode runs for operators only.                                     *)
LEMMA FrameOfMode ==
  ASSUME TypeOK, FramePointers, ModeStep
  PROVE  FramePointers'
  <1>0. frame \in Frame
    BY DEF TypeOK
  <1>1. registered' = registered /\ channels' = channels
    BY DEF ModeStep, ScanSign, ScanUnknown, ScanMissing, ScanOverLimit, ScanOperator,
           ScanFilter, ScanEnd, ApplySign, ApplyInviteOnly, ApplyTopic, ApplyKey, ApplyLimit,
           ApplyEnd, Continue, Complain, handleModeOperator, setModeKey, setModeUserLimit,
           clientVars, chanVars
  <1>2. ASSUME frame.op = "scan", frame'.op = "scan", frame'.client = frame.client,
               frame'.chan = frame.chan, frame'.todo = frame.todo
        PROVE  FramePointers'
    BY <1>1, <1>2 DEF FramePointers
  <1>3. CASE ScanSign \/ ScanUnknown \/ ScanMissing \/ ScanOverLimit \/ ScanOperator
             \/ ScanFilter
    <2>1. /\ frame.op = "scan" /\ frame'.op = "scan" /\ frame'.client = frame.client
          /\ frame'.chan = frame.chan /\ frame'.todo = frame.todo
      BY <1>0, <1>3 DEF ScanSign, ScanUnknown, ScanMissing, ScanOverLimit, ScanOperator,
                        ScanFilter, Scanning, Frame
    <2> QED BY <1>2, <2>1
  <1>4. CASE ScanEnd
    <2>1. CASE frame' = IdleFrame
      BY <2>1, IdlePointers
    <2>2. CASE /\ frame.op = "scan" /\ isOperator(frame.client, frame.chan)
               /\ frame' = ModeFrame(frame.client, frame.chan, "apply",
                                     frame.out, frame.outParams)
               /\ Continue
      <3>1. /\ frame'.op = "apply" /\ frame'.client = frame.client
            /\ frame'.chan = frame.chan /\ frame'.todo = {}
        BY <2>2 DEF ModeFrame, IdleFrame
      <3>2. operators' = operators
        BY <2>2 DEF Continue, chanVars
      <3> QED BY <1>1, <2>2, <3>1, <3>2 DEF FramePointers, isOperator
    <2> QED BY <1>4, <2>1, <2>2 DEF ScanEnd
  <1>5. CASE ApplySign \/ ApplyInviteOnly \/ ApplyTopic \/ ApplyKey \/ ApplyLimit
    <2>1. frame.op = "apply" /\ operators' = operators
      BY <1>5 DEF ApplySign, ApplyInviteOnly, ApplyTopic, ApplyKey, ApplyLimit, Applying,
                  Continue, Complain, setModeKey, setModeUserLimit, chanVars
    <2>2. /\ frame'.op = "apply" /\ frame'.client = frame.client
          /\ frame'.chan = frame.chan /\ frame'.todo = frame.todo
      <3>1. CASE ApplySign \/ \E ps : Skip(ps)
        BY <1>0, <2>1, <3>1 DEF ApplySign, Skip, Frame
      <3>2. CASE \E ps, args : Apply(ps, args)
        BY <1>0, <2>1, <3>2 DEF Apply, Frame
      <3> QED BY <1>5, <3>1, <3>2 DEF ApplyInviteOnly, ApplyTopic, ApplyKey, ApplyLimit
    <2> QED BY <1>1, <2>1, <2>2 DEF FramePointers, isOperator
  <1>6. CASE ApplyEnd
    BY <1>6, IdlePointers DEF ApplyEnd
  <1> QED BY <1>3, <1>4, <1>5, <1>6 DEF ModeStep

-----------------------------------------------------------------------------

(* No step of the server breaks IndInv, the strengthening that all         *)
(* invariants follow from.                                                 *)
LEMMA IndStep ==
  ASSUME IndInv, [Next]_vars
  PROVE  IndInv'
  <1> SUFFICES Core' /\ FramePointers'
    BY TypeStep DEF IndInv
  <1> USE DEF IndInv
  <1>1. CASE UNCHANGED vars
    <2>1. Core'
      BY <1>1, CoreAnswer DEF vars
    <2> QED BY <1>1, <2>1 DEF vars, clientVars, chanVars, FramePointers, isOperator
  <1>2. ASSUME NEW c \in Client, Connect(c) \/ Register(c) \/ Disconnect(c)
        PROVE  Core' /\ FramePointers'
    BY <1>2, CoreConnect, CoreDisconnect, FrameOfCommands
  <1>3. ASSUME NEW c \in Client, Command(c)
        PROVE  Core' /\ FramePointers'
    <2>1. CASE \E n \in ChannelArg, p \in Param \cup {Empty} : Join(c, n, p)
      BY <1>3, <2>1, CoreJoin, FrameOfCommands
    <2>2. CASE JoinZero(c)
      BY <1>3, <2>2, CoreJoinZero, FrameOfCommands
    <2>3. CASE \E n \in ChannelArg : Part(c, n)
      BY <1>3, <2>3, CorePart, FrameOfCommands
    <2>4. CASE \E n \in ChannelArg, p \in Param : Kick(c, n, p)
      BY <1>3, <2>4, CoreKick, FrameOfCommands
    <2>5. CASE \E n \in ChannelArg, t \in Topic \cup {Empty, NULL} : TopicCmd(c, n, t)
      BY <1>3, <2>5, CoreTopic, FrameOfCommands
    <2>6. CASE \E n \in ChannelArg, p \in Param : Invite(c, p, n)
      BY <1>3, <2>6, CoreInvite, FrameOfCommands
    <2>7. CASE NickChange(c) \/ \E x \in ChannelArg \cup Param, h \in BOOLEAN : Privmsg(c, x, h)
      BY <1>3, <2>7, CoreMessages, FrameOfCommands
    <2>8. CASE \E n \in ChannelArg, m \in ModeLine, p \in ParamLine : Mode(c, n, m, p)
      BY <1>3, <2>8, CoreMode, FrameOfCommands
    <2> QED BY <1>3, <2>1, <2>2, <2>3, <2>4, <2>5, <2>6, <2>7, <2>8 DEF Command
  <1>4. CASE (\E n \in ChannelName : JoinZeroStep(n)) \/ JoinZeroEnd
    BY <1>4, CoreJoinZero, FrameOfJoinZero
  <1>5. CASE ModeStep
    BY <1>5, CoreModeStep, FrameOfMode
  <1> QED BY <1>1, <1>2, <1>3, <1>4, <1>5 DEF Next

(* IndInv holds in every reachable state.                                  *)
LEMMA Inductive == Spec => []IndInv
  <1>1. Init => IndInv
    BY TypeInit, CoreInit DEF IndInv
  <1> QED BY <1>1, IndStep, PTL DEF Spec

(* What IndInv says of the lists.                                          *)
LEMMA ListsHold ==
  IndInv => /\ NoDanglingPointer /\ MembershipAgrees /\ OperatorsAreMembers
            /\ InvitesAgree /\ NoEmptyChannel
  <1> SUFFICES ASSUME IndInv
               PROVE  /\ NoDanglingPointer /\ MembershipAgrees /\ OperatorsAreMembers
                      /\ InvitesAgree /\ NoEmptyChannel
    OBVIOUS
  <1> USE DEF IndInv, Core
  <1>1. NoEmptyChannel
    BY DEF NoEmptyChannel, ChannelsInUse, TypeOK
  <1>2. \A c \in Client, n \in ChannelName :
          n \in joinedChannels[c] => toLower(n) \in channels
    BY LowerIsKey DEF JoinedIsMember, ChannelsInUse
  <1>3. \A c \in Client : joinedKeys(c) \cup invitedChannels[c] \subseteq channels
    <2> SUFFICES ASSUME NEW c \in Client
                 PROVE  joinedKeys(c) \subseteq channels /\ invitedChannels[c] \subseteq channels
      OBVIOUS
    <2>1. joinedChannels[c] \subseteq ChannelName /\ invitedChannels[c] \subseteq ChannelKey
      BY DEF TypeOK
    <2>2. joinedKeys(c) \subseteq channels
      BY <1>2, <2>1 DEF joinedKeys
    <2> QED BY <2>1, <2>2 DEF InvitesAgree, ChannelsInUse
  <1>4. \A n \in frame.todo : toLower(n) \in channels
    <2>1. frame.client \in Client \/ frame.todo = {}
      BY DEF FramePointers, TypeOK
    <2>2. frame.todo \subseteq ChannelName
      BY DEF TypeOK, Frame
    <2> QED BY <1>2, <2>1, <2>2 DEF FramePointers
  <1>5. NoDanglingPointer
    BY <1>3, <1>4 DEF NoDanglingPointer, LiveClients, OperatorsAreMembers, FramePointers
  <1>6. MembershipAgrees
    <2> SUFFICES ASSUME NEW c \in Client
                 PROVE  joinedChannels[c] =
                          {name[k] : k \in {x \in channels : c \in members[x]}}
      BY DEF MembershipAgrees
    <2>1. joinedChannels[c] \subseteq ChannelName
      BY DEF TypeOK
    <2>2. \A n \in joinedChannels[c] :
            toLower(n) \in channels /\ c \in members[toLower(n)] /\ n = name[toLower(n)]
      BY <1>2, <2>1 DEF JoinedIsMember
    <2>3. \A k \in channels : c \in members[k] => name[k] \in joinedChannels[c]
      BY DEF JoinedIsMember, NamesFold, TypeOK
    <2> QED BY <2>2, <2>3
  <1> QED BY <1>1, <1>5, <1>6

(* In every reachable state the lists of clients and channels agree, no    *)
(* list names an object that was deleted, operators are members, an        *)
(* invitation is recorded on both sides, and no channel is empty.          *)
THEOREM ChannelIntegrity ==
  Spec => [](/\ NoDanglingPointer /\ MembershipAgrees /\ OperatorsAreMembers
             /\ InvitesAgree /\ NoEmptyChannel)
  BY ListsHold, Inductive, PTL

(* What a client and a channel record of a membership agree, whatever the  *)
(* spelling the channel was joined by (addMember, removeMember).           *)
THEOREM ListsAgree == Spec => []MembershipAgrees
  BY ChannelIntegrity, PTL

(* Only members are operators: no departure leaves the status behind and   *)
(* no MODE gives it to a stranger (removeMember, handleModeOperator).      *)
THEOREM OperatorsStayMembers == Spec => []OperatorsAreMembers
  BY ChannelIntegrity, PTL

(* An invitation is on both lists or on none and a member holds none, so   *)
(* it admits once (handleInvite, handleJoin, clearInvitedUsers).           *)
THEOREM InvitationsAgree == Spec => []InvitesAgree
  BY ChannelIntegrity, PTL

(* No order of refusals and departures leaves an empty channel in the      *)
(* registry (findOrCreateChannel, deleteChannel).                          *)
THEOREM ChannelsAreUsed == Spec => []NoEmptyChannel
  BY ChannelIntegrity, PTL

-----------------------------------------------------------------------------

(* What FrozenWithoutOperators says of one channel in one step.            *)
Frozen(k) ==
  operators[k] = {} =>
    /\ operators'[k] = {}
    /\ inviteOnly'[k] = inviteOnly[k] /\ topicByOpOnly'[k] = topicByOpOnly[k]
    /\ key'[k] = key[k] /\ userLimit'[k] = userLimit[k]
    /\ topicByOpOnly[k] => topic'[k] = topic[k]

(* A step that changes neither operators nor settings keeps it.            *)
LEMMA FrozenStill ==
  ASSUME NEW k, operators' = operators, UNCHANGED settings
  PROVE  Frozen(k)
  BY DEF Frozen, settings

(* A command that only answers changes no channel.                         *)
LEMMA FrozenReply ==
  ASSUME NEW k,
         \/ \E c, code, x, arg : Answer(c, code, x, arg)
         \/ Ignore \/ Continue \/ \E code : Complain(code)
  PROVE  Frozen(k)
  BY FrozenStill DEF Answer, Ignore, Continue, Complain, chanVars

(* A channel that survives a departure keeps its settings.                 *)
LEMMA FrozenLeave ==
  ASSUME TypeOK, NEW k \in ChannelKey, k \in channels',
         NEW c, NEW K, NEW D, operators' = Without(operators, c, K), deleteChannel(D)
  PROVE  Frozen(k)
  BY DEF Frozen, Without, deleteChannel, Reset

(* A refused PART or KICK changes no channel.                              *)
LEMMA FrozenRefusal ==
  ASSUME TypeOK, Core, NEW k, NEW c, NEW x \in channels, notOnChannel(c, x)
  PROVE  Frozen(k)
  BY RefusalKeeps, FrozenStill DEF chanVars

(* No command of a client but MODE changes the modes or the operators of a *)
(* channel that has none.                                                  *)
LEMMA FrozenCommand ==
  ASSUME TypeOK, Core, NEW c \in Client, Command(c),
         NEW k \in channels, k \in channels'
  PROVE  Frozen(k)
  <1>0. k \in ChannelKey
    BY DEF TypeOK
  <1>1. ASSUME NEW n, NEW p, Join(c, n, p)
        PROVE  Frozen(k)
    <2>1. CASE \E code : Answer(c, code, NULL, Empty)
      BY <2>1, FrozenReply
    <2>2. CASE handleJoin(c, toLower(n), p) /\ UNCHANGED settings
      <3>1. operators'[k] = operators[k]
        <4>1. members[k] # {}
          BY <1>0 DEF Core, ChannelsInUse
        <4>2. \/ operators' = operators
              \/ /\ members[toLower(n)] = {}
                 /\ operators' = [operators EXCEPT ![toLower(n)] = @ \cup {c}]
          BY <2>2 DEF handleJoin, admit, refuse
        <4> QED BY <4>1, <4>2 DEF TypeOK
      <3> QED BY <2>2, <3>1 DEF Frozen, settings
    <2> QED BY <1>1, <2>1, <2>2 DEF Join, settings
  <1>2. ASSUME NEW n, Part(c, n)
        PROVE  Frozen(k)
    BY <1>0, <1>2, FrozenReply, FrozenLeave, FrozenRefusal
    DEF Part, handlePart, Leave, removeMember, deleteChannels, findChannel
  <1>3. ASSUME NEW n, NEW p, Kick(c, n, p)
        PROVE  Frozen(k)
    BY <1>0, <1>3, FrozenReply, FrozenLeave, FrozenRefusal
    DEF Kick, kickUnknown, handleKick, Leave, removeMember, deleteChannels, findChannel
  <1>4. ASSUME NEW n, NEW t, TopicCmd(c, n, t)
        PROVE  Frozen(k)
    <2>1. CASE \E code, x, arg : Answer(c, code, x, arg)
      BY <2>1, FrozenReply
    <2>2. CASE /\ ~(topicByOpOnly[findChannel(n)] /\ ~isOperator(c, findChannel(n)))
               /\ topic' = [topic EXCEPT ![findChannel(n)] = t]
               /\ UNCHANGED <<operators, key, userLimit, inviteOnly, topicByOpOnly>>
      BY <1>0, <2>2 DEF Frozen, isOperator, TypeOK
    <2> QED BY <1>4, <2>1, <2>2 DEF TopicCmd, handleTopic
  <1>5. ASSUME NEW n, NEW p, Invite(c, p, n)
        PROVE  Frozen(k)
    BY <1>5, FrozenReply, FrozenStill DEF Invite, handleInvite
  <1>6. ASSUME NEW x, NEW h, Privmsg(c, x, h) \/ NickChange(c)
        PROVE  Frozen(k)
    BY <1>6, FrozenReply, FrozenStill DEF Privmsg, NickChange, handleChannelPrivmsg,
       handlePersonalPrivmsg, chanVars
  <1>7. ASSUME NEW n, NEW m, NEW p, Mode(c, n, m, p)
        PROVE  Frozen(k)
    BY <1>7, FrozenReply DEF Mode
  <1>8. CASE JoinZero(c)
    BY <1>8, FrozenStill DEF JoinZero, chanVars
  <1> QED BY <1>1, <1>2, <1>3, <1>4, <1>5, <1>6, <1>7, <1>8 DEF Command

(* Only an operator's MODE gets past the tests of handleModeOperator, and  *)
(* handleMode is entered by operators only.                                *)
LEMMA FrozenMode ==
  ASSUME TypeOK, FramePointers, ModeStep, NEW k \in channels
  PROVE  Frozen(k)
  <1>0. k \in ChannelKey
    BY DEF TypeOK
  <1>1. CASE Continue \/ \E code : Complain(code)
    BY <1>1, FrozenReply
  <1>2. CASE ScanOperator
    BY <1>0, <1>1, <1>2 DEF ScanOperator, handleModeOperator, mayChangeOperators, isOperator,
                      Frozen, settings, TypeOK
  <1>3. ASSUME frame.op = "apply", operators' = operators, topic' = topic,
               \A x \in ChannelKey \ {frame.chan} :
                 /\ key'[x] = key[x] /\ userLimit'[x] = userLimit[x]
                 /\ inviteOnly'[x] = inviteOnly[x] /\ topicByOpOnly'[x] = topicByOpOnly[x]
        PROVE  Frozen(k)
    BY <1>0, <1>3 DEF Frozen, FramePointers, isOperator
  <1>4. CASE ApplyInviteOnly
    BY <1>1, <1>3, <1>4 DEF ApplyInviteOnly, Applying, TypeOK
  <1>5. CASE ApplyTopic
    BY <1>1, <1>3, <1>5 DEF ApplyTopic, Applying, TypeOK
  <1>6. CASE ApplyKey
    BY <1>1, <1>3, <1>6 DEF ApplyKey, Applying, setModeKey, TypeOK
  <1>7. CASE ApplyLimit
    BY <1>1, <1>3, <1>7 DEF ApplyLimit, Applying, setModeUserLimit, TypeOK
  <1>8. CASE ApplyEnd
    BY <1>8, FrozenStill DEF ApplyEnd, chanVars
  <1>9. CASE ScanSign \/ ScanUnknown \/ ScanMissing \/ ScanOverLimit \/ ScanFilter
               \/ ScanEnd \/ ApplySign
    BY <1>1, <1>9 DEF ScanSign, ScanUnknown, ScanMissing, ScanOverLimit, ScanFilter,
                      ScanEnd, ApplySign
  <1> QED BY <1>2, <1>4, <1>5, <1>6, <1>7, <1>8, <1>9 DEF ModeStep

(* A channel without operators never gets one, and its modes never change  *)
(* again: no order of commands, and no mixture of letters in one MODE line *)
(* (a line may take its own sender's status), gets around the two tests.   *)
THEOREM OperatorlessIsFrozen == Spec => FrozenWithoutOperators
  <1>1. IndInv /\ [Next]_vars => [\A k \in channels \cap channels' : Frozen(k)]_vars
    <2> SUFFICES ASSUME TypeOK, Core, FramePointers, Next, NEW k \in channels, k \in channels'
                 PROVE  Frozen(k)
      BY DEF IndInv
    <2>0. k \in ChannelKey
      BY DEF TypeOK
    <2>1. ASSUME NEW c \in Client, Connect(c) \/ Register(c)
          PROVE  Frozen(k)
      BY <2>1, FrozenStill DEF Connect, Register, chanVars
    <2>2. ASSUME NEW c \in Client, Disconnect(c)
          PROVE  Frozen(k)
      BY <2>0, <2>2, FrozenLeave DEF Disconnect
    <2>3. ASSUME NEW n, JoinZeroStep(n)
          PROVE  Frozen(k)
      <3>1. isMember(frame.client, toLower(n))
        BY <2>3 DEF JoinZeroStep, FramePointers, Core, JoinedIsMember, isMember, TypeOK, Frame
      <3> QED BY <2>0, <2>3, <3>1, FrozenLeave
              DEF JoinZeroStep, handlePart, Leave, removeMember, deleteChannels
    <2>4. CASE JoinZeroEnd
      BY <2>4, FrozenStill DEF JoinZeroEnd, chanVars
    <2> QED BY <2>1, <2>2, <2>3, <2>4, FrozenCommand, FrozenMode DEF Next
  <1>2. [\A k \in channels \cap channels' : Frozen(k)]_vars
          => [\A k \in channels \cap channels' :
                operators[k] = {} =>
                  /\ operators'[k] = {}
                  /\ inviteOnly'[k] = inviteOnly[k] /\ topicByOpOnly'[k] = topicByOpOnly[k]
                  /\ key'[k] = key[k] /\ userLimit'[k] = userLimit[k]
                  /\ topicByOpOnly[k] => topic'[k] = topic[k]]_vars
    BY DEF Frozen
  <1> QED BY <1>1, <1>2, Inductive, PTL DEF Spec, FrozenWithoutOperators

-----------------------------------------------------------------------------
(* ChannelServer implements Membership.                                    *)

Still ==
  UNCHANGED <<registered, members, operators, invitedUsers, inviteOnly, userLimit, key>>

(* A step that only answers, or leaves clients and channels alone, is a    *)
(* stuttering step.                                                        *)
LEMMA StillReply ==
  ASSUME \/ \E c, code, k, arg : Answer(c, code, k, arg)
         \/ Ignore \/ Continue \/ \E code : Complain(code)
         \/ UNCHANGED <<clientVars, chanVars>>
  PROVE  Still
  BY DEF Still, Answer, Ignore, Continue, Complain, clientVars, chanVars, settings

(* A PART or KICK is an abstract Leave: the channel it empties forgets its *)
(* invitations and its modes with it.                                      *)
LEMMA LeaveLeaves ==
  ASSUME IndInv, NEW c \in Client, NEW k \in ChannelKey, c \in members[k], Leave(c, k)
  PROVE  Abstract!Leave(c, k)
  <1>1. TypeOK /\ Core
    BY DEF IndInv
  <1>2. \A x \in ChannelKey :
          x \in Emptied(c, {k}) <=> x = k /\ members[k] \ {c} = {}
    BY DEF Emptied
  <1>3. /\ members' = [x \in ChannelKey |-> IF x \in {k} THEN members[x] \ {c} ELSE members[x]]
        /\ operators' = [x \in ChannelKey |-> IF x \in {k} THEN operators[x] \ {c}
                                                          ELSE operators[x]]
    BY DEF Leave, removeMember, Without
  <1>4. \A x \in ChannelKey : members'[x] = {} /\ x # k =>
          invitedUsers[x] = {} /\ ~inviteOnly[x] /\ userLimit[x] = 0 /\ key[x] = Empty
    BY <1>1, <1>3 DEF Core, ChannelsInUse
  <1>5. invitedUsers' = [x \in ChannelKey |-> IF members'[x] = {} THEN {} ELSE invitedUsers[x]]
    <2>1. invitedUsers' = [x \in ChannelKey |-> IF x \in Emptied(c, {k}) THEN {}
                                                                      ELSE invitedUsers[x]]
      BY DEF Leave, deleteChannels, Reset
    <2> QED BY <1>2, <1>3, <1>4, <2>1
  <1>6. inviteOnly' = [x \in ChannelKey |-> members'[x] # {} /\ inviteOnly[x]]
    <2>1. inviteOnly' = [x \in ChannelKey |-> IF x \in Emptied(c, {k}) THEN FALSE
                                                                      ELSE inviteOnly[x]]
      BY DEF Leave, deleteChannels, deleteChannel, Reset
    <2>2. \A x \in ChannelKey : inviteOnly[x] \in BOOLEAN
      BY <1>1 DEF TypeOK
    <2>3. \A x \in ChannelKey :
            (IF x \in Emptied(c, {k}) THEN FALSE ELSE inviteOnly[x])
              = (members'[x] # {} /\ inviteOnly[x])
      BY <1>2, <1>3, <1>4, <2>2
    <2> QED BY <2>1, <2>3
  <1>7. registered' = registered
    BY DEF Leave
  <1>8. /\ userLimit' = [x \in ChannelKey |-> IF members'[x] = {} THEN 0 ELSE userLimit[x]]
        /\ key' = [x \in ChannelKey |-> IF members'[x] = {} THEN Empty ELSE key[x]]
    <2>1. /\ userLimit' = [x \in ChannelKey |-> IF x \in Emptied(c, {k}) THEN 0
                                                                      ELSE userLimit[x]]
          /\ key' = [x \in ChannelKey |-> IF x \in Emptied(c, {k}) THEN Empty ELSE key[x]]
      BY DEF Leave, deleteChannels, deleteChannel, Reset
    <2> QED BY <1>2, <1>3, <1>4, <2>1
  <1> QED BY <1>3, <1>5, <1>6, <1>7, <1>8 DEF Abstract!Leave, Abstract!Lose

(* A lost connection is an abstract Depart, or nothing at all when the     *)
(* client had not registered.                                              *)
LEMMA DisconnectDeparts ==
  ASSUME IndInv, NEW c \in Client, Disconnect(c)
  PROVE  Abstract!Depart(c) \/ Still
  <1> DEFINE K == {k \in channels : isMember(c, k)}
             D == Emptied(c, K)
  <1>1. TypeOK /\ Core
    BY DEF IndInv
  <1>2. \A x \in ChannelKey : /\ x \in K <=> c \in members[x]
                              /\ x \in D <=> members[x] = {c}
    BY <1>1 DEF Emptied, isMember, Core, ChannelsInUse
  <1>3. /\ members' = [x \in ChannelKey |-> members[x] \ {c}]
        /\ operators' = [x \in ChannelKey |-> operators[x] \ {c}]
    <2>1. /\ members' = [x \in ChannelKey |-> IF x \in K THEN members[x] \ {c} ELSE members[x]]
          /\ operators' = [x \in ChannelKey |-> IF x \in K THEN operators[x] \ {c}
                                                          ELSE operators[x]]
      BY DEF Disconnect, Without
    <2>2. \A x \in ChannelKey : operators[x] \subseteq members[x]
      BY <1>1 DEF Core, OperatorsAreMembers
    <2>3. \A x \in ChannelKey : x \notin K => /\ members[x] = members[x] \ {c}
                                              /\ operators[x] = operators[x] \ {c}
      BY <1>2, <2>2
    <2> QED BY <2>1, <2>3
  <1>4. \A x \in ChannelKey :
          invitedUsers'[x] = IF x \in D THEN {} ELSE invitedUsers[x] \ {c}
    <2>1. \A x \in ChannelKey :
            invitedUsers'[x] = IF x \in D THEN {}
                               ELSE IF x \in invitedChannels[c] THEN invitedUsers[x] \ {c}
                               ELSE invitedUsers[x]
      BY DEF Disconnect, removeMemberfromInvitedUsers, Reset, Without
    <2>2. \A x \in ChannelKey : c \in invitedUsers[x] => x \in invitedChannels[c]
      BY <1>1 DEF Core, InvitesAgree
    <2> QED BY <2>1, <2>2
  <1>5. inviteOnly' = [x \in ChannelKey |-> IF x \in D THEN FALSE ELSE inviteOnly[x]]
    BY DEF Disconnect, deleteChannel, Reset
  <1>6. registered' = registered \ {c}
    BY DEF Disconnect
  <1>7. \A x \in ChannelKey : members[x] = {} =>
          invitedUsers[x] = {} /\ ~inviteOnly[x] /\ userLimit[x] = 0 /\ key[x] = Empty
    BY <1>1 DEF Core, ChannelsInUse
  <1>8. invitedUsers' = [x \in ChannelKey |->
                           IF members'[x] = {} THEN {} ELSE invitedUsers[x] \ {c}]
    <2>1. \A x \in ChannelKey :
            invitedUsers'[x] = IF members'[x] = {} THEN {} ELSE invitedUsers[x] \ {c}
      <3> SUFFICES ASSUME NEW x \in ChannelKey
                   PROVE  invitedUsers'[x] = IF members'[x] = {} THEN {}
                                                                ELSE invitedUsers[x] \ {c}
        OBVIOUS
      <3> HIDE DEF K, D
      <3>1. members'[x] = members[x] \ {c}
        BY <1>3
      <3>2. CASE members[x] = {}
        BY <1>2, <1>4, <1>7, <3>1, <3>2
      <3>3. CASE members[x] = {c}
        BY <1>2, <1>4, <3>1, <3>3
      <3>4. CASE members[x] # {} /\ members[x] # {c}
        <4>1. members[x] \ {c} # {}
          BY <3>4
        <4> QED BY <1>2, <1>4, <3>1, <3>4, <4>1
      <3> QED BY <3>2, <3>3, <3>4
    <2>2. invitedUsers' = [x \in ChannelKey |-> invitedUsers'[x]]
      BY DEF Disconnect, removeMemberfromInvitedUsers, Reset
    <2> QED BY <2>1, <2>2
  <1>9. inviteOnly' = [x \in ChannelKey |-> members'[x] # {} /\ inviteOnly[x]]
    <2>1. \A x \in ChannelKey : inviteOnly[x] \in BOOLEAN
      BY <1>1 DEF TypeOK
    <2>2. \A x \in ChannelKey :
            (IF x \in D THEN FALSE ELSE inviteOnly[x]) = (members'[x] # {} /\ inviteOnly[x])
      BY <1>2, <1>3, <1>7, <2>1
    <2> QED BY <1>5, <2>2
  <1>12. /\ userLimit' = [x \in ChannelKey |-> IF x \in D THEN 0 ELSE userLimit[x]]
         /\ key' = [x \in ChannelKey |-> IF x \in D THEN Empty ELSE key[x]]
    BY DEF Disconnect, deleteChannel, Reset
  <1>13. /\ userLimit' = [x \in ChannelKey |-> IF members'[x] = {} THEN 0 ELSE userLimit[x]]
         /\ key' = [x \in ChannelKey |-> IF members'[x] = {} THEN Empty ELSE key[x]]
    <2>1. \A x \in ChannelKey : members'[x] = {} <=> x \in D \/ members[x] = {}
      BY <1>2, <1>3
    <2> HIDE DEF D
    <2> QED BY <1>7, <1>12, <2>1
  <1>10. CASE c \in registered
    <2>1. \A x \in ChannelKey : [k \in ChannelKey |-> invitedUsers[k] \ {c}][x]
                                  = invitedUsers[x] \ {c}
      OBVIOUS
    <2>2. Abstract!Lose(c, ChannelKey, [k \in ChannelKey |-> invitedUsers[k] \ {c}])
      BY <1>3, <1>8, <1>9, <1>13, <2>1 DEF Abstract!Lose
    <2> QED BY <1>6, <1>10, <2>2 DEF Abstract!Depart
  <1>11. CASE c \notin registered
    <2>1. \A x \in ChannelKey : /\ members[x] \ {c} = members[x]
                                /\ operators[x] \ {c} = operators[x]
                                /\ invitedUsers[x] \ {c} = invitedUsers[x]
      BY <1>1, <1>11 DEF Core, LiveClients, OperatorsAreMembers
    <2>2. members' = members /\ operators' = operators
      BY <1>1, <1>3, <2>1 DEF TypeOK
    <2>3. \A x \in ChannelKey : x \notin D
      BY <1>1, <1>2, <1>11 DEF Core, LiveClients
    <2>4. invitedUsers' = invitedUsers
      BY <1>1, <1>7, <1>8, <2>1, <2>2 DEF TypeOK
    <2>5. inviteOnly' = inviteOnly
      BY <1>1, <1>5, <2>3 DEF TypeOK
    <2>6. userLimit' = userLimit /\ key' = key
      BY <1>1, <1>12, <2>3 DEF TypeOK
    <2> QED BY <1>6, <1>11, <2>2, <2>4, <2>5, <2>6 DEF Still
  <1> QED BY <1>10, <1>11

(* JOIN enters or changes nothing: a channel that does not exist has no    *)
(* modes, and its first member is its only operator.                       *)
LEMMA JoinEnters ==
  ASSUME IndInv, NEW c \in Client, NEW n, NEW p, Join(c, n, p)
  PROVE  Still \/ \E k \in ChannelKey : Abstract!Enter(c, k)
  <1>1. TypeOK /\ Core
    BY DEF IndInv
  <1>2. CASE \E code : Answer(c, code, NULL, Empty)
    BY <1>2, StillReply
  <1>3. CASE /\ n \in ChannelName
             /\ handleJoin(c, toLower(n), p)
             /\ UNCHANGED <<clients, registered, settings, frame>>
    <2> DEFINE k == toLower(n)
    <2>1. k \in ChannelKey
      BY <1>3, LowerIsKey
    <2>2. /\ c \in registered /\ registered' = registered
          /\ inviteOnly' = inviteOnly /\ userLimit' = userLimit /\ key' = key
      BY <1>3 DEF Join, Ready, settings
    <2>3. CASE UNCHANGED <<invitedUsers, invitedChannels, members, joinedChannels, operators>>
      BY <2>2, <2>3 DEF Still
    <2>4. CASE ~isMember(c, k) /\ ~inviteRefused(c, k) /\ ~isFull(k) /\ admit(c, k)
      <3>1. members' = [members EXCEPT ![k] = @ \cup {c}]
        BY <2>4 DEF admit
      <3>2. invitedUsers' = [invitedUsers EXCEPT ![k] = @ \ {c}]
        BY <2>4 DEF admit, consumeInvite
      <3>3. operators' = [operators EXCEPT ![k] = IF members[k] = {} THEN {c} ELSE @]
        <4>1. CASE members[k] = {}
          <5>1. operators[k] = {}
            BY <1>1, <2>1, <4>1 DEF Core, OperatorsAreMembers
          <5>2. operators' = [operators EXCEPT ![k] = @ \cup {c}]
            BY <2>4, <4>1 DEF admit
          <5> QED BY <4>1, <5>1, <5>2
        <4>2. CASE members[k] # {}
          <5>1. operators' = operators
            BY <2>4, <4>2 DEF admit
          <5> QED BY <1>1, <4>2, <5>1 DEF TypeOK
        <4> QED BY <4>1, <4>2
      <3>4. c \in registered \ members[k] /\ (inviteOnly[k] => c \in invitedUsers[k])
        BY <2>2, <2>4 DEF isMember, inviteRefused, isInvited
      <3>5. Abstract!Enter(c, k)
        <4>1. ~Abstract!Full(k)
          BY <2>4 DEF Abstract!Full, Abstract!Cardinality, isFull, Cardinality
        <4> QED BY <2>2, <3>1, <3>2, <3>3, <3>4, <4>1 DEF Abstract!Enter, Abstract!doors
      <3> QED BY <2>1, <3>5
    <2> QED BY <1>3, <2>3, <2>4 DEF handleJoin, refuse
  <1> QED BY <1>2, <1>3 DEF Join

(* INVITE is the abstract one: a member's, and an operator's when +i.      *)
LEMMA InviteInvites ==
  ASSUME IndInv, NEW c \in Client, NEW n, NEW p, Invite(c, p, n)
  PROVE  Still \/ \E d \in Client, k \in ChannelKey : Abstract!Invite(c, d, k)
  <1>1. CASE Ignore \/ \E code, k : Answer(c, code, k, Empty)
    BY <1>1, StillReply
  <1>2. CASE /\ findClientByNickname(p) # NULL /\ findChannel(n) # NULL
             /\ handleInvite(c, findClientByNickname(p), findChannel(n))
    <2> DEFINE d == findClientByNickname(p)
               k == findChannel(n)
    <2>1. d \in registered /\ d \in Client /\ k \in ChannelKey
      BY <1>2 DEF findClientByNickname, findChannel, IndInv, TypeOK
    <2>2. CASE /\ isMember(c, k) /\ mayInvite(c, k) /\ ~isMember(d, k)
               /\ invitedUsers' = [invitedUsers EXCEPT ![k] = @ \cup {d}]
               /\ UNCHANGED <<clients, registered, joinedChannels, channels, name,
                              members, operators, settings, frame>>
      <3>1. Abstract!Invite(c, d, k)
        BY <2>1, <2>2 DEF Abstract!Invite, Abstract!doors, isMember, mayInvite, isOperator,
                          settings
      <3> QED BY <2>1, <3>1
    <2> QED BY <1>1, <1>2, <2>2 DEF handleInvite
  <1> QED BY <1>1, <1>2 DEF Invite

(* A step of MODE sets the lock, the limit, the key or one operator, or    *)
(* nothing abstract.                                                       *)
LEMMA ModeSets ==
  ASSUME IndInv, ModeStep
  PROVE  \/ Still
         \/ \E c \in Client, k \in ChannelKey :
              \/ Abstract!SetLock(c, k) \/ Abstract!SetLimit(c, k) \/ Abstract!SetKey(c, k)
              \/ \E d \in Client : Abstract!SetOper(c, d, k)
  <1>0. TypeOK /\ Core /\ FramePointers
    BY DEF IndInv
  <1> DEFINE c == frame.client
             k == frame.chan
  <1>1. CASE Continue \/ (\E code : Complain(code)) \/ UNCHANGED <<clientVars, chanVars>>
    BY <1>1, StillReply
  <1>2. frame.op \in {"scan", "apply"} => c \in Client /\ k \in ChannelKey
    BY <1>0 DEF FramePointers, TypeOK
  <1>3. CASE ScanOperator
    <2>1. PICK d : \/ Continue \/ \E code : Complain(code)
                   \/ /\ isMember(d, k) /\ isOperator(c, k)
                      /\ isOperator(d, k) # frame.enable
                      /\ operators' = [operators EXCEPT ![k] =
                            IF frame.enable THEN @ \cup {d} ELSE @ \ {d}]
                      /\ UNCHANGED <<clientVars, channels, name, members, invitedUsers, settings>>
      BY <1>3 DEF ScanOperator, handleModeOperator, isTarget, mayChangeOperators
    <2>2. CASE /\ isMember(d, k) /\ isOperator(c, k)
               /\ isOperator(d, k) # frame.enable
               /\ operators' = [operators EXCEPT ![k] =
                     IF frame.enable THEN @ \cup {d} ELSE @ \ {d}]
               /\ UNCHANGED <<clientVars, channels, name, members, invitedUsers, settings>>
      <3>1. c \in Client /\ k \in ChannelKey
        BY <1>2, <1>3 DEF ScanOperator, Scanning
      <3>2. d \in Client
        BY <1>0, <2>2, <3>1 DEF isMember, TypeOK
      <3>3. frame.enable \in BOOLEAN
        BY <1>0 DEF TypeOK, Frame
      <3>4. operators' = [operators EXCEPT ![k] = IF d \in @ THEN @ \ {d} ELSE @ \cup {d}]
        <4>1. CASE frame.enable = TRUE
          <5>1. d \notin operators[k]
            BY <2>2, <4>1 DEF isOperator
          <5> QED BY <2>2, <4>1, <5>1
        <4>2. CASE frame.enable = FALSE
          <5>1. isOperator(d, k) # FALSE
            BY <2>2, <4>2
          <5>2. d \notin operators[k] => isOperator(d, k) = FALSE
            BY DEF isOperator
          <5>3. d \in operators[k]
            BY <5>1, <5>2
          <5> QED BY <2>2, <4>2, <5>3
        <4> QED BY <3>3, <4>1, <4>2
      <3>5. Abstract!SetOper(c, d, k)
        BY <2>2, <3>4 DEF Abstract!SetOper, Abstract!doors, isMember, isOperator, clientVars,
                          settings
      <3> QED BY <3>1, <3>2, <3>5
    <2> QED BY <1>1, <2>1, <2>2
  <1>4. CASE ApplyInviteOnly
    <2>1. CASE /\ inviteOnly[k] # frame.enable
               /\ inviteOnly' = [inviteOnly EXCEPT ![k] = frame.enable]
               /\ UNCHANGED <<clientVars, channels, name, members, operators,
                              invitedUsers, topic, key, userLimit, topicByOpOnly>>
      <3>1. c \in Client /\ k \in ChannelKey
        BY <1>2, <1>4 DEF ApplyInviteOnly, Applying
      <3>2. c \in operators[k]
        BY <1>0, <1>4 DEF ApplyInviteOnly, Applying, FramePointers, isOperator
      <3>3. frame.enable \in BOOLEAN /\ inviteOnly[k] \in BOOLEAN
        BY <1>0, <3>1 DEF TypeOK, Frame
      <3>4. frame.enable = ~inviteOnly[k]
        BY <2>1, <3>3
      <3>5. Abstract!SetLock(c, k)
        BY <2>1, <3>2, <3>4 DEF Abstract!SetLock, clientVars
      <3> QED BY <3>1, <3>5
    <2> QED BY <1>1, <1>4, <2>1 DEF ApplyInviteOnly
  <1>5. CASE ApplyTopic
    <2>1. \/ Continue
          \/ UNCHANGED <<clientVars, members, operators, invitedUsers, inviteOnly,
                         userLimit, key>>
      BY <1>5 DEF ApplyTopic
    <2> QED BY <1>1, <2>1 DEF Still, clientVars
  <1>7. CASE ApplyKey
    <2>1. c \in Client /\ k \in ChannelKey
      BY <1>2, <1>7 DEF ApplyKey, Applying
    <2>2. c \in operators[k]
      BY <1>0, <1>7 DEF ApplyKey, Applying, FramePointers, isOperator
    <2>3. ASSUME NEW w, setModeKey(w), w \in IF key[k] = Empty THEN ValidKey ELSE {Empty}
          PROVE  Abstract!SetKey(c, k)
      BY <2>2, <2>3 DEF Abstract!SetKey, setModeKey, clientVars
    <2>4. \/ Continue \/ (\E code : Complain(code))
          \/ \E w \in IF key[k] = Empty THEN ValidKey ELSE {Empty} : setModeKey(w)
      BY <1>7 DEF ApplyKey, isValidKey
    <2> QED BY <1>1, <2>1, <2>3, <2>4
  <1>8. CASE ApplyLimit
    <2> DEFINE L == {atoi[p] : p \in Numeral}
    <2>1. c \in Client /\ k \in ChannelKey
      BY <1>2, <1>8 DEF ApplyLimit, Applying
    <2>2. c \in operators[k]
      BY <1>0, <1>8 DEF ApplyLimit, Applying, FramePointers, isOperator
    <2>3. ASSUME NEW n \in L \cup {0}, setModeUserLimit(n)
          PROVE  Abstract!SetLimit(c, k)
      BY <2>2, <2>3 DEF Abstract!SetLimit, setModeUserLimit, clientVars
    <2>4. \/ Continue \/ (\E code : Complain(code))
          \/ \E n \in L \cup {0} : setModeUserLimit(n)
      BY <1>8 DEF ApplyLimit, parseLimit
    <2> QED BY <1>1, <2>1, <2>3, <2>4
  <1>6. CASE ScanSign \/ ScanUnknown \/ ScanMissing \/ ScanOverLimit \/ ScanFilter
               \/ ScanEnd \/ ApplySign \/ ApplyEnd
    BY <1>1, <1>6 DEF ScanSign, ScanUnknown, ScanMissing, ScanOverLimit, ScanFilter,
                      ScanEnd, ApplySign, ApplyEnd
  <1> QED BY <1>3, <1>4, <1>5, <1>6, <1>7, <1>8 DEF ModeStep

(* Channel::handlePart leaves, or only answers.                            *)
LEMMA PartLeaves ==
  ASSUME IndInv, NEW c \in Client, NEW k \in channels, handlePart(c, k)
  PROVE  Still \/ Abstract!Leave(c, k)
  <1>1. TypeOK /\ Core /\ k \in ChannelKey
    BY DEF IndInv, TypeOK
  <1> QED BY <1>1, LeaveLeaves, RefusalKeeps, StillReply DEF handlePart, isMember

(* Every command of a client is an abstract step or stutters.              *)
LEMMA CommandRefines ==
  ASSUME IndInv, NEW c \in Client, Command(c)
  PROVE  Still \/ Abstract!Next
  <1>0. TypeOK
    BY DEF IndInv
  <1>1. ASSUME NEW n, NEW p, Join(c, n, p)
        PROVE  Still \/ Abstract!Next
    BY <1>1, JoinEnters DEF Abstract!Next
  <1>2. ASSUME NEW n, Part(c, n)
        PROVE  Still \/ Abstract!Next
    <2>1. CASE \E code : Answer(c, code, NULL, Empty)
      BY <2>1, StillReply
    <2>2. CASE findChannel(n) # NULL /\ handlePart(c, findChannel(n))
      <3>1. findChannel(n) \in channels /\ findChannel(n) \in ChannelKey
        BY <1>0, <2>2 DEF findChannel, TypeOK
      <3> QED BY <2>2, <3>1, PartLeaves DEF Abstract!Next
    <2> QED BY <1>2, <2>1, <2>2 DEF Part
  <1>3. ASSUME NEW n, NEW p, Kick(c, n, p)
        PROVE  Still \/ Abstract!Next
    <2>1. CASE \E code, k : Answer(c, code, k, Empty)
      BY <2>1, StillReply
    <2>2. CASE findChannel(n) # NULL /\ kickUnknown(c, findChannel(n))
      BY <2>1, <2>2 DEF kickUnknown
    <2>3. CASE /\ findChannel(n) # NULL /\ findClientByNickname(p) # NULL
               /\ handleKick(c, findClientByNickname(p), findChannel(n))
      <3>1. /\ findChannel(n) \in channels /\ findChannel(n) \in ChannelKey
            /\ findClientByNickname(p) \in Client
        BY <1>0, <2>3 DEF findChannel, findClientByNickname, TypeOK
      <3>2. CASE /\ isMember(findClientByNickname(p), findChannel(n))
                 /\ Leave(findClientByNickname(p), findChannel(n))
        <4>1. Abstract!Leave(findClientByNickname(p), findChannel(n))
          BY <3>1, <3>2, LeaveLeaves DEF isMember
        <4> QED BY <3>1, <4>1 DEF Abstract!Next
      <3>3. CASE notOnChannel(c, findChannel(n))
        BY <3>1, <3>3, RefusalKeeps, StillReply DEF IndInv
      <3> QED BY <2>1, <2>3, <3>2, <3>3 DEF handleKick
    <2> QED BY <1>3, <2>1, <2>2, <2>3 DEF Kick
  <1>4. ASSUME NEW n, NEW t, TopicCmd(c, n, t)
        PROVE  Still
    <2>1. \/ \E code, k, arg : Answer(c, code, k, arg)
          \/ UNCHANGED <<clientVars, members, operators, invitedUsers, inviteOnly,
                         userLimit, key>>
      BY <1>4 DEF TopicCmd, handleTopic
    <2> QED BY <2>1, StillReply DEF Still, clientVars
  <1>5. ASSUME NEW n, NEW p, Invite(c, p, n)
        PROVE  Still \/ Abstract!Next
    BY <1>5, InviteInvites DEF Abstract!Next
  <1>6. ASSUME NEW x, NEW h, Privmsg(c, x, h) \/ NickChange(c)
        PROVE  Still
    BY <1>6, StillReply DEF Privmsg, NickChange, handleChannelPrivmsg, handlePersonalPrivmsg
  <1>7. ASSUME NEW n, NEW m, NEW p, Mode(c, n, m, p)
        PROVE  Still
    BY <1>7, StillReply DEF Mode
  <1>8. CASE JoinZero(c)
    BY <1>8, StillReply DEF JoinZero
  <1> QED BY <1>1, <1>2, <1>3, <1>4, <1>5, <1>6, <1>7, <1>8 DEF Command

(* Every step of the server is one of Membership, or shows nothing.        *)
LEMMA RefineStep ==
  ASSUME IndInv, [Next]_vars
  PROVE  Still \/ Abstract!Next
  <1>1. CASE UNCHANGED vars
    BY <1>1, StillReply DEF vars
  <1>2. ASSUME NEW c \in Client, Connect(c)
        PROVE  Still
    BY <1>2 DEF Still, Connect, chanVars, settings
  <1>3. ASSUME NEW c \in Client, Register(c)
        PROVE  Abstract!Next
    BY <1>3 DEF Abstract!Next, Abstract!Arrive, Abstract!doors, Register, chanVars, settings
  <1>4. ASSUME NEW c \in Client, Disconnect(c)
        PROVE  Still \/ Abstract!Next
    BY <1>4, DisconnectDeparts DEF Abstract!Next
  <1>5. ASSUME NEW n \in ChannelName, JoinZeroStep(n)
        PROVE  Still \/ Abstract!Next
    <2>1. frame.client \in Client /\ n \in joinedChannels[frame.client]
      BY <1>5 DEF JoinZeroStep, IndInv, FramePointers, TypeOK
    <2>2. toLower(n) \in channels /\ toLower(n) \in ChannelKey
      BY <2>1, LowerIsKey DEF IndInv, Core, JoinedIsMember, ChannelsInUse
    <2> QED BY <1>5, <2>1, <2>2, PartLeaves DEF JoinZeroStep, Abstract!Next
  <1>6. CASE JoinZeroEnd
    BY <1>6, StillReply DEF JoinZeroEnd
  <1>7. CASE ModeStep
    BY <1>7, ModeSets DEF Abstract!Next
  <1> QED BY <1>1, <1>2, <1>3, <1>4, <1>5, <1>6, <1>7, CommandRefines DEF Next

(* The channels keep what Membership promises, for every number of clients *)
(* and channels and whatever the commands carry: nobody enters an          *)
(* invite-only channel uninvited or twice on one invitation, nor a channel *)
(* whose limit is reached, only operators change operators, +i, the limit  *)
(* and the key, and nothing is left of a client that has gone or of a      *)
(* channel that was deleted.                                               *)
THEOREM ChannelsImplementMembership == Spec => Implements
  <1>1. Init => Abstract!Init
    BY DEF Init, Abstract!Init
  <1>2. IndInv /\ [Next]_vars => [Abstract!Next]_(Abstract!vars)
    BY RefineStep DEF Still, Abstract!vars, Abstract!doors
  <1> QED BY <1>1, <1>2, Inductive, PTL DEF Spec, Implements, Abstract!Spec

=============================================================================
