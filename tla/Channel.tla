------------------------------ MODULE Channel ------------------------------
(***************************************************************************)
(* The channels of the server: class Channel (channel/Channel.cpp), the    *)
(* channel registry of class Server (network/ChannelHandler.cpp) and the   *)
(* two pointer lists every Client keeps about channels (Client.cpp).       *)
(*                                                                         *)
(* A Client* is an element of Client: an address, which the allocator may  *)
(* hand out again once its Client was deleted.  A Channel* is an element   *)
(* of ChannelKey: the map key, which identifies the one Channel object     *)
(* registered under it.  A pointer left behind by a deleted object         *)
(* therefore silently denotes the next object at that place, which is the  *)
(* hazard most of the invariants of this development are about.            *)
(*                                                                         *)
(* A std::vector<Client*> is a set: every push_back of the source is       *)
(* guarded by a membership test and every removal is a std::remove of all  *)
(* copies, so a vector differs from a set only in its order.  The one      *)
(* unguarded push_back, Client::addInvitedChannel, is only reached behind  *)
(* the test of isInvited; a duplicate in it would have no effect.          *)
(***************************************************************************)
EXTENDS Naturals, FiniteSets, Sequences

CONSTANTS
  Client,        \* addresses of Client objects
  ChannelName,   \* well-formed channel names, in every spelling
  lower,         \* the lower-case form of every string, see toLower
  Param,         \* strings a command carries as key, limit or nickname
  ValidKey,      \* those isValidKey accepts
  Numeral,       \* those of one to nine digits
  atoi,          \* what std::atoi makes of a string
  Topic,         \* non-empty topics, as truncateUtf8 leaves them
  ModeLine,      \* the mode strings of a MODE command
  ParamLine,     \* the parameter lists that may follow a mode string
  Empty,         \* the empty string
  BadName,       \* a string isValidChannelName refuses
  NULL           \* a null pointer, or a parameter that is absent

(* The strings that commands carry.                                        *)
Text == ChannelName \cup Param \cup {BadName}

(* IrcText::toLower                                                        *)
toLower(s) == lower[s]

(* toLower is idempotent: findOrCreateChannel applies it twice.            *)
ASSUME NameAssumption ==
  /\ lower \in [Text -> Text]
  /\ \A n \in ChannelName : /\ toLower(n) \in ChannelName
                            /\ toLower(toLower(n)) = toLower(n)

(* A nickname is named by the client that carries it.                      *)
ASSUME ParamAssumption ==
  /\ Client \subseteq Param /\ ValidKey \subseteq Param
  /\ Numeral \subseteq Param /\ atoi \in [Param -> Nat]
  /\ Empty \notin Param

ASSUME NullAssumption == NULL \notin Client \cup ChannelName \cup Param

ChannelKey == {toLower(n) : n \in ChannelName}

VARIABLES
  \* class Server
  clients,          \* the Client objects in Server::_clients
  channels,         \* the keys of Server::_channels
  \* class Client, one entry per address
  registered,       \* the clients with _is_registered
  joinedChannels,   \* the keys (spelled names) of _joinedChannels
  invitedChannels,  \* _invitedChannels
  \* class Channel, one entry per registry key
  name, topic, key, userLimit, members, operators, invitedUsers,
  inviteOnly, topicByOpOnly,
  \* lines the last step appended to each client's _write_buffer
  sent,
  \* the command whose loop is in progress, or Idle
  frame

settings   == <<topic, key, userLimit, inviteOnly, topicByOpOnly>>
clientVars == <<clients, registered, joinedChannels, invitedChannels>>
chanVars   == <<channels, name, members, operators, invitedUsers, settings>>
vars       == <<clientVars, chanVars, sent, frame>>

-----------------------------------------------------------------------------
(* What is written to the clients.                                         *)

(* makeReply: a numeric of the server; makeCommand: a line of a client.    *)
makeReply(code, k, arg) == [from |-> NULL, cmd |-> code, chan |-> k, arg |-> arg]
makeCommand(c, cmd, k, arg) == [from |-> c, cmd |-> cmd, chan |-> k, arg |-> arg]

Quiet == [d \in Client |-> <<>>]
sendToOne(c, m) == [Quiet EXCEPT ![c] = <<m>>]
sendToAll(S, m) == [d \in Client |-> IF d \in S THEN <<m>> ELSE <<>>]

(* A command that only answers its sender.                                 *)
Answer(c, code, k, arg) ==
  /\ sent' = sendToOne(c, makeReply(code, k, arg))
  /\ UNCHANGED <<clientVars, chanVars, frame>>

Ignore ==
  /\ sent' = Quiet
  /\ UNCHANGED <<clientVars, chanVars, frame>>

-----------------------------------------------------------------------------
(* Queries.                                                                *)

(* Mutant: one member more than the limit gets in.                         *)
isFullOneLate(k) == userLimit[k] > 0 /\ Cardinality(members[k]) > userLimit[k]

isMember(c, k)   == c \in members[k]
isOperator(c, k) == c \in operators[k]
isInvited(c, k)  == c \in invitedUsers[k]
isFull(k)        == userLimit[k] > 0 /\ Cardinality(members[k]) >= userLimit[k]
checkKey(k, p)   == key[k] = p

findChannel(n) == IF toLower(n) \in channels THEN toLower(n) ELSE NULL
findClientByNickname(p) == IF p \in registered THEN p ELSE NULL

(* The channels a client reaches through its own _joinedChannels.          *)
joinedKeys(c) == {toLower(n) : n \in joinedChannels[c]}

IdleFrame ==
  [op |-> "idle", client |-> NULL, chan |-> NULL, todo |-> {},
   modes |-> <<>>, params |-> <<>>, enable |-> TRUE, paramModeCount |-> 0,
   lastSign |-> "none", out |-> <<>>, outParams |-> <<>>]

Idle == frame = IdleFrame

(* One thread runs every handler; dispatch asks for a registered client.   *)
Ready(c) == Idle /\ c \in registered

-----------------------------------------------------------------------------
(* Leaving a channel: removeMember, and the deletion of what it empties.   *)

(* Mutant: isEmpty() asked before the removal.                             *)
emptiedBefore(c, K) == {k \in K : members[k] = {}}

(* The channels of K that are empty once c has left them.                  *)
Emptied(c, K) == {k \in K : members[k] \subseteq {c}}

(* Mutant: clearInvitedUsers forgotten by deleteChannel.                   *)
clearNobody(D) == invitedChannels

(* Server::clearInvitedUsers for the channels of D: a new _invitedChannels *)
clearInvitedUsers(D) ==
  [d \in Client |-> IF d \in clients THEN invitedChannels[d] \ D
                                     ELSE invitedChannels[d]]

(* A vector of every channel of K after erase(remove(.., c)).              *)
Without(f, c, K) == [k \in ChannelKey |-> IF k \in K THEN f[k] \ {c} ELSE f[k]]

Reset(f, D, v) == [k \in ChannelKey |-> IF k \in D THEN v ELSE f[k]]

(* Server::deleteChannel for the channels of D.  The entry of a key that   *)
(* has no channel holds what the constructor will give the next one.       *)
deleteChannel(D) ==
  /\ channels' = channels \ D
  /\ topic' = Reset(topic, D, Empty)
  /\ key' = Reset(key, D, Empty)
  /\ userLimit' = Reset(userLimit, D, 0)
  /\ inviteOnly' = Reset(inviteOnly, D, FALSE)
  /\ topicByOpOnly' = Reset(topicByOpOnly, D, FALSE)
  /\ name' = [k \in ChannelKey |-> IF k \in D THEN k ELSE name[k]]

(* Mutant: the map entry erased under the registry's key, not the name.    *)
removeJoinedByKey(c, K) == [joinedChannels EXCEPT ![c] = @ \ K]

removeJoinedChannels(c, K) ==
  [joinedChannels EXCEPT ![c] = @ \ {name[k] : k \in K}]

(* Channel::removeMember of c in the channels of K.                        *)
removeMember(c, K) ==
  /\ members' = Without(members, c, K)
  /\ operators' = Without(operators, c, K)
  /\ joinedChannels' = removeJoinedChannels(c, K)

(* Server::deleteChannel with what it does to the invitations.             *)
deleteChannels(D) ==
  /\ deleteChannel(D)
  /\ invitedUsers' = Reset(invitedUsers, D, {})
  /\ invitedChannels' = clearInvitedUsers(D)

(* A PART or KICK of c: it leaves k, and k goes when that empties it.      *)
Leave(c, k) ==
  /\ removeMember(c, {k})
  /\ deleteChannels(Emptied(c, {k}))
  /\ UNCHANGED <<clients, registered>>

(* A PART or KICK refused because c is no member: isEmpty() is asked all   *)
(* the same, and true of a channel that a failed JOIN has left behind (see *)
(* ChannelFaults).                                                         *)
notOnChannel(c, k) ==
  /\ sent' = sendToOne(c, makeReply("442", k, Empty))
  /\ IF members[k] = {}
     THEN /\ deleteChannels({k})
          /\ UNCHANGED <<clients, registered, joinedChannels, members, operators>>
     ELSE UNCHANGED <<clientVars, chanVars>>

-----------------------------------------------------------------------------
(* JOIN                                                                    *)

(* What the joining client is told after its own JOIN line.                *)
Welcome(c, k) ==
  LET ops == IF members[k] = {} THEN {c} ELSE operators[k]
  IN  << IF topic[k] = Empty THEN makeReply("331", k, Empty)
                             ELSE makeReply("332", k, topic[k]),
         makeReply("353", k, [members |-> members[k] \cup {c}, operators |-> ops]),
         makeReply("366", k, Empty) >>

(* The gates of Channel::handleJoin, in the order they are tried.          *)
keyRefused(k, p)    == key[k] # Empty /\ ~checkKey(k, p)
inviteRefused(c, k) == inviteOnly[k] /\ ~isInvited(c, k)

(* findOrCreateChannel: a new object under key k keeps the spelling n.     *)
findOrCreateChannel(n, k) ==
  /\ channels' = channels \cup {k}
  /\ name' = IF k \in channels THEN name ELSE [name EXCEPT ![k] = n]

(* Mutant: the invitation survives the JOIN that used it.                  *)
keepInvite(c, k) == UNCHANGED <<invitedUsers, invitedChannels>>

(* Lines 213 and 214 of handleJoin: an invitation is used once.            *)
consumeInvite(c, k) ==
  /\ invitedUsers' = [invitedUsers EXCEPT ![k] = @ \ {c}]
  /\ invitedChannels' = [invitedChannels EXCEPT ![c] = @ \ {k}]

(* The rest of handleJoin: the first member becomes operator, and          *)
(* everybody, the newcomer included, is told.                              *)
admit(c, k) ==
  /\ consumeInvite(c, k)
  /\ members' = [members EXCEPT ![k] = @ \cup {c}]
  /\ joinedChannels' = [joinedChannels EXCEPT ![c] = @ \cup {name'[k]}]
  /\ operators' = IF members[k] = {} THEN [operators EXCEPT ![k] = @ \cup {c}]
                                     ELSE operators
  /\ sent' = [sendToAll(members[k], makeCommand(c, "JOIN", k, Empty))
                EXCEPT ![c] = <<makeCommand(c, "JOIN", k, Empty)>> \o Welcome(c, k)]

refuse(c, k, code) ==
  /\ sent' = sendToOne(c, makeReply(code, k, Empty))
  /\ UNCHANGED <<invitedUsers, invitedChannels, members, joinedChannels, operators>>

handleJoin(c, k, p) ==
  \/ /\ isMember(c, k)
     /\ sent' = Quiet
     /\ UNCHANGED <<invitedUsers, invitedChannels, members, joinedChannels, operators>>
  \/ /\ ~isMember(c, k)
     /\ \/ keyRefused(k, p) /\ refuse(c, k, "475")
        \/ ~keyRefused(k, p) /\ inviteRefused(c, k) /\ refuse(c, k, "473")
        \/ /\ ~keyRefused(k, p) /\ ~inviteRefused(c, k)
           /\ IF isFull(k) THEN refuse(c, k, "471") ELSE admit(c, k)

(* JOIN <n> [<p>]                                                          *)
Join(c, n, p) ==
  /\ Ready(c)
  /\ \/ n = NULL /\ Answer(c, "461", NULL, Empty)
     \/ n = BadName /\ Answer(c, "476", NULL, Empty)
     \/ /\ n \in ChannelName
        /\ findOrCreateChannel(n, toLower(n))
        /\ handleJoin(c, toLower(n), p)
        /\ UNCHANGED <<clients, registered, settings, frame>>

-----------------------------------------------------------------------------
(* PART, and JOIN 0, which parts from a copy of _joinedChannels one by one *)

handlePart(c, k) ==
  \/ ~isMember(c, k) /\ notOnChannel(c, k)
  \/ /\ isMember(c, k)
     /\ sent' = sendToAll(members[k], makeCommand(c, "PART", k, Empty))
     /\ Leave(c, k)

(* PART <n>                                                                *)
Part(c, n) ==
  /\ Ready(c)
  /\ \/ n = NULL /\ Answer(c, "461", NULL, Empty)
     \/ n # NULL /\ findChannel(n) = NULL /\ Answer(c, "403", NULL, Empty)
     \/ /\ n # NULL /\ findChannel(n) # NULL
        /\ handlePart(c, findChannel(n))
        /\ UNCHANGED frame

JoinZero(c) ==
  /\ Ready(c)
  /\ frame' = [IdleFrame EXCEPT !.op = "join0", !.client = c,
                                !.todo = joinedChannels[c]]
  /\ sent' = Quiet
  /\ UNCHANGED <<clientVars, chanVars>>

JoinZeroStep(n) ==
  /\ frame.op = "join0" /\ n \in frame.todo
  /\ handlePart(frame.client, toLower(n))
  /\ frame' = [frame EXCEPT !.todo = @ \ {n}]

JoinZeroEnd ==
  /\ frame.op = "join0" /\ frame.todo = {}
  /\ frame' = IdleFrame
  /\ sent' = Quiet
  /\ UNCHANGED <<clientVars, chanVars>>

-----------------------------------------------------------------------------
(* KICK <n> <p>, TOPIC <n> [<t>], INVITE <p> <n>                           *)

(* Mutant: announced after the removal, so the kicked client is missed.    *)
kickAudienceAfter(d, k) == members[k] \ {d}

(* Line 296: sendToAll comes before removeMember.                          *)
kickAudience(d, k) == members[k]

handleKick(c, d, k) ==
  \/ ~isMember(c, k) /\ notOnChannel(c, k) /\ UNCHANGED frame
  \/ isMember(c, k) /\ ~isOperator(c, k) /\ Answer(c, "482", k, Empty)
  \/ /\ isMember(c, k) /\ isOperator(c, k)
     /\ \/ ~isMember(d, k) /\ Answer(c, "441", k, Empty)
        \/ /\ isMember(d, k)
           /\ sent' = sendToAll(kickAudience(d, k), makeCommand(c, "KICK", k, d))
           /\ Leave(d, k)
           /\ UNCHANGED frame

(* Kick::execute answers for an unknown nickname what handleKick would     *)
(* answer for a client that is not a member, and returns.                  *)
kickUnknown(c, k) ==
  \/ ~isMember(c, k) /\ Answer(c, "442", k, Empty)
  \/ isMember(c, k) /\ ~isOperator(c, k) /\ Answer(c, "482", k, Empty)
  \/ isMember(c, k) /\ isOperator(c, k) /\ Answer(c, "441", k, Empty)

Kick(c, n, p) ==
  /\ Ready(c)
  /\ \/ n = NULL /\ Answer(c, "461", NULL, Empty)
     \/ n # NULL /\ findChannel(n) = NULL /\ Answer(c, "403", NULL, Empty)
     \/ /\ n # NULL /\ findChannel(n) # NULL
        /\ IF findClientByNickname(p) = NULL
           THEN kickUnknown(c, findChannel(n))
           ELSE handleKick(c, findClientByNickname(p), findChannel(n))

(* t = NULL: no topic parameter; t = Empty: the topic is cleared.          *)
handleTopic(c, k, t) ==
  \/ ~isMember(c, k) /\ Answer(c, "442", k, Empty)
  \/ /\ isMember(c, k) /\ t = NULL
     /\ IF topic[k] = Empty THEN Answer(c, "331", k, Empty)
                            ELSE Answer(c, "332", k, topic[k])
  \/ /\ isMember(c, k) /\ t # NULL
     /\ IF topicByOpOnly[k] /\ ~isOperator(c, k)
        THEN Answer(c, "482", k, Empty)
        ELSE /\ topic' = [topic EXCEPT ![k] = t]
             /\ sent' = sendToAll(members[k], makeCommand(c, "TOPIC", k, t))
             /\ UNCHANGED <<clientVars, channels, name, members, operators,
                            invitedUsers, key, userLimit, inviteOnly,
                            topicByOpOnly, frame>>

TopicCmd(c, n, t) ==
  /\ Ready(c)
  /\ \/ n = NULL /\ Answer(c, "461", NULL, Empty)
     \/ n # NULL /\ findChannel(n) = NULL /\ Answer(c, "403", NULL, Empty)
     \/ n # NULL /\ findChannel(n) # NULL /\ handleTopic(c, findChannel(n), t)

mayInvite(c, k) == ~inviteOnly[k] \/ isOperator(c, k)

handleInvite(c, d, k) ==
  \/ ~isMember(c, k) /\ Answer(c, "442", k, Empty)
  \/ isMember(c, k) /\ ~mayInvite(c, k) /\ Answer(c, "482", k, Empty)
  \/ /\ isMember(c, k) /\ mayInvite(c, k)
     /\ \/ isInvited(d, k) /\ Ignore
        \/ ~isInvited(d, k) /\ isMember(d, k) /\ Answer(c, "443", k, Empty)
        \/ /\ ~isInvited(d, k) /\ ~isMember(d, k)
           /\ invitedUsers' = [invitedUsers EXCEPT ![k] = @ \cup {d}]
           /\ invitedChannels' = [invitedChannels EXCEPT ![d] = @ \cup {k}]
           /\ sent' = [sendToOne(c, makeReply("341", k, d))
                         EXCEPT ![d] = <<makeCommand(c, "INVITE", k, d)>>]
           /\ UNCHANGED <<clients, registered, joinedChannels, channels, name,
                          members, operators, settings, frame>>

Invite(c, p, n) ==
  /\ Ready(c)
  /\ \/ n = NULL /\ Answer(c, "461", NULL, Empty)
     \/ n # NULL /\ findClientByNickname(p) = NULL /\ Answer(c, "401", NULL, Empty)
     \/ /\ n # NULL /\ findClientByNickname(p) # NULL
        /\ IF findChannel(n) = NULL
           THEN Answer(c, "403", NULL, Empty)
           ELSE handleInvite(c, findClientByNickname(p), findChannel(n))

-----------------------------------------------------------------------------
(* PRIVMSG <x> [<text>] and the notice of a registered client's NICK.      *)

handleChannelPrivmsg(c, k) ==
  IF ~isMember(c, k)
  THEN Answer(c, "404", k, Empty)
  ELSE /\ sent' = sendToAll(members[k] \ {c}, makeCommand(c, "PRIVMSG", k, Empty))
       /\ UNCHANGED <<clientVars, chanVars, frame>>

handlePersonalPrivmsg(c, d) ==
  /\ sent' = sendToOne(d, makeCommand(c, "PRIVMSG", NULL, Empty))
  /\ UNCHANGED <<clientVars, chanVars, frame>>

Privmsg(c, x, hasText) ==
  /\ Ready(c)
  /\ \/ x = NULL /\ Answer(c, "411", NULL, Empty)
     \/ x # NULL /\ ~hasText /\ Answer(c, "412", NULL, Empty)
     \/ x # NULL /\ hasText /\ findChannel(x) # NULL
        /\ handleChannelPrivmsg(c, findChannel(x))
     \/ /\ x # NULL /\ hasText /\ findChannel(x) = NULL
        /\ IF findClientByNickname(x) = NULL
           THEN Answer(c, "401", NULL, Empty)
           ELSE handlePersonalPrivmsg(c, findClientByNickname(x))

(* Everyone in a channel of c, found through _joinedChannels; the set      *)
(* `notified' of the source makes each of them receive one copy.           *)
Neighbours(c) == UNION {members[k] : k \in joinedKeys(c)} \cup {c}

broadcastNickChange(c) ==
  sendToAll(Neighbours(c), makeCommand(c, "NICK", NULL, Empty))

broadcastQuit(c) ==
  sendToAll(Neighbours(c) \ {c}, makeCommand(c, "QUIT", NULL, Empty))

NickChange(c) ==
  /\ Ready(c)
  /\ sent' = broadcastNickChange(c)
  /\ UNCHANGED <<clientVars, chanVars, frame>>

=============================================================================
