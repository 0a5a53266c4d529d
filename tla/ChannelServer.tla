---------------------------- MODULE ChannelServer ----------------------------
(***************************************************************************)
(* The channel side of the whole server: clients come, register and go     *)
(* (ServerConnection.cpp, Client.cpp, ServerDisconnect.cpp) while the      *)
(* registered ones run the channel commands of Channel and ModeCommand.    *)
(*                                                                         *)
(* One thread runs everything, so each handler is one step, except that    *)
(* the loops of MODE and of JOIN 0 take one step per iteration; `frame'    *)
(* keeps every other action out until such a loop has ended.               *)
(***************************************************************************)
EXTENDS ModeCommand

-----------------------------------------------------------------------------
(* Clients come and go.                                                    *)

(* acceptNewClient: a new Client, at an address that is free.              *)
Connect(c) ==
  /\ Idle /\ c \notin clients
  /\ clients' = clients \cup {c}
  /\ sent' = Quiet
  /\ UNCHANGED <<registered, joinedChannels, invitedChannels, chanVars, frame>>

(* tryCompleteRegistration, when PASS, NICK and USER are all in.           *)
Register(c) ==
  /\ Idle /\ c \in clients \ registered
  /\ registered' = registered \cup {c}
  /\ sent' = sendToOne(c, makeReply("001", NULL, Empty))
  /\ UNCHANGED <<clients, joinedChannels, invitedChannels, chanVars, frame>>

(* The last loop of removeClientFromAllChannels: it goes through the       *)
(* invitations that clearInvitedUsers has left to the client.              *)
removeMemberfromInvitedUsers(c, D) ==
  Reset(Without(invitedUsers, c, invitedChannels[c]), D, {})

(* Server::disconnect: the QUIT goes out first, then the client leaves     *)
(* every channel that lists it, then its invitations, then the object.     *)
Disconnect(c) ==
  /\ Idle /\ c \in clients
  /\ LET K == {k \in channels : isMember(c, k)}
         D == Emptied(c, K)
     IN  /\ members' = Without(members, c, K)
         /\ operators' = Without(operators, c, K)
         /\ deleteChannel(D)
         /\ invitedUsers' = removeMemberfromInvitedUsers(c, D)
         /\ invitedChannels' = [clearInvitedUsers(D) EXCEPT ![c] = {}]
  /\ sent' = IF c \in registered THEN broadcastQuit(c) ELSE Quiet
  /\ clients' = clients \ {c}
  /\ registered' = registered \ {c}
  /\ joinedChannels' = [joinedChannels EXCEPT ![c] = {}]
  /\ UNCHANGED frame

-----------------------------------------------------------------------------
(* The specification.                                                      *)

ChannelArg == ChannelName \cup {BadName, NULL}

Command(c) ==
  \/ \E n \in ChannelArg, p \in Param \cup {Empty} : Join(c, n, p)
  \/ JoinZero(c)
  \/ \E n \in ChannelArg : Part(c, n)
  \/ \E n \in ChannelArg, p \in Param : Kick(c, n, p)
  \/ \E n \in ChannelArg, t \in Topic \cup {Empty, NULL} : TopicCmd(c, n, t)
  \/ \E n \in ChannelArg, p \in Param : Invite(c, p, n)
  \/ \E x \in ChannelArg \cup Param, hasText \in BOOLEAN : Privmsg(c, x, hasText)
  \/ \E n \in ChannelArg, m \in ModeLine, p \in ParamLine : Mode(c, n, m, p)
  \/ NickChange(c)

Init ==
  /\ clients = {} /\ registered = {} /\ channels = {}
  /\ joinedChannels = [c \in Client |-> {}]
  /\ invitedChannels = [c \in Client |-> {}]
  /\ name = [k \in ChannelKey |-> k]
  /\ topic = [k \in ChannelKey |-> Empty]
  /\ key = [k \in ChannelKey |-> Empty]
  /\ userLimit = [k \in ChannelKey |-> 0]
  /\ members = [k \in ChannelKey |-> {}]
  /\ operators = [k \in ChannelKey |-> {}]
  /\ invitedUsers = [k \in ChannelKey |-> {}]
  /\ inviteOnly = [k \in ChannelKey |-> FALSE]
  /\ topicByOpOnly = [k \in ChannelKey |-> FALSE]
  /\ sent = Quiet
  /\ frame = IdleFrame

Next ==
  \/ \E c \in Client : Connect(c) \/ Register(c) \/ Disconnect(c) \/ Command(c)
  \/ \E n \in ChannelName : JoinZeroStep(n)
  \/ JoinZeroEnd
  \/ ModeStep

Spec == Init /\ [][Next]_vars

-----------------------------------------------------------------------------
(* Properties.                                                             *)

Frame ==
  [op : {"idle", "join0", "scan", "apply"}, client : Client \cup {NULL},
   chan : ChannelKey \cup {NULL}, todo : SUBSET ChannelName,
   modes : Seq(ModeChar), params : Seq(Param), enable : BOOLEAN,
   paramModeCount : 0..3, lastSign : Sign \cup {"none"},
   out : Seq(ModeChar), outParams : Seq(Param)]

(* Every variable keeps its type: in particular a channel key is one that  *)
(* isValidKey accepts and a MODE command never counts past three           *)
(* parameters.                                                             *)
TypeOK ==
  /\ clients \subseteq Client /\ registered \subseteq Client
  /\ channels \subseteq ChannelKey
  /\ joinedChannels \in [Client -> SUBSET ChannelName]
  /\ invitedChannels \in [Client -> SUBSET ChannelKey]
  /\ name \in [ChannelKey -> ChannelName]
  /\ topic \in [ChannelKey -> Topic \cup {Empty}]
  /\ key \in [ChannelKey -> ValidKey \cup {Empty}]
  /\ userLimit \in [ChannelKey -> Nat]
  /\ members \in [ChannelKey -> SUBSET Client]
  /\ operators \in [ChannelKey -> SUBSET Client]
  /\ invitedUsers \in [ChannelKey -> SUBSET Client]
  /\ inviteOnly \in [ChannelKey -> BOOLEAN]
  /\ topicByOpOnly \in [ChannelKey -> BOOLEAN]
  /\ sent = [d \in Client |-> sent[d]]
  /\ frame \in Frame

(* No raw pointer outlives its object: what a channel lists are registered *)
(* clients, what a client lists are channels of the registry, and the      *)
(* pointers a running MODE or JOIN 0 holds (Mode.cpp:35, Join.cpp:49) are  *)
(* to objects that still exist.                                            *)
NoDanglingPointer ==
  /\ registered \subseteq clients
  /\ \A k \in ChannelKey :
       members[k] \cup operators[k] \cup invitedUsers[k] \subseteq registered
  /\ \A c \in Client : joinedKeys(c) \cup invitedChannels[c] \subseteq channels
  /\ frame.op # "idle" => frame.client \in registered
  /\ frame.op \in {"scan", "apply"} => frame.chan \in channels
  /\ \A n \in frame.todo : toLower(n) \in channels

(* A client and a channel always agree on who is in: _joinedChannels holds *)
(* exactly the spelled names of the channels whose _members list it.       *)
MembershipAgrees ==
  \A c \in Client :
    joinedChannels[c] = {name[k] : k \in {x \in channels : c \in members[x]}}

(* Only members are channel operators: removeMember takes the status away, *)
(* and MODE gives it to members only.                                      *)
OperatorsAreMembers == \A k \in ChannelKey : operators[k] \subseteq members[k]

(* The two records of an invitation agree, and a member holds none: it     *)
(* was consumed by the JOIN (Channel.cpp:213), so it cannot be used again  *)
(* after a KICK.                                                           *)
InvitesAgree ==
  \A c \in Client, k \in ChannelKey :
    /\ c \in invitedUsers[k] <=> k \in invitedChannels[c]
    /\ c \in invitedUsers[k] => c \notin members[k]

(* A channel exists only while somebody is in it: the last one out deletes *)
(* it, and a refused JOIN never leaves behind the channel that             *)
(* findOrCreateChannel has just created (Join.cpp:65).                     *)
NoEmptyChannel == \A k \in channels : members[k] # {}

(* What Mode::execute copies for Channel::handleMode is well-formed: no    *)
(* letter but i, t, k and l, and a parameter for every +k and +l, so the   *)
(* branches of handleMode for the other cases (489, 520, 540) are dead.    *)
NoBranchLeft ==
  frame.op = "apply" /\ frame.modes # <<>> =>
    /\ Head(frame.modes) \notin {"o", "x"}
    /\ Head(frame.modes) \in {"k", "l"} /\ frame.enable => frame.params # <<>>

(* The inductive form of NoBranchLeft: in what Mode::execute has copied so *)
(* far, and in what handleMode has left to read, every k and l read under  *)
(* a + has a parameter of its own, and they come in the same order.        *)
(* `plus' says which sign a letter is read under, `on' being the sign in   *)
(* force before the first.                                                 *)
plus(ms, on, j) ==
  \/ on /\ \A m \in 1..(j - 1) : ms[m] # "-"
  \/ \E h \in 1..(j - 1) : ms[h] = "+" /\ \A m \in (h + 1)..(j - 1) : ms[m] # "-"

Wanting(ms, on) == {j \in 1..Len(ms) : ms[j] \in {"k", "l"} /\ plus(ms, on, j)}

Matched(W, n) == \E f \in [W -> 1..n] : \A a, b \in W : a < b => f[a] < f[b]

Supplied(ms, on, ps) == Matched(Wanting(ms, on), Len(ps))

Plain(ms) == \A j \in 1..Len(ms) : ms[j] \notin {"o", "x"}

(* handleMode starts under a +, and Mode::execute's record of the sign it  *)
(* wrote last is the sign that handleMode will then be under.              *)
initially == TRUE

LastIs(ms, last) ==
  /\ last = "none" => ms = <<>>
  /\ last = "+" => plus(ms, initially, Len(ms) + 1)
  /\ last = "-" => ~plus(ms, initially, Len(ms) + 1)

LettersInv ==
  /\ frame.op = "scan" =>
       /\ Plain(frame.out) /\ Supplied(frame.out, initially, frame.outParams)
       /\ LastIs(frame.out, frame.lastSign)
  /\ frame.op = "apply" =>
       Plain(frame.modes) /\ Supplied(frame.modes, frame.enable, frame.params)

(* The inductive form of the invariants above, pair by pair, with what     *)
(* they need: a key without a channel holds what the constructor gives,    *)
(* which is why the first JOIN is never refused, and a channel is          *)
(* registered under the lower-case form of its name.                       *)
LiveClients ==
  /\ registered \subseteq clients
  /\ \A k \in ChannelKey : members[k] \cup invitedUsers[k] \subseteq registered

ChannelsInUse ==
  \A k \in ChannelKey :
    /\ k \in channels <=> members[k] # {}
    /\ k \notin channels => /\ invitedUsers[k] = {}
                            /\ key[k] = Empty /\ userLimit[k] = 0 /\ ~inviteOnly[k]

NamesFold == \A k \in ChannelKey : toLower(name[k]) = k

JoinedIsMember ==
  \A c \in Client, n \in ChannelName :
    n \in joinedChannels[c] <=> c \in members[toLower(n)] /\ name[toLower(n)] = n

FramePointers ==
  /\ frame.op # "idle" => frame.client \in registered
  /\ frame.op \in {"scan", "apply"} => frame.chan \in channels
  /\ frame.op = "apply" => isOperator(frame.client, frame.chan)
  /\ IF frame.op = "join0" THEN frame.todo \subseteq joinedChannels[frame.client]
                           ELSE frame.todo = {}

Core == /\ LiveClients /\ OperatorsAreMembers /\ InvitesAgree /\ ChannelsInUse
        /\ NamesFold /\ JoinedIsMember

IndInv == TypeOK /\ Core /\ FramePointers

(* A channel that has lost its last operator stays as it is until it is    *)
(* empty: nobody becomes operator and no mode changes, and the topic does  *)
(* not either when it is restricted.  A MODE line may take the operator    *)
(* status of the very client that runs it and go on (Channel.cpp:556).     *)
FrozenWithoutOperators ==
  [][\A k \in channels \cap channels' :
       operators[k] = {} =>
         /\ operators'[k] = {}
         /\ inviteOnly'[k] = inviteOnly[k] /\ topicByOpOnly'[k] = topicByOpOnly[k]
         /\ key'[k] = key[k] /\ userLimit'[k] = userLimit[k]
         /\ topicByOpOnly[k] => topic'[k] = topic[k]]_vars

=============================================================================
