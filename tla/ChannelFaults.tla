--------------------------- MODULE ChannelFaults ----------------------------
(***************************************************************************)
(* ChannelServer when memory runs out: std::bad_alloc leaves a handler     *)
(* between two of its assignments.  The handler of Server::run marks the   *)
(* client whose line was executed ("Internal error"); what was already     *)
(* assigned stays.  cleanupDisconnected may fail in the same way, and then *)
(* forgets the mark (Server.cpp:107).                                      *)
(*                                                                         *)
(* Which lines were queued before the exception is left out: a step that   *)
(* throws is shown as sending nothing.                                     *)
(***************************************************************************)
EXTENDS ChannelServer

VARIABLE broken   \* the clients marked with "Internal error"

faultVars == <<vars, broken>>

(* The handler of c has thrown.                                            *)
Throw(c) ==
  /\ broken' = broken \cup {c}
  /\ frame' = IdleFrame
  /\ sent' = Quiet

-----------------------------------------------------------------------------
(* An allocation fails before the handler of c has changed anything.       *)
ThrowsEarly(c) ==
  /\ Ready(c)
  /\ Throw(c)
  /\ UNCHANGED <<clientVars, chanVars>>

(* An iteration of MODE or JOIN 0 fails; those before it keep their effect.*)
LoopThrows ==
  /\ ~Idle
  /\ Throw(frame.client)
  /\ UNCHANGED <<clientVars, chanVars>>

(* JOIN fails in _members.push_back (done = 0), addJoinedChannels (1),     *)
(* addOperator (2) or when the members are told (3).                       *)
JoinThrows(c, n, p, done) ==
  LET k == toLower(n)
  IN  /\ Ready(c)
      /\ findOrCreateChannel(n, k)
      /\ ~isMember(c, k) /\ ~keyRefused(k, p) /\ ~inviteRefused(c, k) /\ ~isFull(k)
      /\ consumeInvite(c, k)
      /\ members' = IF done < 1 THEN members ELSE [members EXCEPT ![k] = @ \cup {c}]
      /\ joinedChannels' = IF done < 2 THEN joinedChannels
                           ELSE [joinedChannels EXCEPT ![c] = @ \cup {name'[k]}]
      /\ operators' = IF done < 3 \/ members[k] # {} THEN operators
                      ELSE [operators EXCEPT ![k] = @ \cup {c}]
      /\ Throw(c)
      /\ UNCHANGED <<clients, registered, settings>>

(* PART, or KICK of oneself, by the last member: deleteChannel fails.      *)
LeaveThrows(c, k) ==
  /\ Ready(c) /\ k \in channels /\ members[k] = {c}
  /\ removeMember(c, {k})
  /\ Throw(c)
  /\ UNCHANGED <<clients, registered, invitedChannels, channels, name, invitedUsers,
                 settings>>

(* Mutant: the client's list is written first.                             *)
recordOnClient(d, k) ==
  /\ invitedChannels' = [invitedChannels EXCEPT ![d] = @ \cup {k}]
  /\ UNCHANGED invitedUsers

(* Line 355 of handleInvite, the first of the two records.                 *)
recordFirst(d, k) ==
  /\ invitedUsers' = [invitedUsers EXCEPT ![k] = @ \cup {d}]
  /\ UNCHANGED invitedChannels

(* INVITE fails in addInvitedChannel.                                      *)
InviteThrows(c, d, k) ==
  /\ Ready(c) /\ d \in registered /\ k \in channels
  /\ isMember(c, k) /\ mayInvite(c, k) /\ ~isInvited(d, k) /\ ~isMember(d, k)
  /\ recordFirst(d, k)
  /\ Throw(c)
  /\ UNCHANGED <<clients, registered, joinedChannels, channels, name, members,
                 operators, settings>>

(* disconnect fails for c, when it has left the channels of K (emptied.    *)
(* push_back) and, if those are all, the empty ones of D are deleted       *)
(* (deleteChannel, the copy of getInvitedChannels).  The mark is lost.     *)
DisconnectThrows(c, K, D) ==
  LET mine == {k \in channels : isMember(c, k)}
  IN  /\ Idle /\ c \in clients
      /\ K \subseteq mine /\ D \subseteq Emptied(c, K) /\ (K # mine => D = {})
      /\ removeMember(c, K)
      /\ deleteChannels(D)
      /\ broken' = broken \ {c}
      /\ sent' = Quiet
      /\ UNCHANGED <<clients, registered, frame>>

Faults(c) ==
  \/ ThrowsEarly(c)
  \/ \E n \in ChannelName, p \in Param \cup {Empty}, done \in 0..3 :
       JoinThrows(c, n, p, done)
  \/ \E k \in ChannelKey : LeaveThrows(c, k)
  \/ \E d \in Client, k \in ChannelKey : InviteThrows(c, d, k)

FaultInit == Init /\ broken = {}

(* No line of a marked client is read (receiveData's loop asks isMarked),  *)
(* and the marks are handled before the next connection is accepted.       *)
FaultNext ==
  \/ \E c \in Client \ broken :
       \/ Faults(c)
       \/ (Register(c) \/ Command(c)) /\ UNCHANGED broken
  \/ \E c \in Client : broken = {} /\ Connect(c) /\ UNCHANGED broken
  \/ \E c \in Client : Disconnect(c) /\ broken' = broken \ {c}
  \/ \E c \in Client, K \in SUBSET ChannelKey, D \in SUBSET ChannelKey :
       DisconnectThrows(c, K, D)
  \/ LoopThrows
  \/ ModeStep /\ UNCHANGED broken
  \/ \E n \in ChannelName : JoinZeroStep(n) /\ UNCHANGED broken
  \/ JoinZeroEnd /\ UNCHANGED broken

FaultSpec == FaultInit /\ [][FaultNext]_faultVars

-----------------------------------------------------------------------------
(* Wherever a handler or the cleanup is interrupted, no pointer that is    *)
(* ever followed outlives its object: the members of a channel (sendToAll),*)
(* the channels a client has joined (broadcastQuit, JOIN 0) and those it   *)
(* was invited to (removeClientFromAllChannels).  _operators and           *)
(* _invitedUsers are only compared with live addresses.                    *)
PointersSurvive ==
  /\ registered \subseteq clients
  /\ \A k \in ChannelKey : members[k] \subseteq registered
  /\ \A c \in Client : joinedKeys(c) \cup invitedChannels[c] \subseteq channels
  /\ frame.op # "idle" => frame.client \in registered
  /\ frame.op \in {"scan", "apply"} => frame.chan \in channels

(* What a client records of a channel is never more than what the channel  *)
(* records of the client, and nobody keeps operator rights in a channel    *)
(* after leaving it: addMember and handleInvite write the channel's side   *)
(* first, removeMember takes both away without allocating.                 *)
ChannelSideFirst ==
  \A c \in Client, k \in ChannelKey :
    /\ name[k] \in joinedChannels[c] => c \in members[k]
    /\ k \in invitedChannels[c] => c \in invitedUsers[k]
    /\ c \in operators[k] => c \in members[k]

(* The inductive form of the two invariants.  What JOIN 0 still has to     *)
(* leave is joined (FramePointers); a channel without members may be left  *)
(* behind, and so may a record in _invitedUsers that the client lacks.     *)
LiveMembers ==
  /\ registered \subseteq clients
  /\ \A k \in ChannelKey : /\ operators[k] \subseteq members[k]
                           /\ members[k] \subseteq registered
                           /\ members[k] # {} => k \in channels

JoinedAreMembers ==
  \A c \in Client, n \in ChannelName :
    n \in joinedChannels[c] => c \in members[toLower(n)] /\ name[toLower(n)] = n

InvitedAreRecorded ==
  \A c \in Client, k \in ChannelKey :
    k \in invitedChannels[c] => c \in clients /\ k \in channels /\ c \in invitedUsers[k]

FaultCore == LiveMembers /\ NamesFold /\ JoinedAreMembers /\ InvitedAreRecorded

FaultInv == TypeOK /\ FaultCore /\ FramePointers

=============================================================================
