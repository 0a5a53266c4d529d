------------------------ MODULE ChannelFaultsProofs ------------------------
(***************************************************************************)
(* No handler that std::bad_alloc interrupts, at whatever assignment,      *)
(* leaves a pointer behind that is ever followed: FaultInv is inductive.   *)
(* The lemmas on types and on the frame of ChannelServer's own steps are   *)
(* used as they are; what changes is the invariant, since a channel        *)
(* without members and a one-sided membership or invitation may be left.   *)
(***************************************************************************)
EXTENDS ChannelFaults, ChannelServerProofs

(* The server starts with empty lists.                                     *)
LEMMA FaultStart == FaultInit => FaultInv
  <1> SUFFICES ASSUME Init PROVE FaultInv
    BY DEF FaultInit
  <1>1. TypeOK /\ NamesFold /\ FramePointers
    BY TypeInit, CoreInit DEF Core
  <1>2. LiveMembers /\ InvitedAreRecorded
    BY DEF Init, LiveMembers, InvitedAreRecorded
  <1>3. JoinedAreMembers
    BY DEF Init, JoinedAreMembers
  <1> QED BY <1>1, <1>2, <1>3 DEF FaultInv, FaultCore

-----------------------------------------------------------------------------
(* The types.                                                              *)

(* A handler that throws leaves write buffers and an idle frame.           *)
LEMMA ThrowType == ASSUME NEW c, Throw(c) PROVE frame' \in Frame /\ SentOK
  BY DEF Throw, IdleFrame, Frame, SentOK, Quiet

(* The deletion of channels keeps the type of what it changes.             *)
LEMMA TypeDeletes ==
  ASSUME TypeOK, NEW D, deleteChannels(D)
  PROVE  /\ deleteChannel(D)
         /\ invitedUsers' \in [ChannelKey -> SUBSET Client]
         /\ invitedChannels' \in [Client -> SUBSET ChannelKey]
  BY DEF deleteChannels, Reset, clearInvitedUsers, TypeOK

(* removeMember keeps the type of the three lists it changes.              *)
LEMMA TypeRemove ==
  ASSUME TypeOK, NEW c, NEW K, removeMember(c, K)
  PROVE  /\ members' \in [ChannelKey -> SUBSET Client]
         /\ operators' \in [ChannelKey -> SUBSET Client]
         /\ joinedChannels' \in [Client -> SUBSET ChannelName]
  <1>1. /\ members' \in [ChannelKey -> SUBSET Client]
        /\ operators' \in [ChannelKey -> SUBSET Client]
    BY DEF removeMember, Without, TypeOK
  <1>2. joinedChannels' \in [Client -> SUBSET ChannelName]
    BY DEF removeMember, removeJoinedChannels, TypeOK
  <1> QED BY <1>1, <1>2

(* Every step of a handler that throws keeps the type of the state.        *)
LEMMA TypeFaults ==
  ASSUME TypeOK, NEW c \in Client, Faults(c)
  PROVE  TypeOK'
  <1>1. CASE ThrowsEarly(c)
    BY <1>1, ThrowType, TypeAnswer DEF ThrowsEarly
  <1>2. ASSUME NEW n \in ChannelName, NEW p, NEW done \in 0..3, JoinThrows(c, n, p, done)
        PROVE  TypeOK'
    <2> DEFINE k == toLower(n)
    <2>1. k \in ChannelKey
      BY LowerIsKey
    <2>2. channels' \subseteq ChannelKey /\ name' \in [ChannelKey -> ChannelName]
      BY <1>2, <2>1 DEF JoinThrows, findOrCreateChannel, TypeOK
    <2>3. members' \in [ChannelKey -> SUBSET Client]
      <3>1. members' = members \/ members' = [members EXCEPT ![k] = @ \cup {c}]
        BY <1>2 DEF JoinThrows
      <3> QED BY <3>1 DEF TypeOK
    <2>4. operators' \in [ChannelKey -> SUBSET Client]
      <3>1. operators' = operators \/ operators' = [operators EXCEPT ![k] = @ \cup {c}]
        BY <1>2 DEF JoinThrows
      <3> QED BY <3>1 DEF TypeOK
    <2>5. joinedChannels' \in [Client -> SUBSET ChannelName]
      <3>1. name'[k] \in ChannelName
        BY <2>1, <2>2
      <3>2. \/ joinedChannels' = joinedChannels
            \/ joinedChannels' = [joinedChannels EXCEPT ![c] = @ \cup {name'[k]}]
        BY <1>2 DEF JoinThrows
      <3> QED BY <3>1, <3>2 DEF TypeOK
    <2>6. /\ invitedUsers' \in [ChannelKey -> SUBSET Client]
          /\ invitedChannels' \in [Client -> SUBSET ChannelKey]
      BY <1>2 DEF JoinThrows, consumeInvite, TypeOK
    <2>7. frame' \in Frame /\ SentOK
      BY <1>2, ThrowType DEF JoinThrows
    <2>8. UNCHANGED <<clients, registered, settings>>
      BY <1>2 DEF JoinThrows
    <2> QED BY <2>2, <2>3, <2>4, <2>5, <2>6, <2>7, <2>8 DEF TypeOK, settings, SentOK
  <1>3. ASSUME NEW k \in ChannelKey, LeaveThrows(c, k)
        PROVE  TypeOK'
    BY <1>3, TypeRemove, ThrowType DEF LeaveThrows, TypeOK, settings, SentOK
  <1>4. ASSUME NEW d \in Client, NEW k \in ChannelKey, InviteThrows(c, d, k)
        PROVE  TypeOK'
    <2>1. invitedUsers' \in [ChannelKey -> SUBSET Client] /\ invitedChannels' = invitedChannels
      BY <1>4 DEF InviteThrows, recordFirst, TypeOK
    <2> QED BY <1>4, <2>1, ThrowType DEF InviteThrows, TypeOK, settings, SentOK
  <1> QED BY <1>1, <1>2, <1>3, <1>4 DEF Faults

(* So does a cleanup that throws.                                          *)
LEMMA TypeDisconnectThrows ==
  ASSUME TypeOK, NEW c \in Client, NEW K, NEW D, DisconnectThrows(c, K, D)
  PROVE  TypeOK'
  <1>1. removeMember(c, K) /\ deleteChannels(D)
        /\ UNCHANGED <<clients, registered, frame>> /\ sent' = Quiet
    BY DEF DisconnectThrows
  <1>2. SentOK
    BY <1>1 DEF SentOK, Quiet
  <1> QED BY <1>1, <1>2, TypeRemove, TypeDeletes, TypeDelete DEF TypeOK, SentOK

(* TypeOK is inductive for the steps with failures as well.                *)
LEMMA FaultTypes == ASSUME TypeOK, [FaultNext]_faultVars PROVE TypeOK'
  <1>1. CASE UNCHANGED faultVars
    BY <1>1 DEF faultVars, vars, clientVars, chanVars, settings, TypeOK
  <1>2. CASE [Next]_vars
    BY <1>2, TypeStep
  <1>3. CASE LoopThrows
    BY <1>3, ThrowType, TypeAnswer DEF LoopThrows
  <1> QED BY <1>1, <1>2, <1>3, TypeFaults, TypeDisconnectThrows DEF FaultNext, Next
-----------------------------------------------------------------------------
(* The lists.                                                              *)

(* A step that changes no list of clients and no registry, and may change  *)
(* modes or make operators of members.                                     *)
LEMMA FaultStill ==
  ASSUME FaultCore,
         UNCHANGED <<clientVars, channels, name, members, invitedUsers>>,
         \A k \in ChannelKey : operators'[k] \subseteq members[k]
  PROVE  FaultCore'
  BY DEF FaultCore, LiveMembers, NamesFold, JoinedAreMembers, InvitedAreRecorded, clientVars

(* A step that only answers, or throws before it changes anything.         *)
LEMMA FaultAnswer ==
  ASSUME FaultCore, UNCHANGED <<clientVars, chanVars>>
  PROVE  FaultCore'
  <1>1. \A k \in ChannelKey : operators'[k] \subseteq members[k]
    BY DEF FaultCore, LiveMembers, chanVars
  <1> QED BY <1>1, FaultStill DEF chanVars

(* The commands that only answer, with an error, a notice or a message.    *)
LEMMA FaultReply ==
  ASSUME FaultCore,
         \/ \E c, code, k, arg : Answer(c, code, k, arg)
         \/ Ignore \/ Continue \/ \E code : Complain(code)
  PROVE  FaultCore'
  BY FaultAnswer DEF Answer, Ignore, Continue, Complain

(* c has left the channels of K, entry by entry.                           *)
LeftRight(c, K) ==
  /\ \A k \in ChannelKey :
       /\ members'[k] = IF k \in K THEN members[k] \ {c} ELSE members[k]
       /\ operators'[k] = IF k \in K THEN operators[k] \ {c} ELSE operators[k]
  /\ \A d \in Client :
       joinedChannels'[d] = IF d = c THEN joinedChannels[d] \ {name[k] : k \in K}
                                     ELSE joinedChannels[d]

(* removeMember and removeJoinedChannels do just that.                     *)
LEMMA LeavesRight ==
  ASSUME TypeOK, NEW c \in Client, NEW K, removeMember(c, K)
  PROVE  LeftRight(c, K)
  BY DEF removeMember, Without, removeJoinedChannels, TypeOK, LeftRight

(* What the deletion of the channels of D does, entry by entry.            *)
DeletedRight(D) ==
  /\ channels' = channels \ D
  /\ \A k \in ChannelKey :
       /\ name'[k] = IF k \in D THEN k ELSE name[k]
       /\ invitedUsers'[k] = IF k \in D THEN {} ELSE invitedUsers[k]
  /\ \A d \in Client : /\ invitedChannels'[d] \subseteq invitedChannels[d]
                       /\ d \in clients => invitedChannels'[d] \cap D = {}

(* deleteChannel and clearInvitedUsers do just that.                       *)
LEMMA DeletesRight ==
  ASSUME NEW D, deleteChannels(D)
  PROVE  DeletedRight(D)
  BY DEF deleteChannels, deleteChannel, Reset, clearInvitedUsers, DeletedRight

(* Departures from the channels of K, finished or interrupted.  Those of D *)
(* are deleted: nobody is left in them.  The names of a client's channels  *)
(* go with its membership, and every invitation to a deleted channel goes. *)
LEMMA FaultDepart ==
  ASSUME TypeOK, FaultCore, NEW c \in Client, NEW K, NEW D,
         LeftRight(c, K), DeletedRight(D),
         \A k \in ChannelKey : k \in D => members'[k] = {},
         UNCHANGED <<clients, registered>>
  PROVE  FaultCore'
  <1>1. LiveMembers'
    <2> SUFFICES ASSUME NEW k \in ChannelKey
                 PROVE  /\ operators'[k] \subseteq members'[k]
                        /\ members'[k] \subseteq registered
                        /\ members'[k] # {} => k \in channels'
      BY DEF FaultCore, LiveMembers
    <2>1. /\ operators[k] \subseteq members[k] /\ members[k] \subseteq registered
          /\ members[k] # {} => k \in channels
      BY DEF FaultCore, LiveMembers
    <2>2. operators'[k] \subseteq members'[k] /\ members'[k] \subseteq members[k]
      <3>1. CASE k \in K
        BY <2>1, <3>1 DEF LeftRight
      <3>2. CASE k \notin K
        BY <2>1, <3>2 DEF LeftRight
      <3> QED BY <3>1, <3>2
    <2>3. members'[k] # {} => k \in channels'
      BY <2>1, <2>2 DEF DeletedRight
    <2> QED BY <2>1, <2>2, <2>3
  <1>2. NamesFold'
    <2>1. \A x \in ChannelKey : toLower(x) = x
      BY NameAssumption DEF ChannelKey
    <2> QED BY <2>1 DEF FaultCore, NamesFold, DeletedRight
  <1>3. JoinedAreMembers'
    <2> SUFFICES ASSUME NEW d \in Client, NEW n \in ChannelName, n \in joinedChannels'[d]
                 PROVE  d \in members'[toLower(n)] /\ name'[toLower(n)] = n
      BY DEF JoinedAreMembers
    <2>1. toLower(n) \in ChannelKey
      BY LowerIsKey
    <2>2. n \in joinedChannels[d] /\ (d = c => n \notin {name[k] : k \in K})
      BY DEF LeftRight
    <2>3. d \in members[toLower(n)] /\ name[toLower(n)] = n
      BY <2>2 DEF FaultCore, JoinedAreMembers
    <2>4. toLower(n) \in K => d # c
      BY <2>2, <2>3
    <2>5. d \in members'[toLower(n)]
      BY <2>1, <2>3, <2>4 DEF LeftRight
    <2> QED BY <2>1, <2>3, <2>5 DEF DeletedRight
  <1>4. InvitedAreRecorded'
    BY DEF FaultCore, InvitedAreRecorded, DeletedRight
  <1> QED BY <1>1, <1>2, <1>3, <1>4 DEF FaultCore

(* PART and KICK.                                                          *)
LEMMA FaultLeave ==
  ASSUME TypeOK, FaultCore, NEW c \in Client, NEW k \in ChannelKey, Leave(c, k)
  PROVE  FaultCore'
  <1>1. LeftRight(c, {k}) /\ DeletedRight(Emptied(c, {k}))
    BY LeavesRight, DeletesRight DEF Leave
  <1>2. \A x \in ChannelKey : x \in Emptied(c, {k}) => members'[x] = {}
    BY <1>1 DEF LeftRight, Emptied
  <1> QED BY <1>1, <1>2, FaultDepart DEF Leave

(* A refused PART or KICK, which deletes a channel left empty.             *)
LEMMA FaultRefusal ==
  ASSUME TypeOK, FaultCore, NEW c \in Client, NEW k \in ChannelKey, notOnChannel(c, k)
  PROVE  FaultCore'
  <1>1. CASE /\ members[k] = {} /\ deleteChannels({k})
             /\ UNCHANGED <<clients, registered, joinedChannels, members, operators>>
    <2>1. LeftRight(c, {}) /\ DeletedRight({k})
      BY <1>1, DeletesRight DEF LeftRight
    <2> QED BY <1>1, <2>1, FaultDepart
  <1> QED BY <1>1, FaultAnswer DEF notOnChannel

(* PART or KICK by the last member, when deleteChannel throws.             *)
LEMMA FaultLeaveThrows ==
  ASSUME TypeOK, FaultCore, NEW c \in Client, NEW k \in ChannelKey, LeaveThrows(c, k)
  PROVE  FaultCore'
  <1>1. LeftRight(c, {k})
    BY LeavesRight DEF LeaveThrows
  <1>2. DeletedRight({})
    BY DEF LeaveThrows, DeletedRight
  <1> QED BY <1>1, <1>2, FaultDepart DEF LeaveThrows

(* A cleanup that throws, after some of the departures or deletions.       *)
LEMMA FaultDisconnectThrows ==
  ASSUME TypeOK, FaultCore, NEW c \in Client, NEW K, NEW D, DisconnectThrows(c, K, D)
  PROVE  FaultCore'
  <1>1. LeftRight(c, K) /\ DeletedRight(D)
    BY LeavesRight, DeletesRight DEF DisconnectThrows
  <1>2. D \subseteq Emptied(c, K)
    BY DEF DisconnectThrows
  <1>3. \A x \in ChannelKey : x \in D => members'[x] = {}
    BY <1>1, <1>2 DEF LeftRight, Emptied
  <1> QED BY <1>1, <1>3, FaultDepart DEF DisconnectThrows

(* A disconnection that is carried through: the client leaves every        *)
(* channel and takes its invitations with it.                              *)
LEMMA FaultDisconnect ==
  ASSUME TypeOK, FaultCore, NEW c \in Client, Disconnect(c)
  PROVE  FaultCore'
  <1> DEFINE K == {k \in channels : isMember(c, k)}
             D == Emptied(c, K)
  <1>1. \A x \in ChannelKey :
          /\ x \in K <=> c \in members[x]
          /\ x \in D <=> members[x] = {c}
    BY DEF Emptied, isMember, FaultCore, LiveMembers
  <1>2. \A x \in ChannelKey :
          /\ members'[x] = members[x] \ {c}
          /\ operators'[x] = operators[x] \ {c}
    <2>1. \A x \in ChannelKey :
            /\ members'[x] = IF x \in K THEN members[x] \ {c} ELSE members[x]
            /\ operators'[x] = IF x \in K THEN operators[x] \ {c} ELSE operators[x]
      BY DEF Disconnect, Without
    <2>2. \A x \in ChannelKey : operators[x] \subseteq members[x]
      BY DEF FaultCore, LiveMembers
    <2> QED BY <1>1, <2>1, <2>2
  <1>3. \A d \in Client : joinedChannels'[d] = IF d = c THEN {} ELSE joinedChannels[d]
    BY DEF Disconnect, TypeOK
  <1>4. /\ channels' = channels \ D
        /\ \A x \in ChannelKey : name'[x] = IF x \in D THEN x ELSE name[x]
    BY DEF Disconnect, deleteChannel
  <1>5. \A x \in ChannelKey, d \in Client :
          d \in invitedUsers[x] /\ x \notin D /\ d # c => d \in invitedUsers'[x]
    BY DEF Disconnect, removeMemberfromInvitedUsers, Reset, Without
  <1>6. \A d \in Client :
          /\ invitedChannels'[d] \subseteq invitedChannels[d]
          /\ d \in clients => invitedChannels'[d] \cap D = {}
          /\ invitedChannels'[c] = {}
    BY DEF Disconnect, clearInvitedUsers
  <1>7. clients' = clients \ {c} /\ registered' = registered \ {c}
    BY DEF Disconnect
  <1> HIDE DEF K, D
  <1>8. LiveMembers'
    <2> SUFFICES ASSUME NEW x \in ChannelKey
                 PROVE  /\ operators'[x] \subseteq members'[x]
                        /\ members'[x] \subseteq registered'
                        /\ members'[x] # {} => x \in channels'
      BY <1>7 DEF FaultCore, LiveMembers
    <2>1. /\ operators[x] \subseteq members[x] /\ members[x] \subseteq registered
          /\ members[x] # {} => x \in channels
      BY DEF FaultCore, LiveMembers
    <2> QED BY <1>1, <1>2, <1>4, <1>7, <2>1
  <1>9. NamesFold'
    <2>1. \A x \in ChannelKey : toLower(x) = x
      BY NameAssumption DEF ChannelKey
    <2> QED BY <1>4, <2>1 DEF FaultCore, NamesFold
  <1>10. JoinedAreMembers'
    <2> SUFFICES ASSUME NEW d \in Client, NEW n \in ChannelName, n \in joinedChannels'[d]
                 PROVE  d \in members'[toLower(n)] /\ name'[toLower(n)] = n
      BY DEF JoinedAreMembers
    <2>1. toLower(n) \in ChannelKey
      BY LowerIsKey
    <2>2. d # c /\ n \in joinedChannels[d]
      BY <1>3
    <2>3. d \in members[toLower(n)] /\ name[toLower(n)] = n
      BY <2>2 DEF FaultCore, JoinedAreMembers
    <2>4. toLower(n) \notin D
      BY <1>1, <2>1, <2>2, <2>3
    <2> QED BY <1>2, <1>4, <2>1, <2>2, <2>3, <2>4
  <1>11. InvitedAreRecorded'
    <2> SUFFICES ASSUME NEW d \in Client, NEW x \in ChannelKey, x \in invitedChannels'[d]
                 PROVE  d \in clients' /\ x \in channels' /\ d \in invitedUsers'[x]
      BY DEF InvitedAreRecorded
    <2>1. d # c /\ x \in invitedChannels[d]
      BY <1>6
    <2>2. d \in clients /\ x \in channels /\ d \in invitedUsers[x]
      BY <2>1 DEF FaultCore, InvitedAreRecorded
    <2>3. x \notin D
      BY <1>6, <2>2
    <2> QED BY <1>4, <1>5, <1>7, <2>1, <2>2, <2>3
  <1> QED BY <1>8, <1>9, <1>10, <1>11 DEF FaultCore

(* A new connection or registration.                                       *)
LEMMA FaultConnect ==
  ASSUME TypeOK, FaultCore, NEW c \in Client, Connect(c) \/ Register(c)
  PROVE  FaultCore'
  BY DEF Connect, Register, chanVars, settings, FaultCore, LiveMembers, NamesFold,
         JoinedAreMembers, InvitedAreRecorded

(* JOIN by c under the name n, refused, finished or interrupted: the       *)
(* channel exists afterwards, the client's own record of the membership    *)
(* and the operator status come after the channel's.                       *)
EnteredRight(c, n) ==
  LET k == toLower(n)
  IN  /\ findOrCreateChannel(n, k)
      /\ \A x \in ChannelKey :
           /\ members[x] \subseteq members'[x]
           /\ members'[x] \subseteq members[x] \cup (IF x = k THEN {c} ELSE {})
           /\ operators'[x] \subseteq
                operators[x] \cup (IF x = k /\ c \in members'[k] THEN {c} ELSE {})
      /\ \A d \in Client :
           joinedChannels'[d] \subseteq
             joinedChannels[d] \cup (IF d = c /\ c \in members'[k] THEN {name'[k]} ELSE {})
      /\ \A d \in Client, x \in ChannelKey :
           x \in invitedChannels'[d] =>
             x \in invitedChannels[d] /\ (d \in invitedUsers[x] => d \in invitedUsers'[x])
      /\ UNCHANGED <<clients, registered>>

(* Such a step keeps the lists right.                                      *)
LEMMA FaultEnter ==
  ASSUME TypeOK, FaultCore, NEW c \in Client, c \in registered,
         NEW n \in ChannelName, EnteredRight(c, n)
  PROVE  FaultCore'
  <1> DEFINE k == toLower(n)
  <1>1. k \in ChannelKey
    BY LowerIsKey
  <1>2. /\ channels' = channels \cup {k}
        /\ \A x \in ChannelKey : name'[x] = IF x = k /\ x \notin channels THEN n ELSE name[x]
    <2>1. \/ k \in channels /\ name' = name
          \/ k \notin channels /\ name' = [name EXCEPT ![k] = n]
      BY DEF EnteredRight, findOrCreateChannel
    <2>2. channels' = channels \cup {k}
      BY DEF EnteredRight, findOrCreateChannel
    <2> QED BY <2>1, <2>2 DEF TypeOK
  <1>3. LiveMembers'
    <2> SUFFICES ASSUME NEW x \in ChannelKey
                 PROVE  /\ operators'[x] \subseteq members'[x]
                        /\ members'[x] \subseteq registered'
                        /\ members'[x] # {} => x \in channels'
      BY DEF FaultCore, LiveMembers, EnteredRight
    <2>1. /\ operators[x] \subseteq members[x] /\ members[x] \subseteq registered
          /\ members[x] # {} => x \in channels
      BY DEF FaultCore, LiveMembers
    <2>2. /\ members[x] \subseteq members'[x]
          /\ members'[x] \subseteq members[x] \cup (IF x = k THEN {c} ELSE {})
          /\ operators'[x] \subseteq
               operators[x] \cup (IF x = k /\ c \in members'[k] THEN {c} ELSE {})
          /\ registered' = registered
      BY DEF EnteredRight
    <2>3. operators'[x] \subseteq members'[x]
      BY <2>1, <2>2
    <2>4. members'[x] \subseteq registered'
      BY <2>1, <2>2
    <2>5. members'[x] # {} => x \in channels'
      BY <1>2, <2>1, <2>2
    <2> QED BY <2>3, <2>4, <2>5
  <1>4. NamesFold'
    BY <1>2 DEF FaultCore, NamesFold
  <1>5. JoinedAreMembers'
    <2> SUFFICES ASSUME NEW d \in Client, NEW m \in ChannelName, m \in joinedChannels'[d]
                 PROVE  d \in members'[toLower(m)] /\ name'[toLower(m)] = m
      BY DEF JoinedAreMembers
    <2>1. toLower(m) \in ChannelKey
      BY LowerIsKey
    <2>2. CASE m \in joinedChannels[d]
      <3>1. d \in members[toLower(m)] /\ name[toLower(m)] = m
        BY <2>2 DEF FaultCore, JoinedAreMembers
      <3>2. toLower(m) \in channels
        BY <2>1, <3>1 DEF FaultCore, LiveMembers
      <3>3. members[toLower(m)] \subseteq members'[toLower(m)]
        BY <2>1 DEF EnteredRight
      <3> QED BY <1>2, <2>1, <3>1, <3>2, <3>3
    <2>3. CASE m \notin joinedChannels[d]
      <3>1. d = c /\ c \in members'[k] /\ m = name'[k]
        BY <2>3 DEF EnteredRight
      <3>2. toLower(m) = k
        BY <1>1, <1>4, <3>1 DEF NamesFold
      <3> QED BY <3>1, <3>2
    <2> QED BY <2>2, <2>3
  <1>6. InvitedAreRecorded'
    BY <1>2 DEF FaultCore, InvitedAreRecorded, EnteredRight
  <1> QED BY <1>3, <1>4, <1>5, <1>6 DEF FaultCore

(* JOIN, refused or not.                                                   *)
LEMMA FaultJoin ==
  ASSUME TypeOK, FaultCore, NEW c \in Client, NEW n, NEW p, Join(c, n, p)
  PROVE  FaultCore'
  <1>1. CASE \E code : Answer(c, code, NULL, Empty)
    BY <1>1, FaultReply
  <1>2. CASE /\ n \in ChannelName
             /\ findOrCreateChannel(n, toLower(n))
             /\ handleJoin(c, toLower(n), p)
             /\ UNCHANGED <<clients, registered, settings, frame>>
    <2> DEFINE k == toLower(n)
    <2>1. k \in ChannelKey /\ c \in registered
      BY <1>2, LowerIsKey DEF Join, Ready
    <2>2. CASE UNCHANGED <<invitedUsers, invitedChannels, members, joinedChannels, operators>>
      <3>1. EnteredRight(c, n)
        BY <1>2, <2>2 DEF EnteredRight
      <3> QED BY <1>2, <2>1, <3>1, FaultEnter
    <2>3. CASE admit(c, k)
      <3>1. \A x \in ChannelKey :
              /\ members'[x] = IF x = k THEN members[x] \cup {c} ELSE members[x]
              /\ invitedUsers'[x] = IF x = k THEN invitedUsers[x] \ {c} ELSE invitedUsers[x]
        BY <2>3 DEF admit, consumeInvite, TypeOK
      <3>2. \A x \in ChannelKey :
              operators'[x] \subseteq operators[x] \cup (IF x = k THEN {c} ELSE {})
        <4>1. \/ operators' = [operators EXCEPT ![k] = @ \cup {c}]
              \/ operators' = operators
          BY <2>3 DEF admit
        <4> QED BY <4>1 DEF TypeOK
      <3>3. \A d \in Client :
              invitedChannels'[d] = IF d = c THEN invitedChannels[d] \ {k}
                                             ELSE invitedChannels[d]
        BY <2>3 DEF admit, consumeInvite, TypeOK
      <3>4. \A d \in Client :
              joinedChannels'[d] = IF d = c THEN joinedChannels[d] \cup {name'[k]}
                                            ELSE joinedChannels[d]
        BY <2>3 DEF admit, TypeOK
      <3>5. EnteredRight(c, n)
        BY <1>2, <2>1, <3>1, <3>2, <3>3, <3>4 DEF EnteredRight
      <3> QED BY <1>2, <2>1, <3>5, FaultEnter
    <2> QED BY <1>2, <2>2, <2>3 DEF handleJoin, refuse
  <1> QED BY <1>1, <1>2 DEF Join

(* JOIN interrupted after any of its assignments.                          *)
LEMMA FaultJoinThrows ==
  ASSUME TypeOK, FaultCore, NEW c \in Client, NEW n \in ChannelName, NEW p,
         NEW done \in 0..3, JoinThrows(c, n, p, done)
  PROVE  FaultCore'
  <1> DEFINE k == toLower(n)
  <1>1. k \in ChannelKey /\ c \in registered
    BY LowerIsKey DEF JoinThrows, Ready
  <1>2. \A x \in ChannelKey :
          invitedUsers'[x] = IF x = k THEN invitedUsers[x] \ {c} ELSE invitedUsers[x]
    BY DEF JoinThrows, consumeInvite, TypeOK
  <1>3. \A d \in Client :
          invitedChannels'[d] = IF d = c THEN invitedChannels[d] \ {k}
                                         ELSE invitedChannels[d]
    BY DEF JoinThrows, consumeInvite, TypeOK
  <1>4. CASE done < 1
    <2>1. members' = members /\ joinedChannels' = joinedChannels /\ operators' = operators
      BY <1>4 DEF JoinThrows
    <2>2. EnteredRight(c, n)
      BY <1>2, <1>3, <2>1 DEF EnteredRight, JoinThrows
    <2> QED BY <1>1, <2>2, FaultEnter
  <1>5. CASE ~(done < 1)
    <2>1. \A x \in ChannelKey :
            members'[x] = IF x = k THEN members[x] \cup {c} ELSE members[x]
      BY <1>5 DEF JoinThrows, TypeOK
    <2>2. \A x \in ChannelKey :
            operators'[x] \subseteq operators[x] \cup (IF x = k THEN {c} ELSE {})
      <3>1. \/ operators' = [operators EXCEPT ![k] = @ \cup {c}]
            \/ operators' = operators
        BY DEF JoinThrows
      <3> QED BY <3>1 DEF TypeOK
    <2>3. \A d \in Client :
            joinedChannels'[d] \subseteq
              joinedChannels[d] \cup (IF d = c THEN {name'[k]} ELSE {})
      <3>1. \/ joinedChannels' = [joinedChannels EXCEPT ![c] = @ \cup {name'[k]}]
            \/ joinedChannels' = joinedChannels
        BY DEF JoinThrows
      <3> QED BY <3>1 DEF TypeOK
    <2>4. findOrCreateChannel(n, k) /\ UNCHANGED <<clients, registered>>
      BY DEF JoinThrows
    <2>5. EnteredRight(c, n)
      BY <1>1, <1>2, <1>3, <2>1, <2>2, <2>3, <2>4 DEF EnteredRight
    <2> QED BY <1>1, <2>5, FaultEnter
  <1> QED BY <1>4, <1>5

(* An invitation recorded on the channel's side, and perhaps on the        *)
(* client's.                                                               *)
LEMMA FaultRecord ==
  ASSUME TypeOK, FaultCore, NEW d \in registered, NEW k \in channels,
         invitedUsers' = [invitedUsers EXCEPT ![k] = @ \cup {d}],
         \/ invitedChannels' = [invitedChannels EXCEPT ![d] = @ \cup {k}]
         \/ invitedChannels' = invitedChannels,
         UNCHANGED <<clients, registered, joinedChannels, channels, name, members, operators>>
  PROVE  FaultCore'
  <1>1. d \in Client /\ k \in ChannelKey /\ d \in clients
    BY DEF TypeOK, FaultCore, LiveMembers
  <1>2. \A x \in ChannelKey :
          invitedUsers'[x] = IF x = k THEN invitedUsers[x] \cup {d} ELSE invitedUsers[x]
    BY <1>1 DEF TypeOK
  <1>3. \A e \in Client :
          invitedChannels'[e] \subseteq
            invitedChannels[e] \cup (IF e = d THEN {k} ELSE {})
    BY <1>1 DEF TypeOK
  <1>4. InvitedAreRecorded'
    BY <1>1, <1>2, <1>3 DEF FaultCore, InvitedAreRecorded
  <1>5. LiveMembers' /\ NamesFold' /\ JoinedAreMembers'
    BY DEF FaultCore, LiveMembers, NamesFold, JoinedAreMembers
  <1> QED BY <1>4, <1>5 DEF FaultCore

(* INVITE.                                                                 *)
LEMMA FaultInvite ==
  ASSUME TypeOK, FaultCore, NEW c, NEW p, NEW n, Invite(c, p, n)
  PROVE  FaultCore'
  <1>1. CASE Ignore \/ \E code, k : Answer(c, code, k, Empty)
    BY <1>1, FaultReply
  <1>2. CASE /\ findClientByNickname(p) # NULL /\ findChannel(n) # NULL
             /\ handleInvite(c, findClientByNickname(p), findChannel(n))
    <2>1. findClientByNickname(p) \in registered /\ findChannel(n) \in channels
      BY <1>2 DEF findClientByNickname, findChannel
    <2> QED BY <1>1, <1>2, <2>1, FaultRecord DEF handleInvite
  <1> QED BY <1>1, <1>2 DEF Invite

(* Channel::handlePart, refused or not.                                    *)
LEMMA FaultHandlePart ==
  ASSUME TypeOK, FaultCore, NEW c \in Client, NEW k \in ChannelKey, handlePart(c, k)
  PROVE  FaultCore'
  BY FaultLeave, FaultRefusal DEF handlePart

(* PART.                                                                   *)
LEMMA FaultPart ==
  ASSUME TypeOK, FaultCore, NEW c \in Client, NEW n, Part(c, n)
  PROVE  FaultCore'
  <1>1. CASE \E code : Answer(c, code, NULL, Empty)
    BY <1>1, FaultReply
  <1>2. CASE findChannel(n) # NULL /\ handlePart(c, findChannel(n))
    <2>1. findChannel(n) \in ChannelKey
      BY <1>2 DEF findChannel, TypeOK
    <2> QED BY <1>2, <2>1, FaultHandlePart
  <1> QED BY <1>1, <1>2 DEF Part

(* KICK.                                                                   *)
LEMMA FaultKick ==
  ASSUME TypeOK, FaultCore, NEW c \in Client, NEW n, NEW p, Kick(c, n, p)
  PROVE  FaultCore'
  <1>1. CASE \E code, k : Answer(c, code, k, Empty)
    BY <1>1, FaultReply
  <1>2. CASE kickUnknown(c, findChannel(n))
    BY <1>1, <1>2 DEF kickUnknown
  <1>3. CASE /\ findChannel(n) # NULL /\ findClientByNickname(p) # NULL
             /\ handleKick(c, findClientByNickname(p), findChannel(n))
    <2>1. findChannel(n) \in ChannelKey /\ findClientByNickname(p) \in Client
      BY <1>3 DEF findChannel, findClientByNickname, TypeOK
    <2> QED BY <1>1, <1>3, <2>1, FaultLeave, FaultRefusal DEF handleKick
  <1> QED BY <1>1, <1>2, <1>3 DEF Kick

(* The commands that change no list.                                       *)
LEMMA FaultOthers ==
  ASSUME TypeOK, FaultCore, NEW c,
         \/ \E n, t : TopicCmd(c, n, t)
         \/ \E x, h : Privmsg(c, x, h)
         \/ \E n, m, p : Mode(c, n, m, p)
         \/ NickChange(c) \/ JoinZero(c)
  PROVE  FaultCore'
  <1>1. CASE \E n, t : TopicCmd(c, n, t)
    <2>1. \/ \E code, k, arg : Answer(c, code, k, arg)
          \/ UNCHANGED <<clientVars, channels, name, members, operators, invitedUsers>>
      BY <1>1 DEF TopicCmd, handleTopic
    <2>2. CASE UNCHANGED <<clientVars, channels, name, members, operators, invitedUsers>>
      <3>1. \A k \in ChannelKey : operators'[k] \subseteq members[k]
        BY <2>2 DEF FaultCore, LiveMembers
      <3> QED BY <2>2, <3>1, FaultStill
    <2> QED BY <2>1, <2>2, FaultReply
  <1>2. CASE \E x, h : Privmsg(c, x, h)
    BY <1>2, FaultReply, FaultAnswer DEF Privmsg, handleChannelPrivmsg, handlePersonalPrivmsg
  <1>3. CASE \E n, m, p : Mode(c, n, m, p)
    BY <1>3, FaultReply DEF Mode
  <1>4. CASE NickChange(c) \/ JoinZero(c)
    BY <1>4, FaultAnswer DEF NickChange, JoinZero
  <1> QED BY <1>1, <1>2, <1>3, <1>4

(* The loops of MODE: an operator is made of a member only.                *)
LEMMA FaultModeStep ==
  ASSUME TypeOK, FaultCore, FramePointers, ModeStep
  PROVE  FaultCore'
  <1>0. \A k \in ChannelKey : operators[k] \subseteq members[k]
    BY DEF FaultCore, LiveMembers
  <1>1. CASE Continue \/ \E code : Complain(code)
    BY <1>1, FaultReply
  <1>2. CASE UNCHANGED <<clientVars, channels, name, members, operators, invitedUsers>>
    BY <1>0, <1>2, FaultStill
  <1>3. CASE ScanOperator
    <2> DEFINE d == findClientByNickname(Head(frame.params))
               k == frame.chan
    <2>1. CASE /\ isTarget(d, k)
               /\ operators' = [operators EXCEPT ![k] =
                                  IF frame.enable THEN @ \cup {d} ELSE @ \ {d}]
               /\ UNCHANGED <<clientVars, channels, name, members, invitedUsers, settings>>
      <3>1. \A x \in ChannelKey :
              operators'[x] \subseteq operators[x] \cup IF x = k THEN {d} ELSE {}
        BY <2>1 DEF TypeOK
      <3>2. \A x \in ChannelKey : operators'[x] \subseteq members[x]
        BY <1>0, <2>1, <3>1 DEF isTarget, isMember
      <3> QED BY <2>1, <3>2, FaultStill
    <2> QED BY <1>1, <1>3, <2>1 DEF ScanOperator, handleModeOperator
  <1>4. CASE ApplyInviteOnly \/ ApplyTopic \/ ApplyKey \/ ApplyLimit \/ ApplyEnd
    BY <1>1, <1>2, <1>4 DEF ApplyInviteOnly, ApplyTopic, ApplyKey, ApplyLimit, ApplyEnd,
                            setModeKey, setModeUserLimit, chanVars
  <1>5. CASE ScanSign \/ ScanUnknown \/ ScanMissing \/ ScanOverLimit \/ ScanFilter
               \/ ScanEnd \/ ApplySign
    BY <1>1, <1>5 DEF ScanSign, ScanUnknown, ScanMissing, ScanOverLimit, ScanFilter,
                      ScanEnd, ApplySign
  <1> QED BY <1>3, <1>4, <1>5 DEF ModeStep

(* JOIN 0: what is left of the copy is still joined, as without failures.  *)
LEMMA FaultJoinZero ==
  ASSUME TypeOK, FaultCore, FramePointers,
         (\E n \in ChannelName : JoinZeroStep(n)) \/ JoinZeroEnd
  PROVE  FaultCore' /\ FramePointers'
  <1>1. ASSUME NEW n \in ChannelName, JoinZeroStep(n)
        PROVE  FaultCore' /\ FramePointers'
    <2> DEFINE c == frame.client
               k == toLower(n)
    <2>1. /\ frame.op = "join0" /\ n \in frame.todo
          /\ c \in registered /\ c \in Client
          /\ frame.todo \subseteq joinedChannels[c]
      BY <1>1 DEF JoinZeroStep, FramePointers, TypeOK
    <2>2. frame'.op = "join0" /\ frame'.client = c /\ frame'.todo = frame.todo \ {n}
      BY <1>1 DEF JoinZeroStep, TypeOK, Frame
    <2>3. c \in members[k] /\ name[k] = n /\ k \in ChannelKey
      BY <2>1, LowerIsKey DEF FaultCore, JoinedAreMembers
    <2>4. Leave(c, k)
      BY <1>1, <2>3 DEF JoinZeroStep, handlePart, isMember
    <2>5. joinedChannels'[c] = joinedChannels[c] \ {n} /\ registered' = registered
      BY <2>1, <2>3, <2>4 DEF Leave, removeMember, removeJoinedChannels, TypeOK
    <2>6. FaultCore'
      BY <2>1, <2>3, <2>4, FaultLeave
    <2> QED BY <2>1, <2>2, <2>5, <2>6 DEF FramePointers
  <1>2. CASE JoinZeroEnd
    BY <1>2, IdlePointers, FaultAnswer DEF JoinZeroEnd
  <1> QED BY <1>1, <1>2

(* Every step of a handler that throws.                                    *)
LEMMA FaultThrows ==
  ASSUME TypeOK, FaultCore, NEW c \in Client, Faults(c)
  PROVE  FaultCore' /\ FramePointers'
  <1>1. FramePointers'
    BY IdlePointers DEF Faults, ThrowsEarly, JoinThrows, LeaveThrows, InviteThrows, Throw
  <1>2. CASE ThrowsEarly(c)
    BY <1>1, <1>2, FaultAnswer DEF ThrowsEarly
  <1>3. ASSUME NEW d \in Client, NEW k \in ChannelKey, InviteThrows(c, d, k)
        PROVE  FaultCore'
    BY <1>3, FaultRecord DEF InviteThrows, recordFirst
  <1> QED BY <1>1, <1>2, <1>3, FaultJoinThrows, FaultLeaveThrows DEF Faults

-----------------------------------------------------------------------------

(* A step of a client that is not interrupted.                             *)
LEMMA FaultCommand ==
  ASSUME TypeOK, FaultCore, NEW c \in Client, Command(c)
  PROVE  FaultCore' /\ FramePointers'
  <1>1. FramePointers'
    BY FrameOfCommands
  <1> QED BY <1>1, FaultJoin, FaultPart, FaultKick, FaultInvite, FaultOthers DEF Command

(* FaultInv holds in every reachable state.                                *)
LEMMA FaultInductive == FaultSpec => []FaultInv
  <1>1. FaultInv /\ [FaultNext]_faultVars => FaultInv'
    <2> SUFFICES ASSUME TypeOK, FaultCore, FramePointers, [FaultNext]_faultVars
                 PROVE  FaultCore' /\ FramePointers'
      BY FaultTypes DEF FaultInv
    <2>1. CASE UNCHANGED faultVars
      BY <2>1, FaultAnswer DEF faultVars, vars, clientVars, chanVars, FramePointers, isOperator
    <2>2. ASSUME NEW c \in Client, Connect(c) \/ Register(c) \/ Disconnect(c)
          PROVE  FaultCore' /\ FramePointers'
      BY <2>2, FaultConnect, FaultDisconnect, FrameOfCommands
    <2>3. ASSUME NEW c \in Client, NEW K, NEW D, DisconnectThrows(c, K, D)
          PROVE  FaultCore' /\ FramePointers'
      BY <2>3, FaultDisconnectThrows, IdlePointers DEF DisconnectThrows, Idle
    <2>4. CASE LoopThrows
      BY <2>4, FaultAnswer, IdlePointers DEF LoopThrows, Throw
    <2>5. CASE ModeStep
      BY <2>5, FaultModeStep, FrameOfMode
    <2>6. CASE (\E n \in ChannelName : JoinZeroStep(n)) \/ JoinZeroEnd
      BY <2>6, FaultJoinZero
    <2> QED BY <2>1, <2>2, <2>3, <2>4, <2>5, <2>6, FaultThrows, FaultCommand DEF FaultNext
  <1> QED BY <1>1, FaultStart, PTL DEF FaultSpec

(* Wherever a handler or the cleanup runs out of memory, every pointer     *)
(* that the server will still follow is to an object that exists: in       *)
(* sendToAll, in broadcastQuit, in JOIN 0, in MODE's loops and in          *)
(* removeClientFromAllChannels.                                            *)
THEOREM PointersSurviveFaults == FaultSpec => []PointersSurvive
  <1>1. FaultInv => PointersSurvive
    <2> SUFFICES ASSUME TypeOK, FaultCore, FramePointers PROVE PointersSurvive
      BY DEF FaultInv
    <2>1. ASSUME NEW c \in Client
          PROVE  joinedKeys(c) \cup invitedChannels[c] \subseteq channels
      <3>1. joinedChannels[c] \subseteq ChannelName /\ invitedChannels[c] \subseteq ChannelKey
        BY DEF TypeOK
      <3>2. \A n \in joinedChannels[c] : toLower(n) \in channels
        BY <3>1, LowerIsKey DEF FaultCore, JoinedAreMembers, LiveMembers
      <3>3. joinedKeys(c) \subseteq channels
        BY <3>2 DEF joinedKeys
      <3> QED BY <3>1, <3>3 DEF FaultCore, InvitedAreRecorded
    <2> QED BY <2>1 DEF PointersSurvive, FaultCore, LiveMembers, FramePointers
  <1> QED BY <1>1, FaultInductive, PTL

(* However far a handler came, what a client records of a channel is       *)
(* recorded by the channel too, and nobody is an operator of a channel he  *)
(* has left (the order of the assignments in addMember, handleInvite and   *)
(* removeMember).                                                          *)
THEOREM ChannelRecordsFirst == FaultSpec => []ChannelSideFirst
  <1>1. FaultInv => ChannelSideFirst
    <2> SUFFICES ASSUME TypeOK, FaultCore, NEW c \in Client, NEW k \in ChannelKey
                 PROVE  /\ name[k] \in joinedChannels[c] => c \in members[k]
                        /\ k \in invitedChannels[c] => c \in invitedUsers[k]
                        /\ c \in operators[k] => c \in members[k]
      BY DEF FaultInv, ChannelSideFirst
    <2>1. name[k] \in ChannelName /\ toLower(name[k]) = k
      BY DEF TypeOK, FaultCore, NamesFold
    <2> QED BY <2>1 DEF FaultCore, JoinedAreMembers, InvitedAreRecorded, LiveMembers
  <1> QED BY <1>1, FaultInductive, PTL

=============================================================================
