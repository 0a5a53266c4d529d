-------------------------- MODULE ChannelViewProofs --------------------------
(***************************************************************************)
(* What the members of a channel are told, for every set of clients,       *)
(* names, parameters and mode lines.  Whatever a step changes in a         *)
(* channel, the lines of the same step tell those who are in it            *)
(* afterwards, so that each of them knows it exactly (MirrorExact).  And   *)
(* a MODE line, which the code reads one letter at a time over several     *)
(* steps, does what one reading of the whole line says (TwoReadings) and   *)
(* is announced as what it did (Announced).                                *)
(***************************************************************************)
EXTENDS ChannelView, ModeReference, ChannelServerProofs, RecursionProofs,
        SequenceTheorems

(* What d should believe about k once a step is done.                      *)
After(d, k) ==
  IF d \in members'[k]
  THEN [roster |-> members'[k], ops |-> operators'[k], topic |-> topic'[k]]
  ELSE NoView

(* The lines a view of k looks at, and a step that sends d none of them.   *)
Says(m, k) ==
  \/ m.cmd \in {"JOIN", "PART", "KICK", "MODEO", "TOPIC", "331", "332"} /\ m.chan = k
  \/ m.cmd = "QUIT" /\ m.chan = NULL

Mute(d, k) == \A m \in Lines(d) : ~Says(m, k)

View(r, o, t) == [roster |-> r, ops |-> o, topic |-> t]

-----------------------------------------------------------------------------
(* What the lines of a step are.                                           *)

LEMMA NoLines == ASSUME NEW d, sent'[d] = <<>> PROVE Lines(d) = {}
  BY DEF Lines

LEMMA OneLine == ASSUME NEW d, NEW m, sent'[d] = <<m>> PROVE Lines(d) = {m}
  BY DEF Lines

LEMMA Four ==
  ASSUME NEW a, NEW b, NEW x, NEW y
  PROVE  <<a>> \o <<b, x, y>> = <<a, b, x, y>>
  <1> DEFINE S == {a, b, x, y}
             s == <<a>> \o <<b, x, y>>
             t == <<a, b, x, y>>
  <1>1. <<a>> \in Seq(S) /\ <<b, x, y>> \in Seq(S) /\ t \in Seq(S)
    OBVIOUS
  <1>2. s \in Seq(S) /\ Len(s) = 4 /\ Len(t) = 4
    BY <1>1
  <1>3. s[1] = a /\ s[2] = b /\ s[3] = x /\ s[4] = y
    BY <1>1
  <1>4. \A i \in 1..4 : s[i] = t[i]
    BY <1>3
  <1> QED BY <1>1, <1>2, <1>4, SeqEqual

LEMMA FourLines ==
  ASSUME NEW d, NEW a, NEW b, NEW x, NEW y, sent'[d] = <<a, b, x, y>>
  PROVE  Lines(d) = {a, b, x, y}
  BY DEF Lines

(* A step that sends everyone nothing, or one client one line.             *)
LEMMA QuietLines == ASSUME sent' = Quiet, NEW d \in Client PROVE Lines(d) = {}
  BY NoLines DEF Quiet

LEMMA ToOne ==
  ASSUME NEW c \in Client, NEW m, sent' = sendToOne(c, m), NEW d \in Client
  PROVE  Lines(d) = IF d = c THEN {m} ELSE {}
  BY NoLines, OneLine DEF sendToOne, Quiet

LEMMA ToAll ==
  ASSUME NEW S, NEW m, sent' = sendToAll(S, m), NEW d \in Client
  PROVE  Lines(d) = IF d \in S THEN {m} ELSE {}
  BY NoLines, OneLine DEF sendToAll

-----------------------------------------------------------------------------
(* How a view changes.                                                     *)

LEMMA PromotedNone ==
  ASSUME NEW d, NEW k, NEW e, Of(d, "MODEO", k) = {}
  PROVE  Promoted(d, k, e) = {}
  BY DEF Promoted

LEMMA PromotedOne ==
  ASSUME NEW d, NEW k, NEW e, NEW m, Of(d, "MODEO", k) = {m}
  PROVE  Promoted(d, k, e) = IF m.arg.enable = e THEN {m.arg.who} ELSE {}
  BY DEF Promoted

(* Without a line about k the view of k stays.                             *)
LEMMA ViewStays ==
  ASSUME NEW d \in Client, NEW k \in ChannelKey, MirrorExact, Mute(d, k)
  PROVE  Watch(d, k) = mirror[d][k]
  <1> DEFINE v == mirror[d][k]
  <1>1. /\ Of(d, "JOIN", k) = {} /\ Of(d, "PART", k) = {} /\ Of(d, "KICK", k) = {}
        /\ Of(d, "QUIT", NULL) = {} /\ Of(d, "MODEO", k) = {} /\ Of(d, "TOPIC", k) = {}
        /\ Of(d, "331", k) = {} /\ Of(d, "332", k) = {}
    BY DEF Of, Mute, Says
  <1>2. ~Entered(d, k) /\ Gone(d, k) = {} /\ {m.from : m \in Of(d, "JOIN", k)} = {}
    BY <1>1 DEF Entered, Gone
  <1>3. Promoted(d, k, TRUE) = {} /\ Promoted(d, k, FALSE) = {}
    BY <1>1, PromotedNone, Zenon
  <1>4. TopicOf(d, k, v.topic) = v.topic
    BY <1>1 DEF TopicOf
  <1>5. v = View(v.roster, v.ops, v.topic)
    <2>1. CASE v = NoView
      BY <2>1 DEF NoView, View
    <2>2. CASE v = [roster |-> members[k], ops |-> operators[k], topic |-> topic[k]]
      BY <2>2 DEF View
    <2> QED BY <2>1, <2>2 DEF MirrorExact
  <1>6. Watch(d, k) = IF v = NoView THEN NoView
                      ELSE View((v.roster \cup {}) \ {}, ((v.ops \cup {}) \ {}) \ {}, v.topic)
    <2>1. d \notin Gone(d, k)
      BY <1>2
    <2> QED BY <1>2, <1>3, <1>4, <2>1, Zenon DEF Watch, View
  <1>7. (v.roster \cup {}) \ {} = v.roster /\ ((v.ops \cup {}) \ {}) \ {} = v.ops
    OBVIOUS
  <1> QED BY <1>5, <1>6, <1>7, Zenon

(* With one line, each of the sets a view is computed from is that line or *)
(* nothing.                                                                *)
LEMMA OfOne ==
  ASSUME NEW d, NEW m, Lines(d) = {m}, NEW cmd, NEW k
  PROVE  Of(d, cmd, k) = IF m.cmd = cmd /\ m.chan = k THEN {m} ELSE {}
  BY DEF Of

(* A line that tells of a departure: PART, QUIT or KICK.                   *)
LEMMA ViewGone ==
  ASSUME NEW d \in Client, NEW k \in ChannelKey, MirrorExact,
         NEW m, Lines(d) = {m}, NEW c,
         \/ m.cmd = "PART" /\ m.chan = k /\ m.from = c
         \/ m.cmd = "KICK" /\ m.chan = k /\ m.arg = c
         \/ m.cmd = "QUIT" /\ m.chan = NULL /\ m.from = c
  PROVE  Watch(d, k) =
           IF mirror[d][k] = NoView \/ d = c THEN NoView
           ELSE View(mirror[d][k].roster \ {c}, mirror[d][k].ops \ {c}, mirror[d][k].topic)
  <1> DEFINE v == mirror[d][k]
  <1>1. /\ Of(d, "JOIN", k) = {} /\ Of(d, "MODEO", k) = {} /\ Of(d, "TOPIC", k) = {}
        /\ Of(d, "331", k) = {} /\ Of(d, "332", k) = {}
    BY OfOne
  <1>2. Gone(d, k) = {c}
    <2>1. CASE m.cmd = "PART" /\ m.chan = k /\ m.from = c
      <3>1. Of(d, "PART", k) = {m} /\ Of(d, "QUIT", NULL) = {} /\ Of(d, "KICK", k) = {}
        BY <2>1, OfOne
      <3> QED BY <2>1, <3>1 DEF Gone
    <2>2. CASE m.cmd = "KICK" /\ m.chan = k /\ m.arg = c
      <3>1. Of(d, "PART", k) = {} /\ Of(d, "QUIT", NULL) = {} /\ Of(d, "KICK", k) = {m}
        BY <2>2, OfOne
      <3> QED BY <2>2, <3>1 DEF Gone
    <2>3. CASE m.cmd = "QUIT" /\ m.chan = NULL /\ m.from = c
      <3>1. Of(d, "PART", k) = {} /\ Of(d, "QUIT", NULL) = {m} /\ Of(d, "KICK", k) = {}
        BY <2>3, OfOne
      <3> QED BY <2>3, <3>1 DEF Gone
    <2> QED BY <2>1, <2>2, <2>3
  <1>3. ~Entered(d, k) /\ {x.from : x \in Of(d, "JOIN", k)} = {}
    BY <1>1 DEF Entered
  <1>4. Promoted(d, k, TRUE) = {} /\ Promoted(d, k, FALSE) = {}
    BY <1>1, PromotedNone, Zenon
  <1>5. TopicOf(d, k, v.topic) = v.topic
    BY <1>1 DEF TopicOf
  <1>6. Watch(d, k) = IF v = NoView \/ d \in {c} THEN NoView
                      ELSE View((v.roster \cup {}) \ {c}, ((v.ops \cup {}) \ {}) \ {c}, v.topic)
    BY <1>2, <1>3, <1>4, <1>5, Zenon DEF Watch, View
  <1>7. (v.roster \cup {}) \ {c} = v.roster \ {c} /\ ((v.ops \cup {}) \ {}) \ {c} = v.ops \ {c}
    OBVIOUS
  <1>8. d \in {c} <=> d = c
    OBVIOUS
  <1> QED BY <1>6, <1>7, <1>8, Zenon

(* A JOIN line of somebody else.                                           *)
LEMMA ViewJoined ==
  ASSUME NEW d \in Client, NEW k \in ChannelKey, MirrorExact,
         NEW c, c # d, NEW m, m = makeCommand(c, "JOIN", k, Empty), Lines(d) = {m}
  PROVE  Watch(d, k) =
           IF mirror[d][k] = NoView THEN NoView
           ELSE View(mirror[d][k].roster \cup {c}, mirror[d][k].ops, mirror[d][k].topic)
  <1> DEFINE v == mirror[d][k]
  <1>0. m.cmd = "JOIN" /\ m.chan = k /\ m.from = c
    BY DEF makeCommand
  <1>1. /\ Of(d, "JOIN", k) = {m} /\ Of(d, "MODEO", k) = {} /\ Of(d, "TOPIC", k) = {}
        /\ Of(d, "331", k) = {} /\ Of(d, "332", k) = {} /\ Of(d, "PART", k) = {}
        /\ Of(d, "QUIT", NULL) = {} /\ Of(d, "KICK", k) = {}
    BY <1>0, OfOne
  <1>2. Gone(d, k) = {}
    BY <1>1 DEF Gone
  <1>3. ~Entered(d, k) /\ {x.from : x \in Of(d, "JOIN", k)} = {c}
    BY <1>0, <1>1 DEF Entered
  <1>4. Promoted(d, k, TRUE) = {} /\ Promoted(d, k, FALSE) = {}
    BY <1>1, PromotedNone, Zenon
  <1>5. TopicOf(d, k, v.topic) = v.topic
    BY <1>1 DEF TopicOf
  <1>6. Watch(d, k) = IF v = NoView THEN NoView
                      ELSE View((v.roster \cup {c}) \ {}, ((v.ops \cup {}) \ {}) \ {}, v.topic)
    <2>1. d \notin Gone(d, k)
      BY <1>2
    <2> QED BY <1>2, <1>3, <1>4, <1>5, <2>1, Zenon DEF Watch, View
  <1>7. (v.roster \cup {c}) \ {} = v.roster \cup {c} /\ ((v.ops \cup {}) \ {}) \ {} = v.ops
    OBVIOUS
  <1> QED BY <1>6, <1>7, Zenon

(* A line about an operator.                                               *)
LEMMA ViewOper ==
  ASSUME NEW d \in Client, NEW k \in ChannelKey, MirrorExact, NEW c, NEW e, NEW w,
         e \in BOOLEAN, NEW m,
         m = makeCommand(c, "MODEO", k, [enable |-> e, who |-> w]), Lines(d) = {m}
  PROVE  Watch(d, k) =
           IF mirror[d][k] = NoView THEN NoView
           ELSE View(mirror[d][k].roster,
                     IF e THEN mirror[d][k].ops \cup {w} ELSE mirror[d][k].ops \ {w},
                     mirror[d][k].topic)
  <1> DEFINE v == mirror[d][k]
  <1>0. m.cmd = "MODEO" /\ m.chan = k /\ m.arg.enable = e /\ m.arg.who = w
    BY DEF makeCommand
  <1>1. /\ Of(d, "JOIN", k) = {} /\ Of(d, "MODEO", k) = {m} /\ Of(d, "TOPIC", k) = {}
        /\ Of(d, "331", k) = {} /\ Of(d, "332", k) = {} /\ Of(d, "PART", k) = {}
        /\ Of(d, "QUIT", NULL) = {} /\ Of(d, "KICK", k) = {}
    BY <1>0, OfOne
  <1>2. Gone(d, k) = {}
    BY <1>1 DEF Gone
  <1>3. ~Entered(d, k) /\ {x.from : x \in Of(d, "JOIN", k)} = {}
    BY <1>1 DEF Entered
  <1>4. \A b : Promoted(d, k, b) = IF m.arg.enable = b THEN {m.arg.who} ELSE {}
    BY <1>1, PromotedOne, Zenon
  <1>5. TopicOf(d, k, v.topic) = v.topic
    BY <1>1 DEF TopicOf
  <1>6. Watch(d, k) = IF v = NoView THEN NoView
                      ELSE View((v.roster \cup {}) \ {},
                                ((v.ops \cup Promoted(d, k, TRUE)) \ Promoted(d, k, FALSE)) \ {},
                                v.topic)
    <2>1. d \notin Gone(d, k)
      BY <1>2
    <2> QED BY <1>2, <1>3, <1>5, <2>1, Zenon DEF Watch, View
  <1>7. (v.roster \cup {}) \ {} = v.roster
    OBVIOUS
  <1>8. ((v.ops \cup Promoted(d, k, TRUE)) \ Promoted(d, k, FALSE)) \ {}
          = IF e THEN v.ops \cup {w} ELSE v.ops \ {w}
    <2>1. CASE e = TRUE
      <3>1. Promoted(d, k, TRUE) = {w} /\ Promoted(d, k, FALSE) = {}
        BY <1>0, <1>4, <2>1, Zenon
      <3>2. ((v.ops \cup {w}) \ {}) \ {} = v.ops \cup {w}
        OBVIOUS
      <3> QED BY <2>1, <3>1, <3>2, Zenon
    <2>2. CASE e = FALSE
      <3>1. Promoted(d, k, TRUE) = {} /\ Promoted(d, k, FALSE) = {w}
        BY <1>0, <1>4, <2>2, Zenon
      <3>2. ((v.ops \cup {}) \ {w}) \ {} = v.ops \ {w}
        OBVIOUS
      <3> QED BY <2>2, <3>1, <3>2, Zenon
    <2> QED BY <2>1, <2>2
  <1> QED BY <1>6, <1>7, <1>8, Zenon

(* A line about the topic.                                                 *)
LEMMA ViewTopic ==
  ASSUME NEW d \in Client, NEW k \in ChannelKey, MirrorExact, NEW m, Lines(d) = {m},
         m.cmd \in {"TOPIC", "331", "332"}, m.chan = k
  PROVE  Watch(d, k) = IF mirror[d][k] = NoView THEN NoView
                       ELSE View(mirror[d][k].roster, mirror[d][k].ops, m.arg)
  <1> DEFINE v == mirror[d][k]
  <1>1. /\ Of(d, "JOIN", k) = {} /\ Of(d, "MODEO", k) = {} /\ Of(d, "PART", k) = {}
        /\ Of(d, "QUIT", NULL) = {} /\ Of(d, "KICK", k) = {}
        /\ Of(d, "TOPIC", k) \cup Of(d, "332", k) \cup Of(d, "331", k) = {m}
    BY OfOne
  <1>2. Gone(d, k) = {}
    BY <1>1 DEF Gone
  <1>3. ~Entered(d, k) /\ {x.from : x \in Of(d, "JOIN", k)} = {}
    BY <1>1 DEF Entered
  <1>4. Promoted(d, k, TRUE) = {} /\ Promoted(d, k, FALSE) = {}
    BY <1>1, PromotedNone, Zenon
  <1>5. TopicOf(d, k, v.topic) = m.arg
    BY <1>1 DEF TopicOf
  <1>6. Watch(d, k) = IF v = NoView THEN NoView
                      ELSE View((v.roster \cup {}) \ {}, ((v.ops \cup {}) \ {}) \ {}, m.arg)
    <2>1. d \notin Gone(d, k)
      BY <1>2
    <2> QED BY <1>2, <1>3, <1>4, <1>5, <2>1, Zenon DEF Watch, View
  <1>7. (v.roster \cup {}) \ {} = v.roster /\ ((v.ops \cup {}) \ {}) \ {} = v.ops
    OBVIOUS
  <1> QED BY <1>6, <1>7, Zenon

(* The four lines of one's own JOIN start a view.                          *)
LEMMA ViewEnter ==
  ASSUME NEW d, NEW k, NEW M, NEW O, NEW t, NEW tm,
         tm.cmd \in {"331", "332"}, tm.chan = k, tm.arg = t,
         Lines(d) = {makeCommand(d, "JOIN", k, Empty), tm,
                     makeReply("353", k, [members |-> M, operators |-> O]),
                     makeReply("366", k, Empty)}
  PROVE  Watch(d, k) = View(M, O, t)
  <1> DEFINE j == makeCommand(d, "JOIN", k, Empty)
             a == [members |-> M, operators |-> O]
             n == makeReply("353", k, a)
             e == makeReply("366", k, Empty)
  <1>1. /\ j.cmd = "JOIN" /\ j.chan = k /\ j.from = d
        /\ n.cmd = "353" /\ n.chan = k /\ n.arg = a /\ e.cmd = "366"
        /\ a.members = M /\ a.operators = O
    BY DEF makeCommand, makeReply
  <1>2. Lines(d) = {j, tm, n, e}
    OBVIOUS
  <1> HIDE DEF j, a, n, e
  <1>3. /\ Of(d, "JOIN", k) = {j} /\ Of(d, "353", k) = {n}
        /\ Of(d, "TOPIC", k) \cup Of(d, "332", k) \cup Of(d, "331", k) = {tm}
    BY <1>1, <1>2 DEF Of
  <1>4. Entered(d, k) /\ (CHOOSE m \in Of(d, "353", k) : TRUE) = n
    BY <1>1, <1>3 DEF Entered
  <1>5. TopicOf(d, k, Empty) = t
    BY <1>3 DEF TopicOf
  <1> QED BY <1>1, <1>4, <1>5 DEF Watch, View

-----------------------------------------------------------------------------
(* The steps.                                                              *)

(* Every client that is still there knows what it should once the lines of *)
(* the step are read.                                                      *)
Knows ==
  \A d \in Client, k \in ChannelKey : d \in clients' => Watch(d, k) = After(d, k)

(* What a view is before the step.                                         *)
LEMMA Before ==
  ASSUME MirrorExact, NEW d \in Client, NEW k \in ChannelKey
  PROVE  /\ d \in members[k] =>
              /\ mirror[d][k] = View(members[k], operators[k], topic[k])
              /\ mirror[d][k] # NoView
         /\ d \notin members[k] => mirror[d][k] = NoView
         /\ mirror[d][k].roster = IF d \in members[k] THEN members[k] ELSE {}
         /\ mirror[d][k].ops = IF d \in members[k] THEN operators[k] ELSE {}
         /\ mirror[d][k].topic = IF d \in members[k] THEN topic[k] ELSE Empty
  BY DEF MirrorExact, View, NoView

Same == UNCHANGED <<members, operators, topic>>

(* Nothing happens to the channels, and nobody is told anything of them.   *)
LEMMA Silent ==
  ASSUME MirrorExact, Same, \A d \in Client, k \in ChannelKey : Mute(d, k)
  PROVE  Knows
  <1> SUFFICES ASSUME NEW d \in Client, NEW k \in ChannelKey
               PROVE  Watch(d, k) = After(d, k)
    BY DEF Knows
  <1>1. Watch(d, k) = mirror[d][k]
    BY ViewStays
  <1> QED BY <1>1, Before DEF Same, After, View

LEMMA QuietStep ==
  ASSUME MirrorExact, Same, sent' = Quiet
  PROVE  Knows
  <1>1. \A d \in Client, k \in ChannelKey : Mute(d, k)
    BY QuietLines DEF Mute
  <1> QED BY <1>1, Silent

(* One line that tells of no change, to one client or to several.          *)
LEMMA OtherLine ==
  ASSUME MirrorExact, Same, NEW m, \A k \in ChannelKey : ~Says(m, k),
         \/ \E c \in Client : sent' = sendToOne(c, m)
         \/ \E S : sent' = sendToAll(S, m)
  PROVE  Knows
  <1>1. \A d \in Client, k \in ChannelKey : Mute(d, k)
    BY ToOne, ToAll DEF Mute
  <1> QED BY <1>1, Silent

(* A client that is told nothing of k, and has nothing to be told.         *)
LEMMA Unmoved ==
  ASSUME MirrorExact, NEW d \in Client, NEW k \in ChannelKey, Mute(d, k),
         d \in members[k] => /\ members'[k] = members[k] /\ operators'[k] = operators[k]
                             /\ topic'[k] = topic[k],
         d \notin members[k] => d \notin members'[k]
  PROVE  Watch(d, k) = After(d, k)
  <1>1. Watch(d, k) = mirror[d][k]
    BY ViewStays
  <1>2. CASE d \in members[k]
    <2>1. mirror[d][k] = View(members[k], operators[k], topic[k])
      BY <1>2, Before
    <2> QED BY <1>1, <1>2, <2>1 DEF After, View
  <1>3. CASE d \notin members[k]
    <2>1. mirror[d][k] = NoView
      BY <1>3, Before
    <2> QED BY <1>1, <1>3, <2>1 DEF After
  <1> QED BY <1>2, <1>3

(* PART and KICK: those who were in are told, and nobody else.             *)
LEMMA LeaveKnown ==
  ASSUME IndInv, MirrorExact, NEW c \in Client, NEW x \in ChannelKey, c \in members[x],
         Leave(c, x), NEW m, m.chan = x,
         \/ m.cmd = "PART" /\ m.from = c
         \/ m.cmd = "KICK" /\ m.arg = c,
         sent' = sendToAll(members[x], m)
  PROVE  Knows
  <1> SUFFICES ASSUME NEW d \in Client, NEW k \in ChannelKey
               PROVE  Watch(d, k) = After(d, k)
    BY DEF Knows
  <1>1. /\ members'[k] = IF k = x THEN members[k] \ {c} ELSE members[k]
        /\ operators'[k] = IF k = x THEN operators[k] \ {c} ELSE operators[k]
    BY DEF Leave, removeMember, Without
  <1>2. topic'[k] = IF k = x /\ members[k] \subseteq {c} THEN Empty ELSE topic[k]
    BY DEF Leave, deleteChannels, deleteChannel, Reset, Emptied
  <1>3. CASE k # x \/ d \notin members[x]
    <2>1. Mute(d, k)
      BY <1>3, ToAll DEF Mute, Says
    <2>2. k = x => d \notin members[k] /\ d \notin members'[k]
      BY <1>1, <1>3
    <2>3. k # x => members'[k] = members[k] /\ operators'[k] = operators[k]
                   /\ topic'[k] = topic[k]
      BY <1>1, <1>2
    <2> QED BY <2>1, <2>2, <2>3, Unmoved
  <1>4. CASE k = x /\ d \in members[x]
    <2>1. Lines(d) = {m}
      BY <1>4, ToAll
    <2>2. Watch(d, k) = IF d = c THEN NoView
                        ELSE View(members[k] \ {c}, operators[k] \ {c}, topic[k])
      BY <1>4, <2>1, ViewGone, Before
    <2>3. d # c => ~(members[k] \subseteq {c})
      BY <1>4
    <2> QED BY <1>1, <1>2, <1>4, <2>2, <2>3 DEF After, View
  <1> QED BY <1>3, <1>4

(* A lost connection: a QUIT reaches everyone who shares a channel, for    *)
(* what the client has joined is where it is a member.                     *)
LEMMA DisconnectKnown ==
  ASSUME IndInv, MirrorExact, NEW c \in Client, Disconnect(c)
  PROVE  Knows
  <1> SUFFICES ASSUME NEW d \in Client, NEW k \in ChannelKey, d # c
               PROVE  Watch(d, k) = After(d, k)
    BY DEF Knows, Disconnect
  <1>0. TypeOK /\ Core
    BY DEF IndInv
  <1> DEFINE K == {x \in channels : isMember(c, x)}
  <1>1. k \in K <=> c \in members[k]
    BY <1>0 DEF isMember, Core, ChannelsInUse
  <1>2. /\ members'[k] = members[k] \ {c}
        /\ operators'[k] = operators[k] \ {c}
    <2>1. /\ members'[k] = IF k \in K THEN members[k] \ {c} ELSE members[k]
          /\ operators'[k] = IF k \in K THEN operators[k] \ {c} ELSE operators[k]
      BY DEF Disconnect, Without
    <2>2. operators[k] \subseteq members[k]
      BY <1>0 DEF Core, OperatorsAreMembers
    <2>3. c \notin members[k] => /\ members[k] = members[k] \ {c}
                                 /\ operators[k] = operators[k] \ {c}
      BY <2>2
    <2> QED BY <1>1, <2>1, <2>3
  <1>3. d \in members[k] => topic'[k] = topic[k]
    BY DEF Disconnect, deleteChannel, Reset, Emptied
  <1>4. CASE sent' = broadcastQuit(c)
    <2> DEFINE m == makeCommand(c, "QUIT", NULL, Empty)
               S == Neighbours(c) \ {c}
    <2>0. m.cmd = "QUIT" /\ m.chan = NULL /\ m.from = c
      BY DEF makeCommand
    <2>1. sent' = sendToAll(S, m)
      BY <1>4 DEF broadcastQuit
    <2> HIDE DEF m, S
    <2>2. Lines(d) = IF d \in S THEN {m} ELSE {}
      BY <2>1, ToAll
    <2>3. CASE d \in S
      <3>1. Watch(d, k) = IF d \in members[k]
                          THEN View(members[k] \ {c}, operators[k] \ {c}, topic[k])
                          ELSE NoView
        <4>1. Watch(d, k) =
                IF mirror[d][k] = NoView \/ d = c THEN NoView
                ELSE View(mirror[d][k].roster \ {c}, mirror[d][k].ops \ {c},
                          mirror[d][k].topic)
          BY <2>0, <2>2, <2>3, ViewGone
        <4>2. CASE d \in members[k]
          <5>1. mirror[d][k] # NoView /\ mirror[d][k].roster = members[k]
                /\ mirror[d][k].ops = operators[k] /\ mirror[d][k].topic = topic[k]
            BY <4>2, Before
          <5> QED BY <4>1, <4>2, <5>1
        <4>3. CASE d \notin members[k]
          BY <4>1, <4>3, Before
        <4> QED BY <4>2, <4>3
      <3> QED BY <1>2, <1>3, <3>1 DEF After, View
    <2>4. CASE d \notin S
      <3>1. Mute(d, k)
        BY <2>2, <2>4 DEF Mute
      <3>3. d \in members[k] => c \notin members[k]
        <4>1. ASSUME d \in members[k], c \in members[k] PROVE FALSE
          <5>1. name[k] \in ChannelName /\ toLower(name[k]) = k
            BY <1>0 DEF TypeOK, Core, NamesFold
          <5>2. name[k] \in joinedChannels[c]
            BY <1>0, <4>1, <5>1 DEF Core, JoinedIsMember
          <5>3. k \in joinedKeys(c)
            BY <5>1, <5>2 DEF joinedKeys
          <5> QED BY <2>4, <4>1, <5>3 DEF S, Neighbours
        <4> QED BY <4>1
      <3>4. c \notin members[k] => members[k] \ {c} = members[k]
                                   /\ operators[k] \ {c} = operators[k]
        BY <1>0 DEF Core, OperatorsAreMembers
      <3> QED BY <1>2, <1>3, <3>1, <3>3, <3>4, Unmoved
    <2> QED BY <2>3, <2>4
  <1>5. CASE c \notin registered /\ sent' = Quiet
    <2>1. Mute(d, k)
      BY <1>5, QuietLines DEF Mute
    <2>2. members[k] \ {c} = members[k] /\ operators[k] \ {c} = operators[k]
      BY <1>0, <1>5 DEF Core, LiveClients, OperatorsAreMembers
    <2> QED BY <1>2, <1>3, <2>1, <2>2, Unmoved
  <1> QED BY <1>4, <1>5 DEF Disconnect

(* A JOIN: the newcomer reads the whole channel, the others its name.      *)
LEMMA EnterKnown ==
  ASSUME IndInv, MirrorExact, NEW c \in Client, NEW x \in ChannelKey, c \notin members[x],
         admit(c, x), topic' = topic
  PROVE  Knows
  <1> SUFFICES ASSUME NEW d \in Client, NEW k \in ChannelKey
               PROVE  Watch(d, k) = After(d, k)
    BY DEF Knows
  <1> DEFINE j == makeCommand(c, "JOIN", x, Empty)
             t == IF topic[x] = Empty THEN makeReply("331", x, Empty)
                                      ELSE makeReply("332", x, topic[x])
             O == IF members[x] = {} THEN {c} ELSE operators[x]
             n == makeReply("353", x, [members |-> members[x] \cup {c}, operators |-> O])
             e == makeReply("366", x, Empty)
  <1>0. TypeOK /\ Core
    BY DEF IndInv
  <1>1. /\ members'[k] = IF k = x THEN members[k] \cup {c} ELSE members[k]
        /\ operators'[k] = IF k = x THEN O ELSE operators[k]
    <2>1. members'[k] = IF k = x THEN members[k] \cup {c} ELSE members[k]
      BY <1>0 DEF admit, TypeOK
    <2>2. CASE members[x] = {}
      <3>1. operators[x] = {}
        BY <1>0, <2>2 DEF Core, OperatorsAreMembers
      <3>2. operators' = [operators EXCEPT ![x] = @ \cup {c}]
        BY <2>2 DEF admit
      <3>3. operators'[k] = IF k = x THEN {c} ELSE operators[k]
        BY <1>0, <3>1, <3>2 DEF TypeOK
      <3>4. O = {c}
        BY <2>2
      <3> QED BY <2>1, <3>3, <3>4
    <2>3. CASE members[x] # {}
      <3>1. operators' = operators
        BY <2>3 DEF admit
      <3> QED BY <2>1, <2>3, <3>1
    <2> QED BY <2>2, <2>3
  <1>2. /\ j.cmd = "JOIN" /\ j.chan = x
        /\ t.cmd \in {"331", "332"} /\ t.chan = x /\ t.arg = topic[x]
        /\ n.cmd = "353" /\ e.cmd = "366"
    BY DEF makeCommand, makeReply
  <1>3. sent'[d] = IF d = c THEN <<j>> \o <<t, n, e>>
                   ELSE IF d \in members[x] THEN <<j>> ELSE <<>>
    BY DEF admit, sendToAll, Welcome
  <1>4. CASE d = c
    <2>1. sent'[d] = <<j, t, n, e>>
      <3> HIDE DEF j, t, n, e, O
      <3>1. <<j>> \o <<t, n, e>> = <<j, t, n, e>>
        BY Four
      <3> QED BY <1>3, <1>4, <3>1
    <2>2. Lines(d) = {j, t, n, e}
      <3> HIDE DEF j, t, n, e, O
      <3> QED BY <2>1, FourLines
    <2>3. CASE k = x
      <3>1. Watch(d, k) = View(members[x] \cup {c}, O, topic[x])
        <4>1. t.cmd \in {"331", "332"} /\ t.chan = x /\ t.arg = topic[x]
          BY <1>2
        <4>2. Lines(c) = {makeCommand(c, "JOIN", x, Empty), t,
                          makeReply("353", x, [members |-> members[x] \cup {c},
                                               operators |-> O]),
                          makeReply("366", x, Empty)}
          BY <1>4, <2>2
        <4> HIDE DEF t, O
        <4>3. Watch(c, x) = View(members[x] \cup {c}, O, topic[x])
          BY <4>1, <4>2, ViewEnter
        <4> QED BY <1>4, <2>3, <4>3
      <3> HIDE DEF O
      <3>2. After(d, k) = View(members[x] \cup {c}, O, topic[x])
        BY <1>1, <1>4, <2>3 DEF After, View
      <3> QED BY <3>1, <3>2
    <2>4. CASE k # x
      <3> HIDE DEF j, t, n, e, O
      <3>1. Mute(d, k)
        BY <1>2, <2>2, <2>4 DEF Mute, Says
      <3> QED BY <1>1, <2>4, <3>1, Unmoved
    <2> QED BY <2>3, <2>4
  <1>5. CASE d # c /\ d \in members[x]
    <2>1. sent'[d] = <<j>>
      BY <1>3, <1>5
    <2>2. Lines(d) = {j}
      BY <2>1, OneLine, Zenon
    <2>3. CASE k = x
      <3>1. Lines(d) = {makeCommand(c, "JOIN", k, Empty)}
        BY <2>2, <2>3
      <3>2. Watch(d, k) =
              IF mirror[d][k] = NoView THEN NoView
              ELSE View(mirror[d][k].roster \cup {c}, mirror[d][k].ops, mirror[d][k].topic)
        BY <1>5, <3>1, ViewJoined
      <3>3. /\ mirror[d][k] # NoView /\ mirror[d][k].roster = members[k]
            /\ mirror[d][k].ops = operators[k] /\ mirror[d][k].topic = topic[k]
        BY <1>5, <2>3, Before
      <3>4. O = operators[k]
        BY <1>5, <2>3
      <3> HIDE DEF O
      <3> QED BY <1>1, <1>5, <2>3, <3>2, <3>3, <3>4 DEF After, View
    <2>4. CASE k # x
      <3> HIDE DEF j, t, n, e, O
      <3>1. Mute(d, k)
        BY <1>2, <2>2, <2>4 DEF Mute, Says
      <3> QED BY <1>1, <2>4, <3>1, Unmoved
    <2> QED BY <2>3, <2>4
  <1>6. CASE d # c /\ d \notin members[x]
    <2>1. Mute(d, k)
      BY <1>3, <1>6, NoLines DEF Mute
    <2> HIDE DEF O
    <2>2. k = x => d \notin members[k] /\ d \notin members'[k]
      BY <1>1, <1>6
    <2> QED BY <1>1, <2>1, <2>2, Unmoved
  <1> QED BY <1>4, <1>5, <1>6

(* An operator is made or unmade: all members are told.                    *)
LEMMA OperKnown ==
  ASSUME IndInv, MirrorExact, NEW c, NEW e \in BOOLEAN, NEW w, NEW x \in ChannelKey,
         operators' = [operators EXCEPT ![x] = IF e THEN @ \cup {w} ELSE @ \ {w}],
         UNCHANGED <<members, topic>>,
         sent' = sendToAll(members[x], makeCommand(c, "MODEO", x, [enable |-> e, who |-> w]))
  PROVE  Knows
  <1> SUFFICES ASSUME NEW d \in Client, NEW k \in ChannelKey
               PROVE  Watch(d, k) = After(d, k)
    BY DEF Knows
  <1> DEFINE m == makeCommand(c, "MODEO", x, [enable |-> e, who |-> w])
             O == IF e THEN operators[x] \cup {w} ELSE operators[x] \ {w}
  <1>1. operators'[k] = IF k = x THEN O ELSE operators[k]
    BY DEF IndInv, TypeOK
  <1>2. m.cmd = "MODEO" /\ m.chan = x
    BY DEF makeCommand
  <1>3. Lines(d) = IF d \in members[x] THEN {m} ELSE {}
    BY ToAll
  <1>4. CASE k # x \/ d \notin members[x]
    <2> HIDE DEF m, O
    <2>1. Mute(d, k)
      BY <1>2, <1>3, <1>4 DEF Mute, Says
    <2> QED BY <1>1, <1>4, <2>1, Unmoved
  <1>5. CASE k = x /\ d \in members[x]
    <2>1. Lines(d) = {makeCommand(c, "MODEO", k, [enable |-> e, who |-> w])}
      BY <1>3, <1>5
    <2>2. Watch(d, k) =
            IF mirror[d][k] = NoView THEN NoView
            ELSE View(mirror[d][k].roster,
                      IF e THEN mirror[d][k].ops \cup {w} ELSE mirror[d][k].ops \ {w},
                      mirror[d][k].topic)
      BY <2>1, ViewOper
    <2>3. /\ mirror[d][k] # NoView /\ mirror[d][k].roster = members[k]
          /\ mirror[d][k].ops = operators[k] /\ mirror[d][k].topic = topic[k]
      BY <1>5, Before
    <2> QED BY <1>1, <1>5, <2>2, <2>3 DEF After, View
  <1> QED BY <1>4, <1>5

(* A topic is set: all members are told.                                   *)
LEMMA TopicKnown ==
  ASSUME IndInv, MirrorExact, NEW c, NEW t, NEW x \in ChannelKey,
         topic' = [topic EXCEPT ![x] = t], UNCHANGED <<members, operators>>,
         sent' = sendToAll(members[x], makeCommand(c, "TOPIC", x, t))
  PROVE  Knows
  <1> SUFFICES ASSUME NEW d \in Client, NEW k \in ChannelKey
               PROVE  Watch(d, k) = After(d, k)
    BY DEF Knows
  <1> DEFINE m == makeCommand(c, "TOPIC", x, t)
  <1>1. topic'[k] = IF k = x THEN t ELSE topic[k]
    BY DEF IndInv, TypeOK
  <1>2. m.cmd = "TOPIC" /\ m.chan = x /\ m.arg = t
    BY DEF makeCommand
  <1>3. Lines(d) = IF d \in members[x] THEN {m} ELSE {}
    BY ToAll
  <1> HIDE DEF m
  <1>4. CASE k # x \/ d \notin members[x]
    <2>1. Mute(d, k)
      BY <1>2, <1>3, <1>4 DEF Mute, Says
    <2> QED BY <1>1, <1>4, <2>1, Unmoved
  <1>5. CASE k = x /\ d \in members[x]
    <2>1. Watch(d, k) = IF mirror[d][k] = NoView THEN NoView
                        ELSE View(mirror[d][k].roster, mirror[d][k].ops, t)
      BY <1>2, <1>3, <1>5, ViewTopic
    <2>2. /\ mirror[d][k] # NoView /\ mirror[d][k].roster = members[k]
          /\ mirror[d][k].ops = operators[k]
      BY <1>5, Before
    <2> QED BY <1>1, <1>5, <2>1, <2>2 DEF After, View
  <1> QED BY <1>4, <1>5

(* TOPIC without a topic: the asker reads what it knows.                   *)
LEMMA QueryKnown ==
  ASSUME MirrorExact, Same, NEW c \in Client, NEW x \in ChannelKey, c \in members[x],
         NEW code \in {"331", "332"}, sent' = sendToOne(c, makeReply(code, x, topic[x]))
  PROVE  Knows
  <1> SUFFICES ASSUME NEW d \in Client, NEW k \in ChannelKey
               PROVE  Watch(d, k) = After(d, k)
    BY DEF Knows
  <1> DEFINE m == makeReply(code, x, topic[x])
  <1>1. m.cmd \in {"331", "332"} /\ m.cmd # "QUIT" /\ m.chan = x /\ m.arg = topic[x]
    BY DEF makeReply
  <1>2. Lines(d) = IF d = c THEN {m} ELSE {}
    BY ToOne
  <1> HIDE DEF m
  <1>3. CASE k # x \/ d # c
    <2>1. Mute(d, k)
      BY <1>1, <1>2, <1>3 DEF Mute, Says
    <2> QED BY <2>1, Unmoved DEF Same
  <1>4. CASE k = x /\ d = c
    <2>1. Watch(d, k) = IF mirror[d][k] = NoView THEN NoView
                        ELSE View(mirror[d][k].roster, mirror[d][k].ops, topic[x])
      BY <1>1, <1>2, <1>4, ViewTopic
    <2>2. /\ mirror[d][k] # NoView /\ mirror[d][k].roster = members[k]
          /\ mirror[d][k].ops = operators[k]
      BY <1>4, Before
    <2> QED BY <1>4, <2>1, <2>2 DEF After, View, Same
  <1> QED BY <1>3, <1>4

-----------------------------------------------------------------------------
(* The commands.                                                           *)

(* The numerics that say nothing about who is in a channel or its topic.   *)
Other == {"001", "324", "341", "401", "403", "404", "411", "412", "441", "442", "443",
          "461", "467", "471", "472", "473", "475", "476", "482", "525", "696"}

LEMMA ReplyKnown ==
  ASSUME MirrorExact, Same, NEW c \in Client, NEW code \in Other, NEW x, NEW arg,
         sent' = sendToOne(c, makeReply(code, x, arg))
  PROVE  Knows
  <1> DEFINE m == makeReply(code, x, arg)
  <1>1. \A k \in ChannelKey : ~Says(m, k)
    BY DEF Says, makeReply, Other
  <1>2. sent' = sendToOne(c, m)
    OBVIOUS
  <1> HIDE DEF m
  <1> QED BY <1>1, <1>2, OtherLine

LEMMA AnswerKnown ==
  ASSUME MirrorExact,
         \/ \E c \in Client, code \in Other : \E x, arg : Answer(c, code, x, arg)
         \/ Ignore
  PROVE  Knows
  <1>1. CASE Ignore
    BY <1>1, QuietStep DEF Ignore, Same, chanVars, settings
  <1>2. ASSUME NEW c \in Client, NEW code \in Other, NEW x, NEW arg, Answer(c, code, x, arg)
        PROVE  Knows
    BY <1>2, ReplyKnown DEF Answer, Same, chanVars, settings
  <1> QED BY <1>1, <1>2

(* JOIN: refused, ignored, or EnterKnown.                                  *)
LEMMA JoinKnown ==
  ASSUME IndInv, MirrorExact, NEW c \in Client, NEW n, NEW p, Join(c, n, p)
  PROVE  Knows
  <1>1. CASE Answer(c, "461", NULL, Empty) \/ Answer(c, "476", NULL, Empty)
    BY <1>1, AnswerKnown DEF Other
  <1>2. CASE /\ n \in ChannelName
             /\ handleJoin(c, toLower(n), p)
             /\ UNCHANGED <<clients, registered, settings, frame>>
    <2> DEFINE k == toLower(n)
    <2>1. k \in ChannelKey /\ topic' = topic
      BY <1>2, LowerIsKey DEF settings
    <2> HIDE DEF k
    <2>2. ASSUME NEW code \in Other, refuse(c, k, code)
          PROVE  Knows
      BY <2>1, <2>2, ReplyKnown DEF refuse, Same
    <2>3. CASE sent' = Quiet /\ UNCHANGED <<members, operators>>
      BY <2>1, <2>3, QuietStep DEF Same
    <2>4. CASE ~isMember(c, k) /\ admit(c, k)
      BY <2>1, <2>4, EnterKnown DEF isMember
    <2>5. handleJoin(c, k, p)
      BY <1>2 DEF k
    <2>6. "471" \in Other /\ "473" \in Other /\ "475" \in Other
      BY DEF Other
    <2> QED BY <2>2, <2>3, <2>4, <2>5, <2>6 DEF handleJoin
  <1> QED BY <1>1, <1>2 DEF Join

(* Channel::handlePart: those who were in are told, or only the sender.    *)
LEMMA RefusalKnown ==
  ASSUME IndInv, MirrorExact, NEW c \in Client, NEW k \in channels, notOnChannel(c, k)
  PROVE  Knows
  <1>1. Same
    BY RefusalKeeps DEF IndInv, Same, chanVars, settings
  <1>2. sent' = sendToOne(c, makeReply("442", k, Empty))
    BY DEF notOnChannel
  <1> QED BY <1>1, <1>2, ReplyKnown DEF Other

LEMMA HandlePartKnown ==
  ASSUME IndInv, MirrorExact, NEW c \in Client, NEW k \in channels, handlePart(c, k)
  PROVE  Knows
  <1>0. k \in ChannelKey
    BY DEF IndInv, TypeOK
  <1>1. CASE notOnChannel(c, k)
    BY <1>1, RefusalKnown
  <1>2. CASE /\ isMember(c, k)
             /\ sent' = sendToAll(members[k], makeCommand(c, "PART", k, Empty))
             /\ Leave(c, k)
    <2> DEFINE m == makeCommand(c, "PART", k, Empty)
    <2>1. m.cmd = "PART" /\ m.chan = k /\ m.from = c
      BY DEF makeCommand
    <2>2. sent' = sendToAll(members[k], m) /\ c \in members[k] /\ Leave(c, k)
      BY <1>2 DEF isMember
    <2> HIDE DEF m
    <2> QED BY <1>0, <2>1, <2>2, LeaveKnown
  <1> QED BY <1>1, <1>2 DEF handlePart

LEMMA PartKnown ==
  ASSUME IndInv, MirrorExact, NEW c \in Client, NEW n, Part(c, n)
  PROVE  Knows
  <1>1. CASE Answer(c, "461", NULL, Empty) \/ Answer(c, "403", NULL, Empty)
    BY <1>1, AnswerKnown DEF Other
  <1>2. CASE findChannel(n) # NULL /\ handlePart(c, findChannel(n))
    <2>1. findChannel(n) \in channels
      BY <1>2 DEF findChannel
    <2> QED BY <1>2, <2>1, HandlePartKnown
  <1> QED BY <1>1, <1>2 DEF Part

(* KICK: announced to all members, the one kicked included, or refused.    *)
LEMMA KickKnown ==
  ASSUME IndInv, MirrorExact, NEW c \in Client, NEW n, NEW p, Kick(c, n, p)
  PROVE  Knows
  <1>1. ASSUME NEW code \in {"461", "403", "442", "482", "441"}, NEW k,
               Answer(c, code, k, Empty)
        PROVE  Knows
    <2>1. code \in Other
      BY DEF Other
    <2> QED BY <1>1, <2>1, AnswerKnown
  <1>2. CASE findChannel(n) # NULL /\ kickUnknown(c, findChannel(n))
    BY <1>1, <1>2 DEF kickUnknown
  <1>3. CASE /\ findChannel(n) # NULL /\ findClientByNickname(p) # NULL
             /\ handleKick(c, findClientByNickname(p), findChannel(n))
    <2> DEFINE k == findChannel(n)
               d == findClientByNickname(p)
    <2>1. k \in channels /\ k \in ChannelKey /\ d \in Client
      BY <1>3 DEF findChannel, findClientByNickname, IndInv, TypeOK
    <2>2. handleKick(c, d, k)
      BY <1>3
    <2> HIDE DEF k, d
    <2>3. CASE notOnChannel(c, k)
      BY <2>1, <2>3, RefusalKnown
    <2>4. CASE /\ isMember(d, k)
               /\ sent' = sendToAll(kickAudience(d, k), makeCommand(c, "KICK", k, d))
               /\ Leave(d, k)
      <3> DEFINE m == makeCommand(c, "KICK", k, d)
      <3>1. m.cmd = "KICK" /\ m.chan = k /\ m.arg = d
        BY DEF makeCommand
      <3>2. sent' = sendToAll(members[k], m) /\ d \in members[k] /\ Leave(d, k)
        BY <2>4 DEF isMember, kickAudience
      <3> HIDE DEF m
      <3> QED BY <2>1, <3>1, <3>2, LeaveKnown
    <2> QED BY <1>1, <2>2, <2>3, <2>4 DEF handleKick
  <1> QED BY <1>1, <1>2, <1>3 DEF Kick

(* TOPIC: asked, set or refused.                                           *)
LEMMA TopicCmdKnown ==
  ASSUME IndInv, MirrorExact, NEW c \in Client, NEW n, NEW t, TopicCmd(c, n, t)
  PROVE  Knows
  <1>1. ASSUME NEW code \in {"461", "403", "442", "482"}, NEW k, Answer(c, code, k, Empty)
        PROVE  Knows
    <2>1. code \in Other
      BY DEF Other
    <2> QED BY <1>1, <2>1, AnswerKnown
  <1>2. CASE findChannel(n) # NULL /\ handleTopic(c, findChannel(n), t)
    <2> DEFINE k == findChannel(n)
    <2>1. k \in ChannelKey
      BY <1>2 DEF findChannel, IndInv, TypeOK
    <2>2. handleTopic(c, k, t)
      BY <1>2
    <2> HIDE DEF k
    <2>3. CASE /\ isMember(c, k)
               /\ IF topic[k] = Empty THEN Answer(c, "331", k, Empty)
                                      ELSE Answer(c, "332", k, topic[k])
      <3>1. PICK code \in {"331", "332"} : Answer(c, code, k, topic[k])
        BY <2>3
      <3>2. Same /\ sent' = sendToOne(c, makeReply(code, k, topic[k]))
        BY <3>1 DEF Answer, Same, chanVars, settings
      <3> QED BY <2>1, <2>3, <3>2, QueryKnown DEF isMember
    <2>4. CASE /\ topic' = [topic EXCEPT ![k] = t]
               /\ sent' = sendToAll(members[k], makeCommand(c, "TOPIC", k, t))
               /\ UNCHANGED <<members, operators>>
      BY <2>1, <2>4, TopicKnown
    <2> QED BY <1>1, <2>2, <2>3, <2>4 DEF handleTopic
  <1> QED BY <1>1, <1>2 DEF TopicCmd

(* INVITE tells nothing about who is in.                                   *)
LEMMA InviteKnown ==
  ASSUME IndInv, MirrorExact, NEW c \in Client, NEW p, NEW n, Invite(c, p, n)
  PROVE  Knows
  <1>1. ASSUME NEW code \in {"461", "401", "403", "442", "482", "443"}, NEW k,
               Answer(c, code, k, Empty)
        PROVE  Knows
    <2>1. code \in Other
      BY DEF Other
    <2> QED BY <1>1, <2>1, AnswerKnown
  <1>2. CASE Ignore
    BY <1>2, AnswerKnown
  <1>3. ASSUME NEW d, NEW k,
               sent' = [sendToOne(c, makeReply("341", k, d))
                          EXCEPT ![d] = <<makeCommand(c, "INVITE", k, d)>>],
               UNCHANGED <<members, operators, settings>>
        PROVE  Knows
    <2> SUFFICES ASSUME NEW e \in Client, NEW x \in ChannelKey PROVE Mute(e, x)
      BY <1>3, Silent DEF Same, settings
    <2> DEFINE r == makeReply("341", k, d)
               i == makeCommand(c, "INVITE", k, d)
    <2>1. r.cmd = "341" /\ i.cmd = "INVITE"
      BY DEF makeReply, makeCommand
    <2>2. sent'[e] = <<i>> \/ sent'[e] = <<r>> \/ sent'[e] = <<>>
      BY <1>3 DEF sendToOne, Quiet
    <2> HIDE DEF r, i
    <2>3. Lines(e) = {i} \/ Lines(e) = {r} \/ Lines(e) = {}
      BY <2>2, OneLine, NoLines
    <2> QED BY <2>1, <2>3 DEF Mute, Says
  <1> QED BY <1>1, <1>2, <1>3 DEF Invite, handleInvite

(* PRIVMSG and NICK do not either.                                         *)
LEMMA MessageKnown ==
  ASSUME IndInv, MirrorExact, NEW c \in Client,
         NickChange(c) \/ \E x, hasText : Privmsg(c, x, hasText)
  PROVE  Knows
  <1>1. ASSUME NEW code \in {"411", "412", "401", "404"}, NEW k, Answer(c, code, k, Empty)
        PROVE  Knows
    <2>1. code \in Other
      BY DEF Other
    <2> QED BY <1>1, <2>1, AnswerKnown
  <1>2. ASSUME NEW m, m.cmd \in {"PRIVMSG", "NICK"}, UNCHANGED chanVars,
               \/ \E d \in Client : sent' = sendToOne(d, m)
               \/ \E S : sent' = sendToAll(S, m)
        PROVE  Knows
    <2>1. \A k \in ChannelKey : ~Says(m, k)
      BY <1>2 DEF Says
    <2>2. Same
      BY <1>2 DEF Same, chanVars, settings
    <2> QED BY <1>2, <2>1, <2>2, OtherLine
  <1>3. \A k : /\ makeCommand(c, "PRIVMSG", k, Empty).cmd = "PRIVMSG"
               /\ makeCommand(c, "NICK", k, Empty).cmd = "NICK"
    BY DEF makeCommand
  <1>4. CASE NickChange(c)
    BY <1>2, <1>3, <1>4 DEF NickChange, broadcastNickChange
  <1>5. ASSUME NEW x, NEW hasText, Privmsg(c, x, hasText)
        PROVE  Knows
    <2>1. ASSUME NEW k, handleChannelPrivmsg(c, k) PROVE Knows
      BY <1>1, <1>2, <1>3, <2>1 DEF handleChannelPrivmsg
    <2>2. ASSUME NEW d \in Client, handlePersonalPrivmsg(c, d) PROVE Knows
      BY <1>2, <1>3, <2>2 DEF handlePersonalPrivmsg
    <2>3. findClientByNickname(x) # NULL => findClientByNickname(x) \in Client
      BY DEF findClientByNickname, IndInv, TypeOK
    <2> QED BY <1>1, <1>5, <2>1, <2>2, <2>3 DEF Privmsg
  <1> QED BY <1>4, <1>5

(* MODE: only the iterations that change an operator tell of one.          *)
LEMMA ContinueKnown ==
  ASSUME IndInv, MirrorExact, frame.op \in {"scan", "apply"},
         \/ Continue
         \/ \E code \in Other : Complain(code)
  PROVE  Knows
  <1>1. CASE Continue
    BY <1>1, QuietStep DEF Continue, Same, chanVars, settings
  <1>2. ASSUME NEW code \in Other, Complain(code)
        PROVE  Knows
    <2>1. frame.client \in Client
      BY DEF IndInv, FramePointers, TypeOK
    <2>2. Same /\ sent' = sendToOne(frame.client, makeReply(code, frame.chan, Empty))
      BY <1>2 DEF Complain, Same, chanVars, settings
    <2> QED BY <2>1, <2>2, ReplyKnown
  <1> QED BY <1>1, <1>2

LEMMA ModeKnown ==
  ASSUME IndInv, MirrorExact, NEW c \in Client, NEW n, NEW m, NEW p, Mode(c, n, m, p)
  PROVE  Knows
  <1>1. ASSUME NEW code \in {"461", "403", "324", "442", "482", "472"}, NEW k, NEW arg,
               Answer(c, code, k, arg)
        PROVE  Knows
    <2>1. code \in Other
      BY DEF Other
    <2> QED BY <1>1, <2>1, AnswerKnown
  <1>2. CASE Ignore \/ Continue
    <2>1. Same /\ sent' = Quiet
      BY <1>2 DEF Ignore, Continue, Same, chanVars, settings
    <2> QED BY <2>1, QuietStep
  <1> QED BY <1>1, <1>2 DEF Mode

LEMMA ModeStepKnown ==
  ASSUME IndInv, MirrorExact, ModeStep
  PROVE  Knows
  <1>1. ASSUME frame.op \in {"scan", "apply"},
               \/ Continue
               \/ \E code \in {"461", "472", "441", "482", "525", "467", "696"} : Complain(code)
        PROVE  Knows
    <2>1. \A code \in {"461", "472", "441", "482", "525", "467", "696"} : code \in Other
      BY DEF Other
    <2> QED BY <1>1, <2>1, ContinueKnown
  <1>2. CASE ScanOperator
    <2> DEFINE k == frame.chan
               d == findClientByNickname(Head(frame.params))
    <2>1. frame.op = "scan" /\ k \in ChannelKey /\ frame.enable \in BOOLEAN
      BY <1>2 DEF ScanOperator, Scanning, IndInv, FramePointers, TypeOK, Frame
    <2>2. CASE Complain("441")
      BY <1>1, <2>1, <2>2
    <2>3. CASE handleModeOperator(frame.enable, d, frame.client, k)
      <3> HIDE DEF k, d
      <3>1. CASE /\ operators' = [operators EXCEPT ![k] =
                                    IF frame.enable THEN @ \cup {d} ELSE @ \ {d}]
                 /\ sent' = sendToAll(members[k],
                              makeCommand(frame.client, "MODEO", k,
                                          [enable |-> frame.enable, who |-> d]))
                 /\ UNCHANGED <<members, settings>>
        BY <2>1, <3>1, OperKnown DEF settings
      <3> QED BY <1>1, <2>1, <2>3, <3>1 DEF handleModeOperator
    <2> QED BY <1>2, <2>2, <2>3 DEF ScanOperator
  <1>3. ASSUME sent' = Quiet, UNCHANGED <<members, operators, topic>>
        PROVE  Knows
    BY <1>3, QuietStep DEF Same
  <1>4. CASE ApplyInviteOnly
    BY <1>1, <1>3, <1>4 DEF ApplyInviteOnly, Applying, Apply
  <1>5. CASE ApplyTopic
    BY <1>1, <1>3, <1>5 DEF ApplyTopic, Applying, Apply
  <1>6. CASE ApplyKey
    BY <1>1, <1>3, <1>6 DEF ApplyKey, Applying, Apply, setModeKey
  <1>7. CASE ApplyLimit
    BY <1>1, <1>3, <1>7 DEF ApplyLimit, Applying, Apply, setModeUserLimit
  <1>8. CASE ApplyEnd
    <2>1. Same
      BY <1>8 DEF ApplyEnd, Same, chanVars, settings
    <2>2. CASE sent' = Quiet
      BY <2>1, <2>2, QuietStep
    <2>3. CASE sent' # Quiet
      <3> DEFINE m == makeCommand(frame.client, "MODE", frame.chan,
                                  [applied |-> frame.out, args |-> frame.outParams])
      <3>1. m.cmd = "MODE"
        BY DEF makeCommand
      <3>2. sent' = sendToAll(members[frame.chan], m)
        BY <1>8, <2>3 DEF ApplyEnd
      <3> HIDE DEF m
      <3>3. \A k \in ChannelKey : ~Says(m, k)
        BY <3>1 DEF Says
      <3> QED BY <2>1, <3>2, <3>3, OtherLine
    <2> QED BY <2>2, <2>3
  <1>9. CASE ScanSign \/ ScanUnknown \/ ScanMissing \/ ScanOverLimit \/ ScanFilter
               \/ ScanEnd \/ ApplySign
    BY <1>1, <1>9 DEF ScanSign, ScanUnknown, ScanMissing, ScanOverLimit, ScanFilter,
                      ScanEnd, ApplySign, Scanning, Applying
  <1> QED BY <1>2, <1>4, <1>5, <1>6, <1>7, <1>8, <1>9 DEF ModeStep

(* Whatever the server does, those who are left know.                      *)
LEMMA StepKnown ==
  ASSUME IndInv, MirrorExact, Next
  PROVE  Knows
  <1>1. ASSUME NEW c \in Client, Connect(c)
        PROVE  Knows
    BY <1>1, QuietStep DEF Connect, Same, chanVars, settings
  <1>2. ASSUME NEW c \in Client, Register(c)
        PROVE  Knows
    BY <1>2, ReplyKnown DEF Register, Same, chanVars, settings, Other
  <1>3. ASSUME NEW c \in Client, Command(c)
        PROVE  Knows
    <2>1. CASE JoinZero(c)
      BY <2>1, QuietStep DEF JoinZero, Same, chanVars, settings
    <2> QED BY <1>3, <2>1, JoinKnown, PartKnown, KickKnown, TopicCmdKnown, InviteKnown,
               MessageKnown, ModeKnown DEF Command
  <1>4. ASSUME NEW n \in ChannelName, JoinZeroStep(n)
        PROVE  Knows
    <2>1. frame.client \in Client /\ n \in joinedChannels[frame.client]
      BY <1>4 DEF JoinZeroStep, IndInv, FramePointers, TypeOK
    <2>2. toLower(n) \in channels
      BY <2>1, LowerIsKey DEF IndInv, Core, JoinedIsMember, ChannelsInUse
    <2> QED BY <1>4, <2>1, <2>2, HandlePartKnown DEF JoinZeroStep
  <1>5. CASE JoinZeroEnd
    BY <1>5, QuietStep DEF JoinZeroEnd, Same, chanVars, settings
  <1>6. CASE ModeStep
    BY <1>6, ModeStepKnown
  <1> QED BY <1>1, <1>2, <1>3, <1>4, <1>5, <1>6, DisconnectKnown DEF Next

-----------------------------------------------------------------------------
(* However channels are joined, left, kept and lost, each member's own     *)
(* account of a channel, put together from the lines it was sent, is right *)
(* after every step, and nobody else has one (MirrorExact).                *)
THEOREM MembersKnowTheirChannels == ViewSpec => []MirrorExact
  <1>1. ViewInit => Init
    BY DEF ViewInit
  <1>2. [ViewNext]_viewVars => [Next]_vars
    BY DEF ViewNext, viewVars
  <1>3. ViewSpec => []IndInv
    BY <1>1, <1>2, Inductive, PTL DEF ViewSpec, Spec
  <1>4. ViewInit => MirrorExact
    BY DEF ViewInit, Init, MirrorExact
  <1>5. IndInv /\ IndInv' /\ MirrorExact /\ [ViewNext]_viewVars => MirrorExact'
    <2> SUFFICES ASSUME IndInv, IndInv', MirrorExact, [ViewNext]_viewVars
                 PROVE  MirrorExact'
      OBVIOUS
    <2>1. CASE UNCHANGED viewVars
      BY <2>1 DEF viewVars, vars, chanVars, settings, MirrorExact
    <2>2. CASE ViewNext
      <3>1. Knows
        BY <2>2, StepKnown DEF ViewNext
      <3>2. ASSUME NEW d \in Client, NEW k \in ChannelKey
            PROVE  mirror'[d][k] = After(d, k)
        <4>1. mirror'[d][k] = IF d \in clients' THEN Watch(d, k) ELSE NoView
          BY <2>2 DEF ViewNext
        <4>2. d \notin clients' => d \notin members'[k]
          BY DEF IndInv, Core, LiveClients
        <4>3. d \notin members'[k] => After(d, k) = NoView
          BY DEF After
        <4> QED BY <3>1, <4>1, <4>2, <4>3 DEF Knows
      <3> QED BY <3>2 DEF MirrorExact, After
    <2> QED BY <2>1, <2>2
  <1> QED BY <1>3, <1>4, <1>5, PTL DEF ViewSpec

-----------------------------------------------------------------------------
(* MODE: the inductive form of TwoReadings and Announced. Read into the    *)
(* modes before the command, what is copied for handleMode, or announced   *)
(* by it, makes them m and uses its own parameters up, whatever comes      *)
(* after them.                                                             *)
Tells(o, line, params, last, m) ==
  \A more \in Seq(Param) :
    Through(hearing, Start(params \o more, o), line)
      = Point(last # "-", more, 0, m, o.ops, o)

(* While Mode::execute copies, to read the rest of the line is to read the *)
(* line.                                                                   *)
Scanned(o, m) ==
  /\ Tells(o, frame.out, frame.outParams, frame.lastSign, m)
  /\ ReadLine(o) = Through(reading, Point(frame.enable, frame.params, frame.paramModeCount,
                                          m, operators[frame.chan], o),
                           frame.modes)

(* While handleMode applies, to hear the rest of the copy is to read the   *)
(* line, and what is to be announced makes the modes what they are.        *)
Applied(o) ==
  /\ Tells(o, frame.out, frame.outParams, frame.lastSign, ModesOf(frame.chan))
  /\ ReadLine(o).ops = operators[frame.chan]
  /\ ReadLine(o).modes = Through(hearing, Point(frame.enable, frame.params, 0,
                                                ModesOf(frame.chan), o.ops, o),
                                 frame.modes).modes

Origin == [line : Seq(ModeChar), params : Seq(Param), modes : Modes,
           ops : SUBSET Client, members : SUBSET Client, by : Client]

RefInv ==
  frame.op \in {"scan", "apply"} =>
    /\ origin \in Origin
    /\ origin.by = frame.client /\ origin.members = members[frame.chan]
    /\ frame.op = "scan" => /\ ModesOf(frame.chan) = origin.modes
                            /\ \E m \in Modes : Scanned(origin, m)
    /\ frame.op = "apply" => Applied(origin)

-----------------------------------------------------------------------------
(* A line read one character at a time.                                    *)

(* f keeps what each prefix of the line l leaves behind.                   *)
Steps(f, V, step, s, l) ==
  /\ f \in [0..Len(l) -> V] /\ f[0] = s
  /\ \A n \in 1..Len(l) : f[n] = step[<<f[n - 1], l[n]>>]

(* step takes a value of V and a character of X to a value of V.           *)
StepOn(step, V, X) == step \in [V \X X -> V]

(* There is such an f for every line.                                      *)
LEMMA StepsExist ==
  ASSUME NEW V, NEW X, NEW step, StepOn(step, V, X), NEW s \in V, NEW l \in Seq(X)
  PROVE  \E f : Steps(f, V, step, s, l)
  <1> DEFINE h == [p \in V \X Nat |->
                     IF p[2] + 1 \in 1..Len(l) THEN step[<<p[1], l[p[2] + 1]>>] ELSE p[1]]
  <1>0. Len(l) \in Nat /\ step \in [V \X X -> V]
    BY DEF StepOn
  <1>1. ASSUME NEW v \in V, NEW n \in Nat
        PROVE  /\ h[<<v, n>>] \in V
               /\ n + 1 \in 1..Len(l) => h[<<v, n>>] = step[<<v, l[n + 1]>>]
    BY <1>0
  <1>2. h \in [V \X Nat -> V]
    <2>1. \A p \in V \X Nat : p[1] \in V /\ p[2] \in Nat /\ p = <<p[1], p[2]>>
      OBVIOUS
    <2>2. \A p \in V \X Nat : h[p] \in V
      <3> HIDE DEF h
      <3> QED BY <1>1, <2>1
    <2> QED BY <2>2
  <1> HIDE DEF h
  <1>3. PICK g : Recurs(g, V, s, h)
    BY <1>2, Recursion
  <1> DEFINE f == [n \in 0..Len(l) |-> g[n]]
  <1>4. f \in [0..Len(l) -> V] /\ f[0] = s
    BY <1>0, <1>3 DEF Recurs
  <1>5. ASSUME NEW n \in 1..Len(l)
        PROVE  f[n] = step[<<f[n - 1], l[n]>>]
    <2>1. n - 1 \in Nat /\ (n - 1) + 1 = n /\ n - 1 \in 0..Len(l) /\ n \in 0..Len(l)
      BY <1>0
    <2>2. g[n] = h[<<g[n - 1], n - 1>>] /\ g[n - 1] \in V
      BY <1>3, <2>1 DEF Recurs
    <2>3. g[n] = step[<<g[n - 1], l[n]>>]
      BY <1>1, <2>1, <2>2
    <2> QED BY <2>1, <2>3
  <1> HIDE DEF f
  <1> QED BY <1>4, <1>5 DEF Steps

(* Through, defined by recursion along the line, is the last value of f.   *)
LEMMA ThroughIs ==
  ASSUME NEW V, NEW step, NEW s, NEW X, NEW l \in Seq(X), NEW f, Steps(f, V, step, s, l)
  PROVE  Through(step, s, l) = f[Len(l)]
  <1> DEFINE e(a) == [n \in 0..Len(l) |-> IF n = 0 THEN s ELSE step[<<a[n - 1], l[n]>>]]
             c == CHOOSE a : a = e(a)
  <1>0. Len(l) \in Nat
    OBVIOUS
  <1>1. f = e(f)
    BY <1>0 DEF Steps
  <1>2. c = e(c)
    BY <1>1
  <1>3. Through(step, s, l) = c[Len(l)]
    BY DEF Through
  <1> DEFINE P == {n \in 0..Len(l) : c[n] = f[n]}
  <1>4. c[0] = s /\ \A n \in 1..Len(l) : c[n] = step[<<c[n - 1], l[n]>>]
    <2>1. \A n \in 0..Len(l) : e(c)[n] = IF n = 0 THEN s ELSE step[<<c[n - 1], l[n]>>]
      OBVIOUS
    <2> HIDE DEF e, c
    <2>2. \A n \in 0..Len(l) : c[n] = IF n = 0 THEN s ELSE step[<<c[n - 1], l[n]>>]
      BY <1>2, <2>1, Zenon
    <2>3. 0 \in 0..Len(l) /\ \A n \in 1..Len(l) : n \in 0..Len(l) /\ n # 0
      BY <1>0
    <2> QED BY <2>2, <2>3, Zenon
  <1> HIDE DEF c, e
  <1>5. 0 \in P
    BY <1>0, <1>4 DEF Steps
  <1>6. ASSUME NEW n \in 0..(Len(l) - 1), n \in P
        PROVE  n + 1 \in P
    <2>1. n + 1 \in 1..Len(l) /\ (n + 1) - 1 = n /\ n + 1 \in 0..Len(l)
      BY <1>0
    <2>2. c[n + 1] = step[<<c[n], l[n + 1]>>]
      BY <1>4, <2>1
    <2>3. f[n + 1] = step[<<f[n], l[n + 1]>>]
      BY <2>1 DEF Steps
    <2>4. c[n] = f[n]
      BY <1>6
    <2> QED BY <2>1, <2>2, <2>3, <2>4
  <1> HIDE DEF P
  <1>7. \A n \in 0..Len(l) : n \in P
    BY <1>0, <1>5, <1>6, UpTo, Zenon
  <1>8. Len(l) \in 0..Len(l)
    BY <1>0
  <1> QED BY <1>3, <1>7, <1>8 DEF P

(* Reading a line: nothing is read of an empty one, and a character at     *)
(* either end is a step.                                                   *)
LEMMA ThroughEmpty ==
  ASSUME NEW step, NEW s
  PROVE  Through(step, s, <<>>) = s
  <1> DEFINE f == [n \in 0..0 |-> s]
             l == <<>>
             V == {s}
  <1>1. Steps(f, V, step, s, l)
    BY DEF Steps
  <1>2. Len(l) = 0 /\ f[0] = s
    OBVIOUS
  <1>3. l \in Seq(V)
    OBVIOUS
  <1> HIDE DEF f, l, V
  <1>4. Through(step, s, l) = f[Len(l)]
    BY <1>1, <1>3, ThroughIs, Zenon
  <1> QED BY <1>2, <1>4 DEF l

(* One more character at the end of the line is one more step.             *)
LEMMA ThroughAppend ==
  ASSUME NEW V, NEW X, NEW step, StepOn(step, V, X), NEW s \in V, NEW l \in Seq(X),
         NEW x \in X
  PROVE  /\ Through(step, s, l) \in V
         /\ Through(step, s, Append(l, x)) = step[<<Through(step, s, l), x>>]
  <1>1. PICK f : Steps(f, V, step, s, l)
    BY StepsExist
  <1> DEFINE r == Append(l, x)
             N == Len(l)
             g == [n \in 0..(N + 1) |-> IF n <= N THEN f[n] ELSE step[<<f[N], x>>]]
  <1>2. N \in Nat /\ r \in Seq(X) /\ Len(r) = N + 1 /\ r[N + 1] = x /\ \A n \in 1..N : r[n] = l[n]
    OBVIOUS
  <1>3. f[N] \in V /\ Through(step, s, l) = f[N]
    <2>1. Through(step, s, l) = f[N]
      BY <1>1, ThroughIs, Zenon
    <2>2. N \in 0..N
      BY <1>2
    <2> QED BY <1>1, <2>1, <2>2 DEF Steps
  <1>0. step[<<f[N], x>>] \in V
    BY <1>3 DEF StepOn
  <1>4. Steps(g, V, step, s, r)
    <2>1. g \in [0..Len(r) -> V] /\ g[0] = s
      BY <1>0, <1>1, <1>2, <1>3 DEF Steps
    <2>2. ASSUME NEW n \in 1..(N + 1)
          PROVE  g[n] = step[<<g[n - 1], r[n]>>]
      <3>1. CASE n = N + 1
        <4>1. ~(N + 1 <= N) /\ (N + 1) - 1 = N /\ N <= N /\ N + 1 \in 0..(N + 1) /\ N \in 0..(N + 1)
          BY <1>2
        <4>2. g[N + 1] = step[<<f[N], x>>] /\ g[N] = f[N]
          BY <4>1
        <4> HIDE DEF g, r, N
        <4> QED BY <1>2, <3>1, <4>1, <4>2
      <3>2. CASE n # N + 1
        <4>1. n \in 1..N /\ n <= N /\ n - 1 <= N /\ n - 1 \in 0..(N + 1) /\ n \in 0..(N + 1)
          BY <1>2, <3>2
        <4>2. g[n] = f[n] /\ g[n - 1] = f[n - 1]
          BY <4>1
        <4>3. f[n] = step[<<f[n - 1], l[n]>>]
          BY <1>1, <4>1 DEF Steps
        <4> HIDE DEF g, r, N
        <4> QED BY <1>2, <4>1, <4>2, <4>3
      <3> QED BY <3>1, <3>2
    <2> HIDE DEF g, r
    <2> QED BY <1>2, <2>1, <2>2 DEF Steps
  <1>5. g[N + 1] = step[<<f[N], x>>]
    BY <1>2
  <1> HIDE DEF g, r, N
  <1>6. Through(step, s, r) = g[N + 1]
    <2>1. r \in Seq(X) /\ Len(r) = N + 1
      BY <1>2
    <2>2. Through(step, s, r) = g[Len(r)]
      BY <1>4, <2>1, ThroughIs, Zenon
    <2> QED BY <2>1, <2>2
  <1> QED BY <1>3, <1>5, <1>6 DEF r

(* The first character can be taken before the rest of the line is read.   *)
LEMMA ThroughHead ==
  ASSUME NEW V, NEW X, NEW step, StepOn(step, V, X), NEW s \in V, NEW l \in Seq(X), l # <<>>
  PROVE  /\ step[<<s, Head(l)>>] \in V
         /\ Through(step, s, l) = Through(step, step[<<s, Head(l)>>], Tail(l))
  <1> DEFINE r == Tail(l)
             N == Len(r)
             t == step[<<s, Head(l)>>]
  <1>1. /\ N \in Nat /\ r \in Seq(X) /\ Len(l) = N + 1 /\ Head(l) = l[1] /\ l[1] \in X
        /\ \A n \in 1..N : r[n] = l[n + 1]
    OBVIOUS
  <1>2. t \in V
    BY <1>1 DEF StepOn
  <1>3. PICK f : Steps(f, V, step, s, l)
    BY StepsExist
  <1> DEFINE g == [n \in 0..N |-> f[n + 1]]
  <1> HIDE DEF r, N, t
  <1>4. Steps(g, V, step, t, r)
    <2>1. g \in [0..N -> V]
      <3>1. \A n \in 0..N : n + 1 \in 0..Len(l)
        BY <1>1
      <3> QED BY <1>3, <3>1 DEF Steps
    <2>2. g[0] = t
      <3>1. 0 \in 0..N /\ 0 + 1 = 1 /\ 1 \in 1..Len(l) /\ 1 - 1 = 0
        BY <1>1
      <3>2. f[1] = step[<<f[1 - 1], l[1]>>] /\ f[0] = s
        BY <1>3, <3>1 DEF Steps
      <3>3. f[1] = t
        BY <1>1, <3>1, <3>2 DEF t
      <3> QED BY <3>1, <3>3
    <2>3. ASSUME NEW n \in 1..N
          PROVE  g[n] = step[<<g[n - 1], r[n]>>]
      <3>1. /\ n \in 0..N /\ n - 1 \in 0..N /\ (n - 1) + 1 = n /\ n + 1 \in 1..Len(l)
            /\ (n + 1) - 1 = n
        BY <1>1
      <3>2. f[n + 1] = step[<<f[n], l[n + 1]>>]
        BY <1>3, <3>1 DEF Steps
      <3>3. g[n] = f[n + 1] /\ g[n - 1] = f[n]
        BY <3>1
      <3> HIDE DEF g
      <3> QED BY <1>1, <3>2, <3>3
    <2> HIDE DEF g
    <2> QED BY <2>1, <2>2, <2>3 DEF Steps, N
  <1>5. N \in 0..N
    BY <1>1
  <1>6. g[N] = f[Len(l)]
    BY <1>1, <1>5
  <1> HIDE DEF g
  <1>7. Through(step, s, l) = f[Len(l)]
    BY <1>3, ThroughIs, Zenon
  <1>8. Through(step, t, r) = g[N]
    <2>1. r \in Seq(X)
      BY <1>1
    <2>2. Through(step, t, r) = g[Len(r)]
      BY <1>4, <2>1, ThroughIs, Zenon
    <2> QED BY <2>2 DEF N
  <1> QED BY <1>2, <1>6, <1>7, <1>8 DEF t, r

-----------------------------------------------------------------------------
(* One character.                                                          *)

(* A letter keeps the type of the modes; i, t and whatever is unset do not *)
(* look at a parameter.                                                    *)
LEMMA ModesTyped ==
  ASSUME NEW m \in Modes, NEW on \in BOOLEAN, NEW x, NEW p \in Param \cup {NULL}
  PROVE  /\ ModesWith(m, on, x, p) \in Modes
         /\ ~(x \in {"k", "l"} /\ on) => ModesWith(m, on, x, p) = ModesWith(m, on, x, NULL)
         /\ x \notin {"i", "t", "k", "l"} => ModesWith(m, on, x, p) = m
  <1>1. p \in Numeral => atoi[p] \in Nat
    BY ParamAssumption
  <1>2. ModesWith(m, on, x, p) \in Modes
    BY <1>1 DEF ModesWith, Modes
  <1>3. ~(x \in {"k", "l"} /\ on) => ModesWith(m, on, x, p) = ModesWith(m, on, x, NULL)
    BY DEF ModesWith
  <1>4. x \notin {"i", "t", "k", "l"} => ModesWith(m, on, x, p) = m
    BY DEF ModesWith
  <1> QED BY <1>2, <1>3, <1>4

(* The same without a parameter.                                           *)
LEMMA ModesNone ==
  ASSUME NEW m \in Modes, NEW on \in BOOLEAN, NEW x
  PROVE  ModesWith(m, on, x, NULL) \in Modes
  <1>1. NULL \in Param \cup {NULL}
    OBVIOUS
  <1> QED BY <1>1, ModesTyped

(* A reader put together from parts of the right type has the right type.  *)
LEMMA PointTyped ==
  ASSUME NEW on \in BOOLEAN, NEW ps \in Seq(Param), NEW n \in 0..3, NEW m \in Modes,
         NEW ops \in SUBSET Client, NEW o \in Origin
  PROVE  Point(on, ps, n, m, ops, o) \in Reader
  BY DEF Point, Reader, Origin

(* A character heard.                                                      *)
LEMMA HearPoint ==
  ASSUME NEW on \in BOOLEAN, NEW ps \in Seq(Param), NEW n \in 0..3, NEW m \in Modes,
         NEW ops \in SUBSET Client, NEW o \in Origin, NEW x \in ModeChar
  PROVE  Hear(Point(on, ps, n, m, ops, o), x) =
           IF x \in Sign THEN Point(x = "+", ps, n, m, ops, o)
           ELSE IF x \in {"k", "l"} /\ on /\ ps # <<>>
           THEN Point(on, Tail(ps), n, ModesWith(m, on, x, Head(ps)), ops, o)
           ELSE Point(on, ps, n, ModesWith(m, on, x, NULL), ops, o)
  <1> DEFINE s == Point(on, ps, n, m, ops, o)
  <1>1. s.on = on /\ s.params = ps /\ s.modes = m
    BY DEF Point
  <1>2. CASE x \in Sign
    BY <1>2 DEF Hear, Point
  <1>3. CASE x \notin Sign /\ x \in {"k", "l"} /\ on /\ ps # <<>>
    <2>1. Hear(s, x) = [s EXCEPT !.params = Tail(ps), !.modes = ModesWith(m, on, x, Head(ps))]
      <3> HIDE DEF s
      <3> QED BY <1>1, <1>3 DEF Hear
    <2> QED BY <1>3, <2>1 DEF Point
  <1>4. CASE x \notin Sign /\ ~(x \in {"k", "l"} /\ on /\ ps # <<>>)
    <2>1. Hear(s, x) = [s EXCEPT !.modes = ModesWith(m, on, x, NULL)]
      <3> HIDE DEF s
      <3> QED BY <1>1, <1>4 DEF Hear
    <2> QED BY <1>4, <2>1 DEF Point
  <1> QED BY <1>2, <1>3, <1>4

(* A character read.                                                       *)
LEMMA ReadPoint ==
  ASSUME NEW on \in BOOLEAN, NEW ps \in Seq(Param), NEW n \in 0..3, NEW m \in Modes,
         NEW ops \in SUBSET Client, NEW o \in Origin, NEW x \in ModeChar
  PROVE  LET s == Point(on, ps, n, m, ops, o)
             p == IF Takes(x, on) /\ ps # <<>> THEN Head(ps) ELSE NULL
             qs == IF p = NULL THEN ps ELSE Tail(ps)
             counts == x \in {"o", "k", "l"}
         IN  Read(s, x) =
               IF x \in Sign THEN Point(x = "+", ps, n, m, ops, o)
               ELSE IF (Wants(x, on) /\ p = NULL) \/ (counts /\ n = 3)
               THEN Point(on, qs, n, m, ops, o)
               ELSE Point(on, qs, IF counts THEN n + 1 ELSE n, ModesWith(m, on, x, p),
                          OpsWith(s, x, p), o)
  <1> DEFINE s == Point(on, ps, n, m, ops, o)
             p == IF Takes(x, on) /\ ps # <<>> THEN Head(ps) ELSE NULL
             qs == IF p = NULL THEN ps ELSE Tail(ps)
             counts == x \in {"o", "k", "l"}
  <1>1. /\ s.on = on /\ s.params = ps /\ s.modes = m /\ s.count = n
        /\ s.members = o.members /\ s.by = o.by
    BY DEF Point
  <1>2. Read(s, x) = IF x \in Sign THEN [s EXCEPT !.on = (x = "+")]
                     ELSE IF (Wants(x, on) /\ p = NULL) \/ (counts /\ n = 3)
                     THEN [s EXCEPT !.params = qs]
                     ELSE Point(on, qs, IF counts THEN n + 1 ELSE n, ModesWith(m, on, x, p),
                                OpsWith(s, x, p), s)
    <2> HIDE DEF s
    <2> QED BY <1>1 DEF Read
  <1> HIDE DEF p, counts, qs
  <1>3. [s EXCEPT !.params = qs] = Point(on, qs, n, m, ops, o)
    BY DEF Point
  <1>4. [s EXCEPT !.on = (x = "+")] = Point(x = "+", ps, n, m, ops, o)
    BY DEF Point
  <1>5. \A a, b, c : Point(on, qs, a, b, c, s) = Point(on, qs, a, b, c, o)
    <2> HIDE DEF s
    <2> QED BY <1>1 DEF Point
  <1> QED BY <1>2, <1>3, <1>4, <1>5 DEF p, counts, qs

(* Both are steps on readers.                                              *)
LEMMA ReaderIsPoint ==
  ASSUME NEW s \in Reader
  PROVE  \E o \in Origin : s = Point(s.on, s.params, s.count, s.modes, s.ops, o)
  <1> DEFINE o == [line |-> <<>>, params |-> <<>>, modes |-> s.modes, ops |-> s.ops,
                   members |-> s.members, by |-> s.by]
  <1>1. o \in Origin
    BY DEF Reader, Origin
  <1>2. s = Point(s.on, s.params, s.count, s.modes, s.ops, o)
    BY DEF Reader, Point
  <1> QED BY <1>1, <1>2

(* An o names a member and is given by an operator, or leaves the          *)
(* operators alone.                                                        *)
LEMMA OpsTyped ==
  ASSUME NEW on \in BOOLEAN, NEW ps, NEW n, NEW m,
         NEW ops \in SUBSET Client, NEW o \in Origin, NEW x, NEW p
  PROVE  LET s == Point(on, ps, n, m, ops, o)
         IN  /\ OpsWith(s, x, p) \in SUBSET Client
             /\ x # "o" => OpsWith(s, x, p) = ops
             /\ OpsWith(s, x, p) = IF x # "o" \/ p \notin o.members \/ o.by \notin ops THEN ops
                                   ELSE IF on THEN ops \cup {p} ELSE ops \ {p}
  <1> DEFINE s == Point(on, ps, n, m, ops, o)
  <1>1. s.on = on /\ s.ops = ops /\ s.members = o.members /\ s.by = o.by
    BY DEF Point
  <1>2. o.members \in SUBSET Client
    BY DEF Origin
  <1> HIDE DEF s
  <1>3. OpsWith(s, x, p) = IF x # "o" \/ p \notin o.members \/ o.by \notin ops THEN ops
                           ELSE IF on THEN ops \cup {p} ELSE ops \ {p}
    BY <1>1 DEF OpsWith
  <1>4. OpsWith(s, x, p) \in SUBSET Client /\ (x # "o" => OpsWith(s, x, p) = ops)
    BY <1>2, <1>3
  <1> QED BY <1>3, <1>4 DEF s

(* Hearing a character takes a reader to a reader.                         *)
LEMMA HearStep == StepOn(hearing, Reader, ModeChar)
  <1>1. ASSUME NEW s \in Reader, NEW x \in ModeChar
        PROVE  Hear(s, x) \in Reader
    <2>1. PICK o \in Origin : s = Point(s.on, s.params, s.count, s.modes, s.ops, o)
      BY ReaderIsPoint
    <2> DEFINE on == s.on
               ps == s.params
               n == s.count
               m == s.modes
               ops == s.ops
    <2>2. /\ on \in BOOLEAN /\ ps \in Seq(Param) /\ n \in 0..3 /\ m \in Modes
          /\ ops \in SUBSET Client
      BY DEF Reader
    <2> HIDE DEF on, ps, n, m, ops
    <2>3. (x = "+") \in BOOLEAN /\ ModesWith(m, on, x, NULL) \in Modes
      BY <2>2, ModesNone
    <2>4. ps # <<>> => Tail(ps) \in Seq(Param) /\ Head(ps) \in Param \cup {NULL}
      BY <2>2
    <2>5. ps # <<>> => ModesWith(m, on, x, Head(ps)) \in Modes
      BY <2>2, <2>4, ModesTyped
    <2>6. /\ Point(x = "+", ps, n, m, ops, o) \in Reader
          /\ ps # <<>> => Point(on, Tail(ps), n, ModesWith(m, on, x, Head(ps)), ops, o) \in Reader
          /\ Point(on, ps, n, ModesWith(m, on, x, NULL), ops, o) \in Reader
      BY <2>2, <2>3, <2>4, <2>5, PointTyped
    <2>7. Hear(Point(on, ps, n, m, ops, o), x) \in Reader
      BY <2>2, <2>6, HearPoint
    <2> QED BY <2>1, <2>7 DEF on, ps, n, m, ops
  <1>2. \A q \in Reader \X ModeChar : q[1] \in Reader /\ q[2] \in ModeChar
    OBVIOUS
  <1> QED BY <1>1, <1>2 DEF hearing, StepOn

(* Reading a character takes a reader to a reader.                         *)
LEMMA ReadStepTyped == StepOn(reading, Reader, ModeChar)
  <1>1. ASSUME NEW s \in Reader, NEW x \in ModeChar
        PROVE  Read(s, x) \in Reader
    <2>1. PICK o \in Origin : s = Point(s.on, s.params, s.count, s.modes, s.ops, o)
      BY ReaderIsPoint
    <2> DEFINE on == s.on
               ps == s.params
               n == s.count
               m == s.modes
               ops == s.ops
               z == Point(on, ps, n, m, ops, o)
               p == IF Takes(x, on) /\ ps # <<>> THEN Head(ps) ELSE NULL
               qs == IF p = NULL THEN ps ELSE Tail(ps)
               counts == x \in {"o", "k", "l"}
    <2>2. /\ on \in BOOLEAN /\ ps \in Seq(Param) /\ n \in 0..3 /\ m \in Modes
          /\ ops \in SUBSET Client
      BY DEF Reader
    <2> HIDE DEF on, ps, n, m, ops
    <2>3. p \in Param \cup {NULL} /\ qs \in Seq(Param)
      BY <2>2
    <2>4. Read(z, x) = IF x \in Sign THEN Point(x = "+", ps, n, m, ops, o)
               ELSE IF (Wants(x, on) /\ p = NULL) \/ (counts /\ n = 3)
               THEN Point(on, qs, n, m, ops, o)
               ELSE Point(on, qs, IF counts THEN n + 1 ELSE n, ModesWith(m, on, x, p),
                          OpsWith(z, x, p), o)
      BY <2>2, ReadPoint
    <2>5. ModesWith(m, on, x, p) \in Modes
      <3> HIDE DEF p
      <3> QED BY <2>2, <2>3, ModesTyped
    <2>6. OpsWith(z, x, p) \in SUBSET Client
      <3> HIDE DEF p
      <3> QED BY <2>2, OpsTyped
    <2>7. ~(counts /\ n = 3) => (IF counts THEN n + 1 ELSE n) \in 0..3
      BY <2>2
    <2> DEFINE n2 == IF counts THEN n + 1 ELSE n
               m2 == ModesWith(m, on, x, p)
               q2 == OpsWith(z, x, p)
               e2 == x = "+"
    <2>8. e2 \in BOOLEAN
      OBVIOUS
    <2> HIDE DEF p, qs, counts, n2, m2, q2, e2
    <2>9. Point(e2, ps, n, m, ops, o) \in Reader /\ Point(on, qs, n, m, ops, o) \in Reader
      BY <2>2, <2>3, <2>8, PointTyped
    <2>10. ~(counts /\ n = 3) => Point(on, qs, n2, m2, q2, o) \in Reader
      BY <2>2, <2>3, <2>5, <2>6, <2>7, PointTyped DEF n2, m2, q2
    <2>11. Read(z, x) \in Reader
      BY <2>4, <2>9, <2>10 DEF n2, m2, q2, e2
    <2> QED BY <2>1, <2>11 DEF on, ps, n, m, ops
  <1>2. \A q \in Reader \X ModeChar : q[1] \in Reader /\ q[2] \in ModeChar
    OBVIOUS
  <1> QED BY <1>1, <1>2 DEF reading, StepOn

-----------------------------------------------------------------------------
(* A whole line.                                                           *)

(* The first character of a line is read, or heard, first.                 *)
LEMMA ReadsFirst ==
  ASSUME NEW s \in Reader, NEW l \in Seq(ModeChar), l # <<>>
  PROVE  /\ Read(s, Head(l)) \in Reader
         /\ Through(reading, s, l) = Through(reading, Read(s, Head(l)), Tail(l))
  <1>1. Head(l) \in ModeChar
    OBVIOUS
  <1>2. reading[<<s, Head(l)>>] = Read(s, Head(l))
    BY <1>1 DEF reading
  <1>3. /\ reading[<<s, Head(l)>>] \in Reader
        /\ Through(reading, s, l) = Through(reading, reading[<<s, Head(l)>>], Tail(l))
    BY ReadStepTyped, ThroughHead
  <1> QED BY <1>2, <1>3

(* ThroughHead for a line that is heard.                                   *)
LEMMA HearsFirst ==
  ASSUME NEW s \in Reader, NEW l \in Seq(ModeChar), l # <<>>
  PROVE  /\ Hear(s, Head(l)) \in Reader
         /\ Through(hearing, s, l) = Through(hearing, Hear(s, Head(l)), Tail(l))
  <1>1. Head(l) \in ModeChar
    OBVIOUS
  <1>2. hearing[<<s, Head(l)>>] = Hear(s, Head(l))
    BY <1>1 DEF hearing
  <1>3. /\ hearing[<<s, Head(l)>>] \in Reader
        /\ Through(hearing, s, l) = Through(hearing, hearing[<<s, Head(l)>>], Tail(l))
    BY HearStep, ThroughHead
  <1> QED BY <1>2, <1>3

(* The last character is heard last.                                       *)
LEMMA HearsLast ==
  ASSUME NEW s \in Reader, NEW l \in Seq(ModeChar), NEW x \in ModeChar
  PROVE  /\ Through(hearing, s, l) \in Reader
         /\ Through(hearing, s, Append(l, x)) = Hear(Through(hearing, s, l), x)
  <1>1. /\ Through(hearing, s, l) \in Reader
        /\ Through(hearing, s, Append(l, x)) = hearing[<<Through(hearing, s, l), x>>]
    BY HearStep, ThroughAppend
  <1>2. hearing[<<Through(hearing, s, l), x>>] = Hear(Through(hearing, s, l), x)
    BY <1>1 DEF hearing
  <1> QED BY <1>1, <1>2

(* A reader at the start of the line has the right type.                   *)
LEMMA StartTyped ==
  ASSUME NEW ps \in Seq(Param), NEW o \in Origin
  PROVE  Start(ps, o) \in Reader
  <1>1. TRUE \in BOOLEAN /\ 0 \in 0..3 /\ o.modes \in Modes /\ o.ops \in SUBSET Client
    BY DEF Origin
  <1> QED BY <1>1, PointTyped DEF Start

(* Sequences.                                                              *)
LEMMA Associates ==
  ASSUME NEW S, NEW a \in Seq(S), NEW b \in Seq(S), NEW c \in Seq(S)
  PROVE  (a \o b) \o c = a \o (b \o c)
  OBVIOUS

(* A parameter put before a line of parameters is the first of them.       *)
LEMMA HeadFirst ==
  ASSUME NEW S, NEW p \in S, NEW q \in Seq(S)
  PROVE  <<p>> \o q # <<>> /\ Head(<<p>> \o q) = p /\ Tail(<<p>> \o q) = q
  <1> DEFINE r == <<p>> \o q
  <1>1. r \in Seq(S) /\ Len(r) = Len(q) + 1 /\ r[1] = p /\ Len(q) \in Nat
    OBVIOUS
  <1>2. \A i \in 1..Len(q) : r[i + 1] = q[i]
    OBVIOUS
  <1> HIDE DEF r
  <1>3. r # <<>> /\ Head(r) = p /\ Tail(r) \in Seq(S) /\ Len(Tail(r)) = Len(q)
    BY <1>1
  <1>4. \A i \in 1..Len(q) : Tail(r)[i] = q[i]
    BY <1>1, <1>2
  <1>5. Tail(r) = q
    BY <1>3, <1>4, SeqEqual
  <1> QED BY <1>3, <1>5 DEF r

(* What tells nothing changes nothing.                                     *)
LEMMA TellsNothing ==
  ASSUME NEW o \in Origin
  PROVE  Tells(o, <<>>, <<>>, "none", o.modes)
  <1> SUFFICES ASSUME NEW more \in Seq(Param)
               PROVE  Through(hearing, Start(<<>> \o more, o), <<>>)
                        = Point("none" # "-", more, 0, o.modes, o.ops, o)
    BY DEF Tells
  <1>1. <<>> \o more = more /\ ("none" # "-") = TRUE
    OBVIOUS
  <1>2. Through(hearing, Start(more, o), <<>>) = Start(more, o)
    BY ThroughEmpty
  <1> QED BY <1>1, <1>2 DEF Start

(* A letter more, as appendApplied writes it and with its argument if it   *)
(* is one with an argument, tells one change more.                         *)
LEMMA TellsMore ==
  ASSUME NEW o \in Origin, NEW l \in Seq(ModeChar), NEW ps \in Seq(Param),
         NEW last \in Sign \cup {"none"}, NEW m \in Modes, Tells(o, l, ps, last, m),
         NEW e \in BOOLEAN, NEW x \in {"i", "t", "k", "l"}, NEW p \in Param \cup {NULL},
         NEW args, IF x \in {"k", "l"} /\ e THEN p \in Param /\ args = <<p>> ELSE args = <<>>
  PROVE  Tells(o, appendApplied(l, last, e, x), ps \o args, sign(e), ModesWith(m, e, x, p))
  <1> DEFINE m2 == ModesWith(m, e, x, p)
             r == appendApplied(l, last, e, x)
  <1> SUFFICES ASSUME NEW more \in Seq(Param)
               PROVE  Through(hearing, Start((ps \o args) \o more, o), r)
                        = Point(sign(e) # "-", more, 0, m2, o.ops, o)
    BY DEF Tells
  <1>0. /\ x \in ModeChar /\ x \notin Sign /\ sign(e) \in ModeChar /\ sign(e) \in Sign
        /\ (sign(e) = "+") = e /\ (sign(e) # "-") = e
    BY DEF ModeChar, Sign, sign
  <1>1. o.ops \in SUBSET Client /\ o.modes \in Modes /\ 0 \in 0..3
    BY DEF Origin
  <1> DEFINE qs == args \o more
             b == Start(ps \o qs, o)
             d == last # "-"
             s1 == Point(d, qs, 0, m, o.ops, o)
             s2 == Point(e, qs, 0, m, o.ops, o)
  <1>2. args \in Seq(Param) /\ qs \in Seq(Param) /\ (ps \o args) \o more = ps \o qs
    <2>1. args \in Seq(Param)
      <3>1. (\A a \in Param : <<a>> \in Seq(Param)) /\ <<>> \in Seq(Param)
        OBVIOUS
      <3>2. (args = <<p>> /\ p \in Param) \/ args = <<>>
        OBVIOUS
      <3> QED BY <3>1, <3>2
    <2>2. qs \in Seq(Param)
      BY <2>1
    <2>3. (ps \o args) \o more = ps \o qs
      BY <2>1, Associates DEF qs
    <2> QED BY <2>1, <2>2, <2>3
  <1>3. b \in Reader
    <2>1. ps \o qs \in Seq(Param)
      BY <1>2
    <2> QED BY <2>1, StartTyped
  <1>4. Through(hearing, b, l) = s1 /\ d \in BOOLEAN
    BY <1>2 DEF Tells
  <1> HIDE DEF qs, d, b
  <1>5. s2 \in Reader
    BY <1>1, <1>2, PointTyped
  <1>6. Through(hearing, b, r) = Hear(s2, x)
    <2>1. CASE sign(e) = last
      <3>1. r = Append(l, x)
        BY <2>1 DEF appendApplied
      <3>2. d = e
        BY <1>0, <2>1 DEF d
      <3>3. Through(hearing, b, Append(l, x)) = Hear(Through(hearing, b, l), x)
        BY <1>0, <1>3, HearsLast
      <3> QED BY <1>4, <3>1, <3>2, <3>3
    <2>2. CASE sign(e) # last
      <3>1. r = Append(Append(l, sign(e)), x) /\ Append(l, sign(e)) \in Seq(ModeChar)
        BY <1>0, <2>2 DEF appendApplied
      <3>2. Through(hearing, b, Append(l, sign(e))) = Hear(s1, sign(e))
        BY <1>0, <1>3, <1>4, HearsLast
      <3>3. Hear(s1, sign(e)) = Point(sign(e) = "+", qs, 0, m, o.ops, o)
        <4> DEFINE g == sign(e)
        <4>1. g \in ModeChar /\ g \in Sign
          BY <1>0
        <4> HIDE DEF g
        <4>2. Hear(s1, g) = Point(g = "+", qs, 0, m, o.ops, o)
          BY <1>1, <1>2, <1>4, <4>1, HearPoint
        <4> QED BY <4>2 DEF g
      <3>4. Hear(s1, sign(e)) = s2
        BY <1>0, <3>3
      <3>5. Through(hearing, b, Append(Append(l, sign(e)), x))
              = Hear(Through(hearing, b, Append(l, sign(e))), x)
        <4> DEFINE k == Append(l, sign(e))
        <4>1. k \in Seq(ModeChar)
          BY <3>1
        <4> HIDE DEF k
        <4>2. Through(hearing, b, Append(k, x)) = Hear(Through(hearing, b, k), x)
          BY <1>0, <1>3, <4>1, HearsLast
        <4> QED BY <4>2 DEF k
      <3> QED BY <3>1, <3>2, <3>4, <3>5
    <2> QED BY <2>1, <2>2
  <1>7. Hear(s2, x) = Point(e, more, 0, m2, o.ops, o)
    <2>0. Hear(s2, x) = IF x \in {"k", "l"} /\ e /\ qs # <<>>
           THEN Point(e, Tail(qs), 0, ModesWith(m, e, x, Head(qs)), o.ops, o)
           ELSE Point(e, qs, 0, ModesWith(m, e, x, NULL), o.ops, o)
      <3> DEFINE z == o.ops
      <3>1. z \in SUBSET Client /\ qs \in Seq(Param) /\ 0 \in 0..3 /\ x \in ModeChar
        BY <1>0, <1>1, <1>2
      <3> HIDE DEF z
      <3>2. Hear(Point(e, qs, 0, m, z, o), x) =
              IF x \in Sign THEN Point(x = "+", qs, 0, m, z, o)
              ELSE IF x \in {"k", "l"} /\ e /\ qs # <<>>
              THEN Point(e, Tail(qs), 0, ModesWith(m, e, x, Head(qs)), z, o)
              ELSE Point(e, qs, 0, ModesWith(m, e, x, NULL), z, o)
        BY <3>1, HearPoint
      <3> QED BY <1>0, <3>2, Zenon DEF z
    <2>1. CASE x \in {"k", "l"} /\ e
      <3>1. args = <<p>> /\ p \in Param
        BY <2>1
      <3>2. <<p>> \o more # <<>> /\ Head(<<p>> \o more) = p /\ Tail(<<p>> \o more) = more
        BY <3>1, HeadFirst
      <3>3. qs # <<>> /\ Head(qs) = p /\ Tail(qs) = more
        BY <3>1, <3>2 DEF qs
      <3> QED BY <2>0, <2>1, <3>3
    <2>2. CASE ~(x \in {"k", "l"} /\ e)
      <3>1. qs = more
        BY <2>2 DEF qs
      <3>2. m2 = ModesWith(m, e, x, NULL)
        BY <2>2, ModesTyped
      <3> QED BY <2>0, <2>2, <3>1, <3>2
    <2> QED BY <2>1, <2>2
  <1> QED BY <1>0, <1>2, <1>6, <1>7 DEF b

-----------------------------------------------------------------------------
(* The loop of Mode::execute.                                              *)

(* The locals of Mode::execute while one of its loops runs.                *)
LEMMA FrameTyped ==
  ASSUME TypeOK, frame.op \in {"scan", "apply"}, FramePointers
  PROVE  /\ frame.modes \in Seq(ModeChar) /\ frame.params \in Seq(Param)
         /\ frame.enable \in BOOLEAN /\ frame.paramModeCount \in 0..3
         /\ frame.out \in Seq(ModeChar) /\ frame.outParams \in Seq(Param)
         /\ frame.lastSign \in Sign \cup {"none"}
         /\ frame.chan \in ChannelKey /\ frame.client \in Client
         /\ operators[frame.chan] \in SUBSET Client /\ ModesOf(frame.chan) \in Modes
  <1>1. /\ frame.modes \in Seq(ModeChar) /\ frame.params \in Seq(Param)
        /\ frame.enable \in BOOLEAN /\ frame.paramModeCount \in 0..3
        /\ frame.out \in Seq(ModeChar) /\ frame.outParams \in Seq(Param)
        /\ frame.lastSign \in Sign \cup {"none"}
    BY DEF TypeOK, Frame
  <1>2. frame.chan \in ChannelKey /\ frame.client \in Client
    BY DEF TypeOK, FramePointers
  <1>3. operators[frame.chan] \in SUBSET Client /\ ModesOf(frame.chan) \in Modes
    BY <1>2 DEF TypeOK, ModesOf, Modes
  <1> QED BY <1>1, <1>2, <1>3

(* The invariant after an iteration of which Read gives the effect.        *)
LEMMA ScanReads ==
  ASSUME TypeOK, FramePointers, RefInv, frame.op = "scan", frame.modes # <<>>,
         NEW m \in Modes, Scanned(origin, m),
         origin' = origin, frame'.op = "scan", frame'.modes = Tail(frame.modes),
         frame'.client = frame.client, frame'.chan = frame.chan, members' = members,
         UNCHANGED <<key, userLimit, inviteOnly, topicByOpOnly>>,
         NEW m2 \in Modes,
         Read(Point(frame.enable, frame.params, frame.paramModeCount, m,
                    operators[frame.chan], origin), Head(frame.modes))
           = Point(frame'.enable, frame'.params, frame'.paramModeCount, m2,
                   operators'[frame.chan], origin),
         Tells(origin, frame'.out, frame'.outParams, frame'.lastSign, m2)
  PROVE  RefInv'
  <1> DEFINE o == origin
             s == Point(frame.enable, frame.params, frame.paramModeCount, m,
                        operators[frame.chan], o)
             t == Point(frame'.enable, frame'.params, frame'.paramModeCount, m2,
                        operators'[frame.chan], o)
  <1>1. /\ o \in Origin /\ o.by = frame.client /\ o.members = members[frame.chan]
        /\ ModesOf(frame.chan) = o.modes
    BY DEF RefInv
  <1>2. /\ frame.modes \in Seq(ModeChar) /\ frame.params \in Seq(Param)
        /\ frame.enable \in BOOLEAN /\ frame.paramModeCount \in 0..3
        /\ operators[frame.chan] \in SUBSET Client
    BY FrameTyped
  <1>3. s \in Reader
    BY <1>1, <1>2, PointTyped
  <1>4. ReadLine(o) = Through(reading, s, frame.modes)
    BY DEF Scanned
  <1> HIDE DEF s
  <1>5. Through(reading, s, frame.modes) = Through(reading, Read(s, Head(frame.modes)), Tail(frame.modes))
    BY <1>2, <1>3, ReadsFirst
  <1>6. ReadLine(o) = Through(reading, t, frame'.modes)
    BY <1>4, <1>5 DEF s
  <1>7. Scanned(o, m2)'
    BY <1>6 DEF Scanned
  <1>8. ModesOf(frame.chan)' = ModesOf(frame.chan)
    BY DEF ModesOf
  <1> QED BY <1>1, <1>7, <1>8 DEF RefInv

(* A turn of the first loop of Mode::execute keeps what was scanned and    *)
(* what is to come in step with one reading of the line.                   *)
LEMMA RefScan ==
  ASSUME TypeOK, LiveClients, FramePointers, RefInv, origin' = origin,
         ScanSign \/ ScanUnknown \/ ScanMissing \/ ScanOverLimit \/ ScanOperator \/ ScanFilter
  PROVE  RefInv'
  <1> DEFINE o == origin
             k == frame.chan
             x == Head(frame.modes)
             on == frame.enable
             ps == frame.params
             n == frame.paramModeCount
             ops == operators[k]
             p == IF Takes(x, on) /\ ps # <<>> THEN Head(ps) ELSE NULL
             qs == IF p = NULL THEN ps ELSE Tail(ps)
             counts == x \in {"o", "k", "l"}
  <1>1. frame.op = "scan" /\ frame.modes # <<>> /\ frame \in Frame
    BY DEF ScanSign, ScanUnknown, ScanMissing, ScanOverLimit, ScanOperator, ScanFilter,
           Scanning, TypeOK
  <1>2. PICK m \in Modes : Scanned(o, m)
    BY <1>1 DEF RefInv
  <1>3. /\ frame.modes \in Seq(ModeChar) /\ ps \in Seq(Param) /\ on \in BOOLEAN
        /\ n \in 0..3 /\ frame.out \in Seq(ModeChar) /\ frame.outParams \in Seq(Param)
        /\ frame.lastSign \in Sign \cup {"none"} /\ k \in ChannelKey
        /\ ops \in SUBSET Client /\ x \in ModeChar
    BY <1>1, FrameTyped
  <1>4. /\ o \in Origin /\ o.by = frame.client /\ o.members = members[k]
        /\ Tells(o, frame.out, frame.outParams, frame.lastSign, m)
    BY <1>1, <1>2 DEF RefInv, Scanned
  <1> DEFINE s == Point(on, ps, n, m, ops, o)
             m2 == ModesWith(m, on, x, p)
             q2 == OpsWith(s, x, p)
             n2 == IF counts THEN n + 1 ELSE n
  <1>5. Read(s, x) = IF x \in Sign THEN Point(x = "+", ps, n, m, ops, o)
               ELSE IF (Wants(x, on) /\ p = NULL) \/ (counts /\ n = 3)
               THEN Point(on, qs, n, m, ops, o)
               ELSE Point(on, qs, n2, m2, q2, o)
    BY <1>3, <1>4, ReadPoint
  <1>6. /\ p # NULL <=> hasParam
        /\ p # NULL => p = Head(ps) /\ p \in Param
        /\ Wants(x, on) <=> requiresParam
        /\ p \in Param \cup {NULL} /\ qs = rest
    <2>1. ps # <<>> => Head(ps) \in Param /\ Head(ps) # NULL
      BY <1>3, NullAssumption
    <2>2. Takes(x, on) <=> takesParam
      BY DEF Takes, takesParam, letter
    <2>3. Wants(x, on) <=> requiresParam
      BY DEF Wants, requiresParam, letter
    <2>4. p # NULL <=> hasParam
      BY <2>1, <2>2 DEF hasParam
    <2> QED BY <2>1, <2>3, <2>4 DEF rest
  <1>7. m2 \in Modes /\ (x \notin {"i", "t", "k", "l"} => m2 = m)
    <2> HIDE DEF p
    <2> QED BY <1>3, <1>6, ModesTyped
  <1>8. /\ q2 \in SUBSET Client /\ (x # "o" => q2 = ops)
        /\ q2 = IF x # "o" \/ p \notin o.members \/ o.by \notin ops THEN ops
                ELSE IF on THEN ops \cup {p} ELSE ops \ {p}
    <2>1. on \in BOOLEAN /\ ops \in SUBSET Client /\ o \in Origin
      BY <1>3, <1>4
    <2> HIDE DEF p, x, on, ps, n, ops, o, k
    <2> QED BY <2>1, OpsTyped
  <1> HIDE DEF s, m2, q2, p, qs
  <1>9. ASSUME frame'.op = "scan", frame'.modes = Tail(frame.modes),
               frame'.client = frame.client, frame'.chan = frame.chan, members' = members,
               UNCHANGED <<key, userLimit, inviteOnly, topicByOpOnly>>,
               NEW r \in Modes,
               Read(s, x) = Point(frame'.enable, frame'.params, frame'.paramModeCount, r,
                                  operators'[k], o),
               Tells(o, frame'.out, frame'.outParams, frame'.lastSign, r)
        PROVE  RefInv'
    BY <1>1, <1>2, <1>9, ScanReads DEF s
  <1>10. ASSUME Continue \/ \E code : Complain(code)
         PROVE  /\ members' = members /\ operators' = operators
                /\ UNCHANGED <<key, userLimit, inviteOnly, topicByOpOnly>>
    BY <1>10 DEF Continue, Complain, chanVars, settings
  <1>11. CASE ScanSign
    <2>1. /\ frame'.op = "scan" /\ frame'.modes = Tail(frame.modes)
          /\ frame'.client = frame.client /\ frame'.chan = frame.chan
          /\ frame'.enable = (x = "+") /\ frame'.params = ps /\ frame'.paramModeCount = n
          /\ frame'.out = frame.out /\ frame'.outParams = frame.outParams
          /\ frame'.lastSign = frame.lastSign
      BY <1>1, <1>11 DEF ScanSign, Frame, letter
    <2>2. x \in Sign /\ Continue
      BY <1>11 DEF ScanSign, Scanning
    <2>3. Read(s, x) = Point(frame'.enable, frame'.params, frame'.paramModeCount, m,
                             operators'[k], o)
      BY <1>5, <1>10, <2>1, <2>2
    <2>4. Tells(o, frame'.out, frame'.outParams, frame'.lastSign, m)
      BY <1>4, <2>1
    <2> QED BY <1>9, <1>10, <2>1, <2>2, <2>3, <2>4
  <1>12. CASE ScanUnknown
    <2>1. /\ frame'.op = "scan" /\ frame'.modes = Tail(frame.modes)
          /\ frame'.client = frame.client /\ frame'.chan = frame.chan
          /\ frame'.enable = on /\ frame'.params = ps /\ frame'.paramModeCount = n
          /\ frame'.out = frame.out /\ frame'.outParams = frame.outParams
          /\ frame'.lastSign = frame.lastSign
      BY <1>1, <1>12 DEF ScanUnknown, Frame
    <2>2. x = "x" /\ Complain("472")
      BY <1>12 DEF ScanUnknown, Scanning
    <2>3. x \notin Sign /\ ~counts /\ ~Wants(x, on) /\ ~Takes(x, on)
      BY <2>2 DEF Sign, Wants, Takes
    <2>4. qs = ps /\ n2 = n /\ m2 = m /\ q2 = ops
      BY <1>7, <1>8, <2>2, <2>3 DEF qs, p
    <2>5. Read(s, x) = Point(on, ps, n, m, ops, o)
      BY <1>5, <2>3, <2>4
    <2>6. Read(s, x) = Point(frame'.enable, frame'.params, frame'.paramModeCount, m,
                             operators'[k], o)
      BY <1>10, <2>1, <2>2, <2>5
    <2>7. Tells(o, frame'.out, frame'.outParams, frame'.lastSign, m)
      BY <1>4, <2>1
    <2> QED BY <1>9, <1>10, <2>1, <2>2, <2>6, <2>7
  <1>13. CASE ScanMissing \/ ScanOverLimit
    <2>1. /\ frame'.op = "scan" /\ frame'.modes = Tail(frame.modes)
          /\ frame'.client = frame.client /\ frame'.chan = frame.chan
          /\ frame'.enable = on /\ frame'.paramModeCount = n
          /\ frame'.out = frame.out /\ frame'.outParams = frame.outParams
          /\ frame'.lastSign = frame.lastSign
      BY <1>1, <1>13 DEF ScanMissing, ScanOverLimit, Frame
    <2>2. frame'.params = qs
      <3>1. CASE ScanMissing
        <4>1. frame'.params = ps /\ ~hasParam
          BY <1>1, <3>1 DEF ScanMissing, Frame
        <4> QED BY <1>6, <4>1 DEF qs
      <3>2. CASE ScanOverLimit
        BY <1>1, <1>6, <3>2 DEF ScanOverLimit, Frame
      <3> QED BY <1>13, <3>1, <3>2
    <2>3. /\ counts /\ (Continue \/ \E code : Complain(code))
          /\ (requiresParam /\ ~hasParam) \/ n >= 3
      BY <1>13 DEF ScanMissing, ScanOverLimit, Scanning, overLimit
    <2>4. x \notin Sign /\ ((Wants(x, on) /\ p = NULL) \/ (counts /\ n = 3))
      BY <1>3, <1>6, <2>3 DEF Sign
    <2>5. Read(s, x) = Point(on, qs, n, m, ops, o)
      BY <1>5, <2>4
    <2>6. Read(s, x) = Point(frame'.enable, frame'.params, frame'.paramModeCount, m,
                             operators'[k], o)
      BY <1>10, <2>1, <2>2, <2>3, <2>5
    <2>7. Tells(o, frame'.out, frame'.outParams, frame'.lastSign, m)
      BY <1>4, <2>1
    <2> QED BY <1>9, <1>10, <2>1, <2>3, <2>6, <2>7
  <1>14. CASE ScanOperator
    <2>1. /\ frame'.op = "scan" /\ frame'.modes = Tail(frame.modes)
          /\ frame'.client = frame.client /\ frame'.chan = frame.chan
          /\ frame'.enable = on /\ frame'.params = qs /\ frame'.paramModeCount = n + 1
          /\ frame'.out = frame.out /\ frame'.outParams = frame.outParams
          /\ frame'.lastSign = frame.lastSign
      BY <1>1, <1>6, <1>14 DEF ScanOperator, Frame
    <2>2. x = "o" /\ hasParam /\ n # 3
      BY <1>3, <1>14 DEF ScanOperator, Scanning, overLimit
    <2>3. x \notin Sign /\ counts /\ p # NULL /\ p = Head(ps) /\ m2 = m
      BY <1>6, <1>7, <2>2 DEF Sign
    <2>4. Read(s, x) = Point(on, qs, n + 1, m, q2, o)
      BY <1>5, <2>2, <2>3
    <2>5. /\ members' = members /\ UNCHANGED <<key, userLimit, inviteOnly, topicByOpOnly>>
          /\ operators'[k] = q2
      <3> DEFINE d == findClientByNickname(p)
      <3>1. IF d = NULL THEN Complain("441")
            ELSE handleModeOperator(on, d, frame.client, k)
        BY <1>14, <2>3 DEF ScanOperator
      <3>2. (d = NULL => p \notin o.members) /\ (d # NULL => d = p)
        BY <1>3, <1>4, <2>3 DEF findClientByNickname, LiveClients
      <3>3. CASE Continue \/ \E code : Complain(code)
        <4>1. q2 = ops
          <5>1. CASE d = NULL
            BY <1>8, <3>2, <5>1
          <5>2. CASE d # NULL
            <6>1. \/ ~isTarget(p, k) \/ ~mayChangeOperators(frame.client, k)
                  \/ isOperator(p, k) = on \/ operators' # operators
              <7> HIDE DEF d
              <7>1. handleModeOperator(on, p, frame.client, k)
                BY <3>1, <3>2, <5>2
              <7> QED BY <1>3, <7>1 DEF handleModeOperator, Continue, Complain, isOperator, TypeOK
            <6>2. operators' = operators
              BY <1>10, <3>3
            <6>3. p \notin o.members \/ o.by \notin ops \/ (p \in ops) = on
              BY <1>4, <6>1, <6>2 DEF isTarget, isMember, mayChangeOperators, isOperator
            <6> QED BY <1>3, <1>8, <6>3
          <5> QED BY <5>1, <5>2
        <4> QED BY <1>10, <3>3, <4>1
      <3>4. CASE ~(Continue \/ \E code : Complain(code))
        <4>1. d # NULL /\ d = p
          BY <3>1, <3>2, <3>4
        <4>2. /\ isTarget(p, k) /\ mayChangeOperators(frame.client, k)
              /\ operators' = [operators EXCEPT ![k] =
                                 IF on THEN @ \cup {p} ELSE @ \ {p}]
              /\ UNCHANGED <<members, settings>>
          <5> HIDE DEF d
          <5>1. handleModeOperator(on, p, frame.client, k)
            BY <3>1, <4>1
          <5> QED BY <3>4, <5>1 DEF handleModeOperator
        <4>3. operators'[k] = IF on THEN ops \cup {p} ELSE ops \ {p}
          BY <1>3, <4>2 DEF TypeOK
        <4>4. p \in o.members /\ o.by \in ops
          BY <1>4, <4>2 DEF isTarget, isMember, mayChangeOperators, isOperator
        <4> QED BY <1>8, <2>2, <4>2, <4>3, <4>4 DEF settings
      <3> QED BY <3>3, <3>4
    <2>6. Read(s, x) = Point(frame'.enable, frame'.params, frame'.paramModeCount, m,
                             operators'[k], o)
      BY <2>1, <2>4, <2>5
    <2>7. Tells(o, frame'.out, frame'.outParams, frame'.lastSign, m)
      BY <1>4, <2>1
    <2> QED BY <1>9, <2>1, <2>5, <2>6, <2>7
  <1>15. CASE ScanFilter
    <2> DEFINE kl == x \in {"k", "l"} /\ on
               args == IF kl THEN <<p>> ELSE <<>>
               r == appendApplied(frame.out, frame.lastSign, on, x)
    <2>1. x \in {"i", "t", "k", "l"} /\ Continue
      BY <1>15 DEF ScanFilter, Scanning
    <2>2. /\ frame'.op = "scan" /\ frame'.modes = Tail(frame.modes)
          /\ frame'.client = frame.client /\ frame'.chan = frame.chan
          /\ frame'.enable = on /\ frame'.params = qs
          /\ frame'.out = r /\ frame'.lastSign = sign(on)
          /\ frame'.paramModeCount = IF x \in {"k", "l"} THEN n + 1 ELSE n
          /\ frame'.outParams = IF keepsParam THEN Append(frame.outParams, Head(ps))
                                              ELSE frame.outParams
      BY <1>1, <1>6, <1>15 DEF ScanFilter, Frame, letter
    <2>3. /\ x \in {"k", "l"} => (requiresParam => hasParam) /\ n # 3
          /\ (counts <=> x \in {"k", "l"})
      BY <1>3, <1>15, <2>1 DEF ScanFilter, overLimit, letter
    <2>4. x \notin Sign /\ ~((Wants(x, on) /\ p = NULL) \/ (counts /\ n = 3)) /\ q2 = ops
      BY <1>6, <1>8, <2>1, <2>3 DEF Sign, Wants
    <2>5. Read(s, x) = Point(on, qs, n2, m2, ops, o)
      BY <1>5, <2>4
    <2>6. Read(s, x) = Point(frame'.enable, frame'.params, frame'.paramModeCount, m2,
                             operators'[k], o)
      BY <1>10, <2>1, <2>2, <2>3, <2>5
    <2>7. kl => p \in Param /\ p = Head(ps) /\ keepsParam
      BY <1>6, <2>3, <2>4 DEF Wants, keepsParam, letter
    <2>8. ~kl => ~keepsParam
      BY DEF keepsParam, letter
    <2>9. frame'.outParams = frame.outParams \o args
      <3>1. \A a \in Param : Append(frame.outParams, a) = frame.outParams \o <<a>>
        BY <1>3
      <3>2. frame.outParams \o <<>> = frame.outParams
        BY <1>3
      <3> QED BY <2>2, <2>7, <2>8, <3>1, <3>2
    <2>10. IF x \in {"k", "l"} /\ on THEN p \in Param /\ args = <<p>> ELSE args = <<>>
      BY <2>7
    <2> HIDE DEF args, r
    <2>11. Tells(o, appendApplied(frame.out, frame.lastSign, on, x), frame.outParams \o args,
                 sign(on), ModesWith(m, on, x, p))
      BY <1>3, <1>4, <1>6, <2>1, <2>10, TellsMore
    <2>12. Tells(o, frame'.out, frame'.outParams, frame'.lastSign, m2)
      BY <2>2, <2>9, <2>11 DEF r, m2
    <2> QED BY <1>7, <1>9, <1>10, <2>1, <2>2, <2>6, <2>12
  <1> QED BY <1>11, <1>12, <1>13, <1>14, <1>15

(* What is left when the line has been read.                               *)
LEMMA ScanDone ==
  ASSUME TypeOK, FramePointers, RefInv, frame.op = "scan", frame.modes = <<>>
  PROVE  /\ origin \in Origin /\ ModesOf(frame.chan) = origin.modes
         /\ ReadLine(origin).ops = operators[frame.chan]
         /\ ReadLine(origin).modes
              = Through(hearing, Start(frame.outParams, origin), frame.out).modes
  <1>1. origin \in Origin /\ ModesOf(frame.chan) = origin.modes
    BY DEF RefInv
  <1>2. PICK m \in Modes : Scanned(origin, m)
    BY DEF RefInv
  <1> DEFINE s == Point(frame.enable, frame.params, frame.paramModeCount, m,
                        operators[frame.chan], origin)
  <1>3. ReadLine(origin) = Through(reading, s, <<>>)
    BY <1>2 DEF Scanned
  <1>4. Through(reading, s, <<>>) = s
    BY ThroughEmpty
  <1>5. s.ops = operators[frame.chan] /\ s.modes = m
    BY DEF Point
  <1>6. frame.outParams \o <<>> = frame.outParams /\ <<>> \in Seq(Param)
    BY FrameTyped
  <1>7. Through(hearing, Start(frame.outParams, origin), frame.out)
          = Point(frame.lastSign # "-", <<>>, 0, m, origin.ops, origin)
    BY <1>2, <1>6 DEF Scanned, Tells
  <1>8. Point(frame.lastSign # "-", <<>>, 0, m, origin.ops, origin).modes = m
    BY DEF Point
  <1> HIDE DEF s
  <1> QED BY <1>1, <1>3, <1>4, <1>5, <1>7, <1>8

(* Between the loops: the line that was kept, heard from its start, is     *)
(* what the reading of the whole line says.                                *)
LEMMA RefScanEnd ==
  ASSUME TypeOK, FramePointers, RefInv, ScanEnd,
         frame'.op \in {"scan", "apply"} => origin' = origin
  PROVE  RefInv'
  <1>1. CASE frame' = IdleFrame
    BY <1>1 DEF RefInv, IdleFrame
  <1>2. CASE frame' # IdleFrame
    <2>1. /\ frame.op = "scan" /\ frame.modes = <<>> /\ Continue
          /\ frame' = ModeFrame(frame.client, frame.chan, "apply", frame.out, frame.outParams)
      BY <1>2 DEF ScanEnd
    <2>2. /\ frame'.op = "apply" /\ frame'.client = frame.client /\ frame'.chan = frame.chan
          /\ frame'.modes = frame.out /\ frame'.params = frame.outParams
          /\ frame'.enable = TRUE /\ frame'.out = <<>> /\ frame'.outParams = <<>>
          /\ frame'.lastSign = "none"
      BY <2>1 DEF ModeFrame, IdleFrame
    <2>3. /\ members' = members /\ operators' = operators
          /\ UNCHANGED <<key, userLimit, inviteOnly, topicByOpOnly>>
      BY <2>1 DEF Continue, chanVars, settings
    <2>4. /\ origin \in Origin /\ ModesOf(frame.chan) = origin.modes
          /\ ReadLine(origin).ops = operators[frame.chan]
          /\ ReadLine(origin).modes
               = Through(hearing, Start(frame.outParams, origin), frame.out).modes
      BY <2>1, ScanDone
    <2>5. ModesOf(frame.chan)' = origin.modes
      BY <2>2, <2>3, <2>4 DEF ModesOf
    <2>6. Tells(origin, <<>>, <<>>, "none", origin.modes)
      BY <2>4, TellsNothing
    <2>7. Start(frame.outParams, origin)
            = Point(TRUE, frame.outParams, 0, origin.modes, origin.ops, origin)
      BY DEF Start
    <2>8. origin' = origin
      BY <2>2
    <2>9. Applied(origin)'
      BY <2>2, <2>3, <2>4, <2>5, <2>6, <2>7, <2>8 DEF Applied
    <2>10. origin.by = frame.client /\ origin.members = members[frame.chan]
      BY <2>1 DEF RefInv
    <2> QED BY <2>2, <2>3, <2>4, <2>8, <2>9, <2>10 DEF RefInv
  <1> QED BY <1>1, <1>2

-----------------------------------------------------------------------------
(* The loop of Channel::handleMode.                                        *)

(* The invariant after an iteration of which Hear gives the effect.        *)
LEMMA ApplyHears ==
  ASSUME TypeOK, FramePointers, RefInv, frame.op = "apply", frame.modes # <<>>,
         origin' = origin, frame'.op = "apply", frame'.modes = Tail(frame.modes),
         frame'.client = frame.client, frame'.chan = frame.chan,
         UNCHANGED <<members, operators>>,
         NEW m2, ModesOf(frame.chan)' = m2,
         Hear(Point(frame.enable, frame.params, 0, ModesOf(frame.chan), origin.ops, origin),
              Head(frame.modes))
           = Point(frame'.enable, frame'.params, 0, m2, origin.ops, origin),
         Tells(origin, frame'.out, frame'.outParams, frame'.lastSign, m2)
  PROVE  RefInv'
  <1> DEFINE o == origin
             s == Point(frame.enable, frame.params, 0, ModesOf(frame.chan), o.ops, o)
             t == Point(frame'.enable, frame'.params, 0, m2, o.ops, o)
  <1>1. /\ o \in Origin /\ o.by = frame.client /\ o.members = members[frame.chan]
        /\ Applied(o) /\ o.ops \in SUBSET Client
    BY DEF RefInv, Origin
  <1>2. /\ frame.modes \in Seq(ModeChar) /\ frame.params \in Seq(Param)
        /\ frame.enable \in BOOLEAN /\ ModesOf(frame.chan) \in Modes /\ 0 \in 0..3
    BY FrameTyped
  <1>3. s \in Reader
    BY <1>1, <1>2, PointTyped
  <1>4. ReadLine(o).modes = Through(hearing, s, frame.modes).modes
    BY <1>1 DEF Applied
  <1>5. Through(hearing, s, frame.modes) = Through(hearing, Hear(s, Head(frame.modes)), Tail(frame.modes))
    <2> HIDE DEF s
    <2> QED BY <1>2, <1>3, HearsFirst
  <1>6. ReadLine(o).modes = Through(hearing, t, frame'.modes).modes
    BY <1>4, <1>5
  <1>7. Applied(o)'
    BY <1>1, <1>6 DEF Applied
  <1> QED BY <1>1, <1>7 DEF RefInv

(* A letter of handleMode: the channel gets the modes that Hear computes,  *)
(* and the letter is announced unless they are the same.                   *)
LEMMA LetterApplied ==
  ASSUME TypeOK, FramePointers, frame.op = "apply",
         ApplyInviteOnly \/ ApplyTopic \/ ApplyKey \/ ApplyLimit
  PROVE  LET k == frame.chan
             x == Head(frame.modes)
             kl == x \in {"k", "l"} /\ frame.enable
             p == IF kl THEN Head(frame.params) ELSE NULL
             qs == IF kl THEN Tail(frame.params) ELSE frame.params
             m2 == ModesWith(ModesOf(k), frame.enable, x, p)
         IN  /\ x \in {"i", "t", "k", "l"} /\ frame.modes # <<>>
             /\ kl => frame.params # <<>>
             /\ UNCHANGED <<members, operators>>
             /\ [inviteOnly |-> inviteOnly'[k], topicByOpOnly |-> topicByOpOnly'[k],
                 key |-> key'[k], userLimit |-> userLimit'[k]] = m2
             /\ \/ Skip(qs) /\ m2 = ModesOf(k)
                \/ Apply(qs, IF kl THEN <<p>> ELSE <<>>)
  <1> DEFINE k == frame.chan
             x == Head(frame.modes)
             kl == x \in {"k", "l"} /\ frame.enable
             p == IF kl THEN Head(frame.params) ELSE NULL
             qs == IF kl THEN Tail(frame.params) ELSE frame.params
             m == ModesOf(k)
             m2 == ModesWith(m, frame.enable, x, p)
             after2 == [inviteOnly |-> inviteOnly'[k], topicByOpOnly |-> topicByOpOnly'[k],
                        key |-> key'[k], userLimit |-> userLimit'[k]]
  <1>0. /\ frame.enable \in BOOLEAN /\ k \in ChannelKey /\ frame.params \in Seq(Param)
        /\ m = [inviteOnly |-> inviteOnly[k], topicByOpOnly |-> topicByOpOnly[k],
                key |-> key[k], userLimit |-> userLimit[k]]
    BY FrameTyped DEF ModesOf
  <1>1. ASSUME Continue \/ \E code : Complain(code)
        PROVE  after2 = m /\ UNCHANGED <<members, operators>>
    BY <1>0, <1>1 DEF Continue, Complain, chanVars, settings
  <1>2. CASE ApplyInviteOnly
    <2>1. x = "i" /\ frame.modes # <<>>
      BY <1>2 DEF ApplyInviteOnly, Applying
    <2>2. ~kl /\ m2 = [m EXCEPT !.inviteOnly = frame.enable]
      BY <2>1 DEF ModesWith
    <2>3. CASE inviteOnly[k] = frame.enable
      <3>1. Skip(frame.params) /\ Continue
        BY <1>2, <2>3 DEF ApplyInviteOnly
      <3>2. m2 = m
        BY <1>0, <2>2, <2>3
      <3> QED BY <1>1, <2>1, <2>2, <3>1, <3>2
    <2>4. CASE inviteOnly[k] # frame.enable
      <3>1. /\ Apply(frame.params, <<>>)
            /\ inviteOnly' = [inviteOnly EXCEPT ![k] = frame.enable]
            /\ UNCHANGED <<members, operators, key, userLimit, topicByOpOnly>>
        BY <1>2, <2>4 DEF ApplyInviteOnly
      <3>2. inviteOnly'[k] = frame.enable
        BY <1>0, <3>1 DEF TypeOK
      <3>3. after2 = m2
        BY <1>0, <2>2, <3>1, <3>2
      <3> QED BY <2>1, <2>2, <3>1, <3>3
    <2> QED BY <2>3, <2>4
  <1>3. CASE ApplyTopic
    <2>1. x = "t" /\ frame.modes # <<>>
      BY <1>3 DEF ApplyTopic, Applying
    <2>2. ~kl /\ m2 = [m EXCEPT !.topicByOpOnly = frame.enable]
      BY <2>1 DEF ModesWith
    <2>3. CASE topicByOpOnly[k] = frame.enable
      <3>1. Skip(frame.params) /\ Continue
        BY <1>3, <2>3 DEF ApplyTopic
      <3>2. m2 = m
        BY <1>0, <2>2, <2>3
      <3> QED BY <1>1, <2>1, <2>2, <3>1, <3>2
    <2>4. CASE topicByOpOnly[k] # frame.enable
      <3>1. /\ Apply(frame.params, <<>>)
            /\ topicByOpOnly' = [topicByOpOnly EXCEPT ![k] = frame.enable]
            /\ UNCHANGED <<members, operators, key, userLimit, inviteOnly>>
        BY <1>3, <2>4 DEF ApplyTopic
      <3>2. topicByOpOnly'[k] = frame.enable
        BY <1>0, <3>1 DEF TypeOK
      <3>3. after2 = m2
        BY <1>0, <2>2, <3>1, <3>2
      <3> QED BY <2>1, <2>2, <3>1, <3>3
    <2> QED BY <2>3, <2>4
  <1>4. CASE ApplyKey
    <2>1. x = "k" /\ frame.modes # <<>> /\ (kl <=> frame.enable)
      BY <1>4 DEF ApplyKey, Applying
    <2>2. ASSUME NEW v, setModeKey(v)
          PROVE  /\ UNCHANGED <<members, operators>>
                 /\ after2 = [m EXCEPT !.key = v]
      <3>1. key' = [key EXCEPT ![k] = v] /\ UNCHANGED <<userLimit, inviteOnly, topicByOpOnly>>
        BY <2>2 DEF setModeKey
      <3>2. key'[k] = v
        BY <1>0, <3>1 DEF TypeOK
      <3> QED BY <1>0, <2>2, <3>1, <3>2 DEF setModeKey
    <2>3. CASE frame.enable
      <3>0. frame.params # <<>> /\ p = Head(frame.params) /\ qs = Tail(frame.params)
        BY <1>4, <2>1, <2>3 DEF ApplyKey
      <3>1. m2 = IF m.key = Empty /\ p \in ValidKey THEN [m EXCEPT !.key = p] ELSE m
        BY <2>1, <2>3 DEF ModesWith
      <3>2. \/ /\ (~isValidKey(p) \/ key[k] # Empty) /\ Skip(qs)
               /\ \E code : Complain(code)
            \/ isValidKey(p) /\ key[k] = Empty /\ setModeKey(p) /\ Apply(qs, <<p>>)
        BY <1>4, <2>3, <3>0 DEF ApplyKey
      <3>3. m.key = key[k]
        BY <1>0
      <3> QED BY <1>1, <2>1, <2>2, <2>3, <3>0, <3>1, <3>2, <3>3 DEF isValidKey
    <2>4. CASE ~frame.enable
      <3>1. m2 = [m EXCEPT !.key = Empty]
        BY <2>1, <2>4 DEF ModesWith
      <3>2. \/ key[k] = Empty /\ Skip(frame.params) /\ Continue
            \/ setModeKey(Empty) /\ Apply(frame.params, <<>>)
        BY <1>4, <2>4 DEF ApplyKey
      <3>3. key[k] = Empty => m2 = m
        BY <1>0, <3>1
      <3> QED BY <1>1, <2>1, <2>2, <2>4, <3>1, <3>2, <3>3
    <2> QED BY <2>3, <2>4
  <1>5. CASE ApplyLimit
    <2>1. x = "l" /\ frame.modes # <<>> /\ (kl <=> frame.enable)
      BY <1>5 DEF ApplyLimit, Applying
    <2>2. ASSUME NEW v, setModeUserLimit(v)
          PROVE  /\ UNCHANGED <<members, operators>>
                 /\ after2 = [m EXCEPT !.userLimit = v]
      <3>1. /\ userLimit' = [userLimit EXCEPT ![k] = v]
            /\ UNCHANGED <<key, inviteOnly, topicByOpOnly>>
        BY <2>2 DEF setModeUserLimit
      <3>2. userLimit'[k] = v
        BY <1>0, <3>1 DEF TypeOK
      <3> QED BY <1>0, <2>2, <3>1, <3>2 DEF setModeUserLimit
    <2>3. CASE frame.enable
      <3>0. frame.params # <<>> /\ p = Head(frame.params) /\ qs = Tail(frame.params)
        BY <1>5, <2>1, <2>3 DEF ApplyLimit
      <3>1. m2 = IF parseLimit(p) THEN [m EXCEPT !.userLimit = atoi[p]] ELSE m
        BY <2>1, <2>3 DEF ModesWith, parseLimit
      <3>2. \/ ~parseLimit(p) /\ Skip(qs) /\ Complain("696")
            \/ parseLimit(p) /\ setModeUserLimit(atoi[p]) /\ Apply(qs, <<p>>)
        BY <1>5, <2>3, <3>0 DEF ApplyLimit
      <3> QED BY <1>1, <2>1, <2>2, <2>3, <3>0, <3>1, <3>2
    <2>4. CASE ~frame.enable
      <3>1. m2 = [m EXCEPT !.userLimit = 0]
        BY <2>1, <2>4 DEF ModesWith
      <3>2. \/ userLimit[k] = 0 /\ Skip(frame.params) /\ Continue
            \/ setModeUserLimit(0) /\ Apply(frame.params, <<>>)
        BY <1>5, <2>4 DEF ApplyLimit
      <3>3. userLimit[k] = 0 => m2 = m
        BY <1>0, <3>1
      <3> QED BY <1>1, <2>1, <2>2, <2>4, <3>1, <3>2, <3>3
    <2> QED BY <2>3, <2>4
  <1> QED BY <1>2, <1>3, <1>4, <1>5

(* A turn of the second loop does to the channel what is heard.            *)
LEMMA RefApply ==
  ASSUME TypeOK, FramePointers, RefInv, origin' = origin,
         ApplySign \/ ApplyInviteOnly \/ ApplyTopic \/ ApplyKey \/ ApplyLimit
  PROVE  RefInv'
  <1> DEFINE o == origin
             k == frame.chan
             x == Head(frame.modes)
             on == frame.enable
             ps == frame.params
             m == ModesOf(k)
             s == Point(on, ps, 0, m, o.ops, o)
  <1>1. frame.op = "apply" /\ frame.modes # <<>> /\ frame \in Frame
    BY DEF ApplySign, ApplyInviteOnly, ApplyTopic, ApplyKey, ApplyLimit, Applying, TypeOK
  <1>2. /\ frame.modes \in Seq(ModeChar) /\ ps \in Seq(Param) /\ on \in BOOLEAN
        /\ frame.out \in Seq(ModeChar) /\ frame.outParams \in Seq(Param)
        /\ frame.lastSign \in Sign \cup {"none"} /\ m \in Modes /\ x \in ModeChar
    BY <1>1, FrameTyped
  <1>3. /\ o \in Origin /\ o.ops \in SUBSET Client /\ 0 \in 0..3
        /\ Tells(o, frame.out, frame.outParams, frame.lastSign, m)
    BY <1>1 DEF RefInv, Applied, Origin
  <1>4. Hear(s, x) = IF x \in Sign THEN Point(x = "+", ps, 0, m, o.ops, o)
               ELSE IF x \in {"k", "l"} /\ on /\ ps # <<>>
               THEN Point(on, Tail(ps), 0, ModesWith(m, on, x, Head(ps)), o.ops, o)
               ELSE Point(on, ps, 0, ModesWith(m, on, x, NULL), o.ops, o)
    <2> HIDE DEF x, on, ps, m, o
    <2> QED BY <1>2, <1>3, HearPoint
  <1>5. CASE ApplySign
    <2>1. /\ frame'.op = "apply" /\ frame'.modes = Tail(frame.modes)
          /\ frame'.client = frame.client /\ frame'.chan = frame.chan
          /\ frame'.enable = (x = "+") /\ frame'.params = ps
          /\ frame'.out = frame.out /\ frame'.outParams = frame.outParams
          /\ frame'.lastSign = frame.lastSign
      BY <1>1, <1>5 DEF ApplySign, Frame, letter
    <2>2. x \in Sign /\ Continue
      BY <1>5 DEF ApplySign, Applying
    <2>3. UNCHANGED <<members, operators>> /\ ModesOf(frame.chan)' = m
      BY <2>1, <2>2 DEF Continue, chanVars, settings, ModesOf
    <2>4. Hear(s, x) = Point(frame'.enable, frame'.params, 0, m, o.ops, o)
      BY <1>4, <2>1, <2>2
    <2>5. Tells(o, frame'.out, frame'.outParams, frame'.lastSign, m)
      BY <1>3, <2>1
    <2> QED BY <1>1, <2>1, <2>3, <2>4, <2>5, ApplyHears
  <1>6. CASE ApplyInviteOnly \/ ApplyTopic \/ ApplyKey \/ ApplyLimit
    <2> DEFINE kl == x \in {"k", "l"} /\ on
               p == IF kl THEN Head(ps) ELSE NULL
               qs == IF kl THEN Tail(ps) ELSE ps
               m2 == ModesWith(m, on, x, p)
               args == IF kl THEN <<p>> ELSE <<>>
    <2>1. /\ x \in {"i", "t", "k", "l"} /\ (kl => ps # <<>>)
          /\ UNCHANGED <<members, operators>>
          /\ [inviteOnly |-> inviteOnly'[k], topicByOpOnly |-> topicByOpOnly'[k],
              key |-> key'[k], userLimit |-> userLimit'[k]] = m2
          /\ (Skip(qs) /\ m2 = m) \/ Apply(qs, args)
      BY <1>1, <1>6, LetterApplied
    <2>2. (kl => p \in Param) /\ p \in Param \cup {NULL} /\ x \notin Sign
      BY <1>2, <2>1 DEF Sign
    <2>3. Hear(s, x) = Point(on, qs, 0, m2, o.ops, o)
      BY <1>4, <2>1, <2>2
    <2>4. IF x \in {"k", "l"} /\ on THEN p \in Param /\ args = <<p>> ELSE args = <<>>
      BY <2>2
    <2> HIDE DEF p, qs, m2, args
    <2>5. Tells(o, appendApplied(frame.out, frame.lastSign, on, x), frame.outParams \o args,
                sign(on), m2)
      <3> HIDE DEF x, on, m, o
      <3> QED BY <1>2, <1>3, <2>1, <2>2, <2>4, TellsMore DEF m2
    <2>6. /\ frame'.op = "apply" /\ frame'.modes = Tail(frame.modes)
          /\ frame'.client = frame.client /\ frame'.chan = frame.chan
          /\ frame'.enable = on /\ frame'.params = qs
          /\ Tells(o, frame'.out, frame'.outParams, frame'.lastSign, m2)
      <3>1. CASE Skip(qs) /\ m2 = m
        BY <1>1, <1>3, <3>1 DEF Skip, Frame
      <3>2. CASE Apply(qs, args)
        <4>1. /\ frame'.op = "apply" /\ frame'.modes = Tail(frame.modes)
              /\ frame'.client = frame.client /\ frame'.chan = frame.chan
              /\ frame'.enable = on /\ frame'.params = qs
              /\ frame'.out = appendApplied(frame.out, frame.lastSign, on, x)
              /\ frame'.outParams = frame.outParams \o args
              /\ frame'.lastSign = sign(on)
          BY <1>1, <3>2 DEF Apply, Frame, letter
        <4> QED BY <2>5, <4>1
      <3> QED BY <2>1, <3>1, <3>2
    <2>7. ModesOf(frame.chan)' = m2
      BY <2>1, <2>6 DEF ModesOf
    <2>8. Hear(s, x) = Point(frame'.enable, frame'.params, 0, m2, o.ops, o)
      BY <2>3, <2>6
    <2> QED BY <1>1, <2>1, <2>6, <2>7, <2>8, ApplyHears
  <1> QED BY <1>5, <1>6

-----------------------------------------------------------------------------
(* The whole command.                                                      *)

(* A MODE line that starts the loops has not been read at all.             *)
LEMMA RefStart ==
  ASSUME IndInv, NEW c \in Client, NEW n \in ChannelArg, NEW ms \in ModeLine,
         NEW ps \in ParamLine, Mode(c, n, ms, ps), RefNext
  PROVE  RefInv'
  <1>0. Idle /\ frame.op = "idle"
    BY DEF Mode, Ready, Idle, IdleFrame
  <1>1. CASE UNCHANGED frame
    BY <1>0, <1>1 DEF RefInv
  <1>2. CASE ~UNCHANGED frame
    <2> DEFINE k == findChannel(n)
    <2>1. /\ k # NULL /\ k \in ChannelKey /\ Continue
          /\ frame' = ModeFrame(c, k, "scan", ms, ps)
      <3>1. k # NULL /\ Continue /\ frame' = ModeFrame(c, k, "scan", ms, ps)
        BY <1>2 DEF Mode, Answer, Ignore
      <3> QED BY <3>1 DEF findChannel, IndInv, TypeOK
    <2>2. /\ frame'.op = "scan" /\ frame'.client = c /\ frame'.chan = k
          /\ frame'.modes = ms /\ frame'.params = ps
          /\ frame'.enable = TRUE /\ frame'.out = <<>> /\ frame'.outParams = <<>>
          /\ frame'.lastSign = "none" /\ frame'.paramModeCount = 0
      BY <2>1 DEF ModeFrame, IdleFrame
    <2>3. /\ members' = members /\ operators' = operators
          /\ UNCHANGED <<key, userLimit, inviteOnly, topicByOpOnly>>
      BY <2>1 DEF Continue, chanVars, settings
    <2>4. origin' = [line |-> ms, params |-> ps, modes |-> ModesOf(k),
                     ops |-> operators[k], members |-> members[k], by |-> c]
      BY <1>0, <2>2 DEF RefNext
    <2>5. ModesOf(k) \in Modes /\ operators[k] \in SUBSET Client /\ members[k] \in SUBSET Client
      BY <2>1 DEF IndInv, TypeOK, ModesOf, Modes
    <2>6. ms \in Seq(ModeChar) /\ ps \in Seq(Param)
      BY LineAssumption
    <2>7. origin' \in Origin
      BY <2>4, <2>5, <2>6 DEF Origin
    <2>8. /\ origin'.line = ms /\ origin'.params = ps /\ origin'.modes = ModesOf(k)
          /\ origin'.ops = operators[k] /\ origin'.members = members[k] /\ origin'.by = c
      BY <2>4
    <2>9. ModesOf(frame.chan)' = ModesOf(k)
      BY <2>2, <2>3 DEF ModesOf
    <2>10. Tells(origin', <<>>, <<>>, "none", ModesOf(k))
      <3>1. Tells(origin', <<>>, <<>>, "none", origin'.modes)
        BY <2>7, TellsNothing
      <3> QED BY <2>8, <3>1
    <2>11. ReadLine(origin') = Through(reading, Point(TRUE, ps, 0, ModesOf(k), operators[k],
                                                      origin'), ms)
      BY <2>8 DEF ReadLine, Start
    <2> HIDE DEF k
    <2>12. Tells(origin', frame'.out, frame'.outParams, frame'.lastSign, ModesOf(k))
      BY <2>2, <2>10
    <2>13. ReadLine(origin') = Through(reading, Point(frame'.enable, frame'.params,
              frame'.paramModeCount, ModesOf(k), operators'[frame'.chan], origin'), frame'.modes)
      BY <2>2, <2>3, <2>11
    <2>14. \E m \in Modes :
             /\ Tells(origin', frame'.out, frame'.outParams, frame'.lastSign, m)
             /\ ReadLine(origin') = Through(reading, Point(frame'.enable, frame'.params,
                  frame'.paramModeCount, m, operators'[frame'.chan], origin'), frame'.modes)
      BY <2>5, <2>12, <2>13
    <2>15. (\E m \in Modes : Scanned(origin, m))'
      BY <2>14 DEF Scanned
    <2> QED BY <2>2, <2>3, <2>7, <2>8, <2>9, <2>15 DEF RefInv
  <1> QED BY <1>1, <1>2

(* Every step of the server keeps RefInv.                                  *)
LEMMA RefStep ==
  ASSUME IndInv, RefInv, [RefNext]_refVars
  PROVE  RefInv'
  <1> USE DEF IndInv
  <1>1. CASE UNCHANGED refVars
    BY <1>1 DEF refVars, vars, chanVars, settings, clientVars, RefInv, Scanned, Applied, ModesOf
  <1>2. ASSUME RefNext, NEW c \in Client,
               Connect(c) \/ Register(c) \/ Disconnect(c) \/ Command(c)
        PROVE  RefInv'
    <2>1. Idle /\ frame.op = "idle"
      BY <1>2 DEF Connect, Register, Disconnect, Command, Ready, Join, JoinZero, Part,
                  Kick, TopicCmd, Invite, Privmsg, Mode, NickChange, Idle, IdleFrame
    <2>2. CASE UNCHANGED frame
      BY <2>1, <2>2 DEF RefInv
    <2>3. CASE JoinZero(c)
      BY <2>3 DEF JoinZero, IdleFrame, RefInv
    <2> QED BY <1>2, <2>2, <2>3, CommandFrames, RefStart
  <1>3. CASE (\E n \in ChannelName : JoinZeroStep(n)) \/ JoinZeroEnd
    <2>1. frame \in Frame
      BY DEF TypeOK
    <2>2. frame'.op \in {"join0", "idle"}
      BY <1>3, <2>1 DEF JoinZeroStep, JoinZeroEnd, IdleFrame, Frame
    <2> QED BY <2>2 DEF RefInv
  <1>4. CASE RefNext /\ ModeStep
    <2>0. frame.op \in {"scan", "apply"} /\ ~Idle
      BY <1>4 DEF ModeStep, ScanSign, ScanUnknown, ScanMissing, ScanOverLimit, ScanOperator,
                  ScanFilter, ScanEnd, ApplySign, ApplyInviteOnly, ApplyTopic, ApplyKey,
                  ApplyLimit, ApplyEnd, Scanning, Applying, Idle, IdleFrame
    <2>1. frame'.op \in {"scan", "apply"} => origin' = origin
      BY <1>4, <2>0 DEF RefNext
    <2>2. CASE frame'.op \notin {"scan", "apply"}
      BY <2>2 DEF RefInv
    <2>3. CASE frame'.op \in {"scan", "apply"}
      <3>1. ~ApplyEnd
        BY <2>3 DEF ApplyEnd, IdleFrame
      <3>2. LiveClients
        BY DEF Core
      <3> QED BY <1>4, <2>1, <2>3, <3>1, <3>2, RefScan, RefScanEnd, RefApply DEF ModeStep
    <2> QED BY <2>2, <2>3
  <1> QED BY <1>1, <1>2, <1>3, <1>4 DEF RefNext, Next

(* RefInv holds throughout, beside IndInv.                                 *)
LEMMA RefInductive == RefSpec => [](IndInv /\ RefInv)
  <1>1. RefInit => IndInv /\ RefInv
    <2>1. Init => IndInv
      BY TypeInit, CoreInit DEF IndInv
    <2>2. Init => RefInv
      BY DEF Init, IdleFrame, RefInv
    <2> QED BY <2>1, <2>2 DEF RefInit
  <1>2. ASSUME IndInv, RefInv, [RefNext]_refVars
        PROVE  IndInv' /\ RefInv'
    <2>1. [Next]_vars
      BY <1>2 DEF RefNext, refVars
    <2> QED BY <1>2, <2>1, IndStep, RefStep
  <1> QED BY <1>1, <1>2, PTL DEF RefSpec

(* The last step of a MODE command is the end of one of its loops.         *)
LEMMA LastStep ==
  ASSUME IndInv, Next, Ends
  PROVE  (ScanEnd /\ frame' = IdleFrame) \/ ApplyEnd
  <1>0. frame \in Frame /\ frame.op \in {"scan", "apply"} /\ frame'.op = "idle"
    BY DEF IndInv, TypeOK, Ends
  <1>1. ASSUME NEW c \in Client, Connect(c) \/ Register(c) \/ Disconnect(c) \/ Command(c)
        PROVE  FALSE
    BY <1>0, <1>1 DEF Connect, Register, Disconnect, Command, Ready, Join, JoinZero, Part,
                Kick, TopicCmd, Invite, Privmsg, Mode, NickChange, Idle, IdleFrame
  <1>2. ~((\E n \in ChannelName : JoinZeroStep(n)) \/ JoinZeroEnd)
    BY <1>0 DEF JoinZeroStep, JoinZeroEnd
  <1>3. ~(ScanSign \/ ScanUnknown \/ ScanMissing \/ ScanOverLimit)
    BY <1>0 DEF ScanSign, ScanUnknown, ScanMissing, ScanOverLimit, Scanning, Frame
  <1>4. ~(ScanOperator \/ ScanFilter)
    BY <1>0 DEF ScanOperator, ScanFilter, Scanning, Frame
  <1>5. ~(ApplySign \/ ApplyInviteOnly \/ ApplyTopic)
    BY <1>0 DEF ApplySign, ApplyInviteOnly, ApplyTopic, Applying, Skip, Apply, Frame
  <1>6. ~(ApplyKey \/ ApplyLimit)
    BY <1>0 DEF ApplyKey, ApplyLimit, Applying, Skip, Apply, Frame
  <1>7. ModeStep
    BY <1>1, <1>2 DEF Next
  <1>8. ScanEnd => frame' = IdleFrame
    BY <1>0 DEF ScanEnd, ModeFrame, IdleFrame
  <1> QED BY <1>3, <1>4, <1>5, <1>6, <1>7, <1>8 DEF ModeStep

(* What handleMode leaves, and what it announces, when it is through.      *)
LEMMA ApplyDone ==
  ASSUME TypeOK, FramePointers, RefInv, frame.op = "apply", frame.modes = <<>>
  PROVE  /\ origin \in Origin /\ origin.by \in operators[frame.chan]
         /\ ReadLine(origin).ops = operators[frame.chan]
         /\ ReadLine(origin).modes = ModesOf(frame.chan)
         /\ Through(hearing, Start(frame.outParams, origin), frame.out).modes
              = ModesOf(frame.chan)
         /\ frame.out = <<>> => ModesOf(frame.chan) = origin.modes
  <1> DEFINE m == ModesOf(frame.chan)
             s == Point(frame.enable, frame.params, 0, m, origin.ops, origin)
             t == Point(frame.lastSign # "-", <<>>, 0, m, origin.ops, origin)
             b == Start(frame.outParams, origin)
  <1>1. /\ origin \in Origin /\ origin.by = frame.client /\ Applied(origin)
    BY DEF RefInv
  <1>2. origin.by \in operators[frame.chan]
    BY <1>1 DEF FramePointers, isOperator
  <1>3. ReadLine(origin).ops = operators[frame.chan]
    BY <1>1 DEF Applied
  <1>4. ReadLine(origin).modes = Through(hearing, s, <<>>).modes
    BY <1>1 DEF Applied
  <1>5. Through(hearing, s, <<>>) = s /\ Through(hearing, b, <<>>) = b
    BY ThroughEmpty
  <1>6. s.modes = m /\ t.modes = m /\ b.modes = origin.modes
    BY DEF Point, Start
  <1>7. frame.outParams \o <<>> = frame.outParams /\ <<>> \in Seq(Param)
    BY FrameTyped
  <1>8. Through(hearing, b, frame.out) = t
    BY <1>1, <1>7 DEF Applied, Tells
  <1> HIDE DEF s, t, b, m
  <1>9. ReadLine(origin).modes = m /\ Through(hearing, b, frame.out).modes = m
    BY <1>4, <1>5, <1>6, <1>8
  <1>10. frame.out = <<>> => m = origin.modes
    BY <1>5, <1>6, <1>8
  <1> QED BY <1>1, <1>2, <1>3, <1>9, <1>10 DEF m, b

(* The two readings of a MODE line of any length, with any parameters, do  *)
(* what one reading from left to right would (TwoReadings).                *)
THEOREM TwoReadingsAreOne == RefSpec => TwoReadings
  <1>1. ASSUME IndInv, RefInv, RefNext, Ends, NEW k \in {frame.chan}
        PROVE  /\ operators'[k] = ReadLine(origin).ops
               /\ ModesOf(k)' = IF origin.by \in operators'[k] THEN ReadLine(origin).modes
                                                               ELSE origin.modes
    <2>0. TypeOK /\ FramePointers /\ k = frame.chan
      BY <1>1 DEF IndInv
    <2>1. (ScanEnd /\ frame' = IdleFrame) \/ ApplyEnd
      BY <1>1, LastStep DEF RefNext
    <2>2. operators' = operators /\ ModesOf(k)' = ModesOf(k)
      <3>1. UNCHANGED chanVars
        BY <2>1 DEF ScanEnd, ApplyEnd, Continue, Complain
      <3> QED BY <3>1 DEF chanVars, settings, ModesOf
    <2>3. CASE ScanEnd /\ frame' = IdleFrame
      <3>1. frame.op = "scan" /\ frame.modes = <<>>
        BY <2>3 DEF ScanEnd
      <3>2. /\ origin \in Origin /\ ModesOf(k) = origin.modes
            /\ ReadLine(origin).ops = operators[k]
            /\ ReadLine(origin).modes
                 = Through(hearing, Start(frame.outParams, origin), frame.out).modes
        BY <1>1, <2>0, <3>1, ScanDone
      <3>3. origin.by = frame.client
        BY <1>1, <3>1 DEF RefInv
      <3>4. frame.out = <<>> \/ frame.client \notin operators[k]
        <4>1. frame'.op # "apply"
          BY <2>3 DEF IdleFrame
        <4>2. ModeFrame(frame.client, frame.chan, "apply", frame.out, frame.outParams).op = "apply"
          BY DEF ModeFrame, IdleFrame
        <4> QED BY <2>0, <2>3, <4>1, <4>2 DEF ScanEnd, isOperator
      <3>5. frame.out = <<>> => ReadLine(origin).modes = origin.modes
        <4>1. Start(frame.outParams, origin).modes = origin.modes
          BY DEF Start, Point
        <4>2. Through(hearing, Start(frame.outParams, origin), <<>>)
                = Start(frame.outParams, origin)
          BY ThroughEmpty
        <4> QED BY <3>2, <4>1, <4>2
      <3> QED BY <2>2, <3>2, <3>3, <3>4, <3>5
    <2>4. CASE ApplyEnd
      <3>1. frame.op = "apply" /\ frame.modes = <<>>
        BY <2>4 DEF ApplyEnd
      <3> QED BY <1>1, <2>0, <2>2, <3>1, ApplyDone
    <2> QED BY <2>1, <2>3, <2>4
  <1>2. IndInv /\ RefInv /\ [RefNext]_refVars =>
          [Ends => \A k \in {frame.chan} :
             /\ operators'[k] = ReadLine(origin).ops
             /\ ModesOf(k)' = IF origin.by \in operators'[k] THEN ReadLine(origin).modes
                                                             ELSE origin.modes]_refVars
    BY <1>1
  <1> QED BY <1>2, RefInductive, PTL DEF RefSpec, TwoReadings

(* The MODE line that members are sent says exactly what has changed,      *)
(* whatever line was given (Announced).                                    *)
THEOREM ChangesAreAnnounced == RefSpec => Announced
  <1>1. ASSUME IndInv, RefInv, RefNext, Ends, NEW k \in {frame.chan}, NEW d \in members[k]
        PROVE  LET lines == sent'[d]
                   news  == {i \in 1..Len(lines) : lines[i].cmd = "MODE"}
               IN  IF news = {} THEN ModesOf(k)' = origin.modes
                   ELSE \A i \in news :
                     LET m == lines[i].arg
                     IN  Through(hearing, Start(m.args, origin), m.applied).modes = ModesOf(k)'
    <2> DEFINE lines == sent'[d]
               news  == {i \in 1..Len(lines) : lines[i].cmd = "MODE"}
    <2>0. TypeOK /\ FramePointers /\ k = frame.chan
      BY <1>1 DEF IndInv
    <2>1. (ScanEnd /\ frame' = IdleFrame) \/ ApplyEnd
      BY <1>1, LastStep DEF RefNext
    <2>2. ModesOf(k)' = ModesOf(k)
      <3>1. UNCHANGED chanVars
        BY <2>1 DEF ScanEnd, ApplyEnd, Continue, Complain
      <3> QED BY <3>1 DEF chanVars, settings, ModesOf
    <2>3. d \in Client
      <3>1. k \in ChannelKey
        BY <1>1, <2>0, FrameTyped DEF Ends
      <3> QED BY <2>0, <3>1 DEF TypeOK
    <2>4. CASE ScanEnd /\ frame' = IdleFrame
      <3>1. frame.op = "scan" /\ frame.modes = <<>>
        BY <2>4 DEF ScanEnd
      <3>2. ModesOf(k) = origin.modes
        BY <1>1, <2>0, <3>1, ScanDone
      <3>3. Continue \/ Complain("482")
        BY <2>4 DEF ScanEnd
      <3>4. lines = <<>> \/ lines = <<makeReply("482", frame.chan, Empty)>>
        BY <2>3, <3>3 DEF Continue, Complain, sendToOne, Quiet
      <3>5. news = {}
        BY <3>4 DEF makeReply
      <3> QED BY <2>2, <3>2, <3>5
    <2>5. CASE ApplyEnd
      <3>1. frame.op = "apply" /\ frame.modes = <<>>
        BY <2>5 DEF ApplyEnd
      <3>2. /\ Through(hearing, Start(frame.outParams, origin), frame.out).modes = ModesOf(k)
            /\ frame.out = <<>> => ModesOf(k) = origin.modes
        BY <1>1, <2>0, <3>1, ApplyDone
      <3>3. CASE frame.out = <<>>
        <4>1. lines = <<>>
          BY <2>3, <2>5, <3>3 DEF ApplyEnd, Quiet
        <4>2. news = {}
          BY <4>1
        <4> QED BY <2>2, <3>2, <3>3, <4>2
      <3>4. CASE frame.out # <<>>
        <4> DEFINE a == [applied |-> frame.out, args |-> frame.outParams]
                   l == makeCommand(frame.client, "MODE", frame.chan, a)
        <4>1. lines = <<l>>
          BY <1>1, <2>0, <2>3, <2>5, <3>4 DEF ApplyEnd, sendToAll
        <4>2. l.cmd = "MODE" /\ l.arg = a /\ a.applied = frame.out /\ a.args = frame.outParams
          BY DEF makeCommand
        <4> HIDE DEF l, a
        <4>3. Len(lines) = 1 /\ lines[1] = l
          BY <4>1
        <4>4. news = {1}
          BY <4>2, <4>3
        <4> HIDE DEF lines, news
        <4> QED BY <2>2, <3>2, <4>2, <4>3, <4>4 DEF lines, news
      <3> QED BY <3>3, <3>4
    <2> QED BY <2>1, <2>4, <2>5
  <1>2. IndInv /\ RefInv /\ [RefNext]_refVars =>
          [Ends => \A k \in {frame.chan} : \A d \in members[k] :
             LET lines == sent'[d]
                 news  == {i \in 1..Len(lines) : lines[i].cmd = "MODE"}
             IN  IF news = {} THEN ModesOf(k)' = origin.modes
                 ELSE \A i \in news :
                   LET m == lines[i].arg
                   IN  Through(hearing, Start(m.args, origin), m.applied).modes
                         = ModesOf(k)']_refVars
    BY <1>1
  <1> QED BY <1>2, RefInductive, PTL DEF RefSpec, Announced

=============================================================================
