----------------------------- MODULE ChannelView -----------------------------
(***************************************************************************)
(* What the clients know.  Each client keeps, for every channel it is in,  *)
(* a list of members, of operators and the topic, built only from the      *)
(* lines the server has put in its write buffer: its own JOIN starts the   *)
(* view with the topic and the name list that follow it, and every later   *)
(* JOIN, PART, KICK, QUIT, MODE o or TOPIC line changes it.  `mirror' is a *)
(* history variable: it restricts no step of the server.                   *)
(***************************************************************************)
EXTENDS ChannelServer

VARIABLE mirror   \* mirror[d][k]: what client d believes about channel k

viewVars == <<vars, mirror>>

NoView == [roster |-> {}, ops |-> {}, topic |-> Empty]

(* The lines d has just been sent, and those of one command.               *)
Lines(d) == {sent'[d][i] : i \in DOMAIN sent'[d]}
Of(d, cmd, k) == {m \in Lines(d) : m.cmd = cmd /\ m.chan = k}

(* Everyone a line to d about k says is no longer there.                   *)
Gone(d, k) ==
  {m.from : m \in Of(d, "PART", k) \cup Of(d, "QUIT", NULL)}
    \cup {m.arg : m \in Of(d, "KICK", k)}

Promoted(d, k, enable) ==
  {m.arg.who : m \in {x \in Of(d, "MODEO", k) : x.arg.enable = enable}}

(* The topic d sees in k: a numeric of the server or a TOPIC line.         *)
TopicOf(d, k, old) ==
  IF Of(d, "TOPIC", k) \cup Of(d, "332", k) \cup Of(d, "331", k) = {} THEN old
  ELSE (CHOOSE m \in Of(d, "TOPIC", k) \cup Of(d, "332", k) \cup Of(d, "331", k) :
          TRUE).arg

(* The view of d once it has read the lines of this step.                  *)
Entered(d, k) == \E m \in Of(d, "JOIN", k) : m.from = d

Watch(d, k) ==
  LET v == mirror[d][k]
  IN  IF Entered(d, k)
      THEN LET names == (CHOOSE m \in Of(d, "353", k) : TRUE).arg
           IN  [roster |-> names.members, ops |-> names.operators,
                topic |-> TopicOf(d, k, Empty)]
      ELSE IF v = NoView \/ d \in Gone(d, k) THEN NoView
      ELSE [roster |-> (v.roster \cup {m.from : m \in Of(d, "JOIN", k)}) \ Gone(d, k),
            ops    |-> ((v.ops \cup Promoted(d, k, TRUE)) \ Promoted(d, k, FALSE))
                         \ Gone(d, k),
            topic  |-> TopicOf(d, k, v.topic)]

ViewInit == Init /\ mirror = [d \in Client |-> [k \in ChannelKey |-> NoView]]

(* A client whose connection is gone starts again from nothing.            *)
ViewNext ==
  /\ Next
  /\ mirror' = [d \in Client |-> [k \in ChannelKey |->
                  IF d \in clients' THEN Watch(d, k) ELSE NoView]]

ViewSpec == ViewInit /\ [][ViewNext]_viewVars

(* What the members of a channel were sent is enough to know it exactly:   *)
(* at every moment each member's own list of members and operators and its *)
(* topic are those of the server, whatever mixture of JOIN, PART, KICK,    *)
(* MODE, TOPIC, JOIN 0 and lost connections led here; and a client that is *)
(* not in believes nothing (sendToAll before or after removeMember,        *)
(* Channel.cpp:223, 267, 296, 331, 565, and broadcastQuit).                *)
MirrorExact ==
  \A d \in Client, k \in ChannelKey :
    mirror[d][k] = IF d \in members[k]
                   THEN [roster |-> members[k], ops |-> operators[k],
                         topic |-> topic[k]]
                   ELSE NoView

=============================================================================
