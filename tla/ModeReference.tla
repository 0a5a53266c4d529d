---------------------------- MODULE ModeReference ----------------------------
(***************************************************************************)
(* A reference for MODE: the whole line read once, from left to right.     *)
(*                                                                         *)
(* The code reads a line twice (ModeCommand): the operator changes are     *)
(* applied during the first reading, i, t, k and l during the second.      *)
(* `origin', a history variable, remembers the line and the channel as     *)
(* they were when the command began; the properties compare what the two   *)
(* readings leave behind, and what they announce, with the reference.      *)
(***************************************************************************)
EXTENDS ChannelServer

VARIABLE origin

ModesOf(k) == [inviteOnly |-> inviteOnly[k], topicByOpOnly |-> topicByOpOnly[k],
               key |-> key[k], userLimit |-> userLimit[k]]

(* What a reader of a line keeps: the sign in force, the parameters left,  *)
(* the letters with a parameter so far, and the channel `o' as it was,     *)
(* with the modes and operators that the line has made of it.              *)
Modes == [inviteOnly : BOOLEAN, topicByOpOnly : BOOLEAN,
          key : ValidKey \cup {Empty}, userLimit : Nat]
Reader == [on : BOOLEAN, params : Seq(Param), count : 0..3, modes : Modes,
           ops : SUBSET Client, members : SUBSET Client, by : Client]

Point(on, params, count, modes, ops, o) ==
  [on |-> on, params |-> params, count |-> count, modes |-> modes, ops |-> ops,
   members |-> o.members, by |-> o.by]
Start(params, o) == Point(TRUE, params, 0, o.modes, o.ops, o)

(* The parameter a letter takes, as in Mode.cpp:98.                        *)
Takes(x, on) == x \in {"o", "k"} \/ (x = "l" /\ on)
Wants(x, on) == x = "o" \/ (x \in {"k", "l"} /\ on)

(* One letter x with parameter p (NULL: none), set or unset.               *)
ModesWith(m, on, x, p) ==
  CASE x = "i" -> [m EXCEPT !.inviteOnly = on]
    [] x = "t" -> [m EXCEPT !.topicByOpOnly = on]
    [] x = "k" /\ on /\ m.key = Empty /\ p \in ValidKey -> [m EXCEPT !.key = p]
    [] x = "k" /\ ~on -> [m EXCEPT !.key = Empty]
    [] x = "l" /\ on /\ p \in Numeral /\ atoi[p] > 0 -> [m EXCEPT !.userLimit = atoi[p]]
    [] x = "l" /\ ~on -> [m EXCEPT !.userLimit = 0]
    [] OTHER -> m

OpsWith(s, x, p) ==
  IF x # "o" \/ p \notin s.members \/ s.by \notin s.ops THEN s.ops
  ELSE IF s.on THEN s.ops \cup {p} ELSE s.ops \ {p}

(* One character of the line: at most three letters with a parameter       *)
(* count, and a letter that lacks the parameter it wants is skipped.       *)
Read(s, x) ==
  LET p == IF Takes(x, s.on) /\ s.params # <<>> THEN Head(s.params) ELSE NULL
      left   == IF p = NULL THEN s.params ELSE Tail(s.params)
      counts == x \in {"o", "k", "l"}
  IN  IF x \in Sign THEN [s EXCEPT !.on = (x = "+")]
      ELSE IF (Wants(x, s.on) /\ p = NULL) \/ (counts /\ s.count = 3)
      THEN [s EXCEPT !.params = left]
      ELSE Point(s.on, left, IF counts THEN s.count + 1 ELSE s.count,
                 ModesWith(s.modes, s.on, x, p), OpsWith(s, x, p), s)

(* A character of an announcement, where only +k and +l carry an argument. *)
Hear(s, x) ==
  IF x \in Sign THEN [s EXCEPT !.on = (x = "+")]
  ELSE IF x \in {"k", "l"} /\ s.on /\ s.params # <<>>
       THEN [s EXCEPT !.params = Tail(@), !.modes = ModesWith(@, s.on, x, Head(s.params))]
       ELSE [s EXCEPT !.modes = ModesWith(@, s.on, x, NULL)]

(* A line read from its first character to its last, by either of them.    *)
reading == [p \in Reader \X ModeChar |-> Read(p[1], p[2])]
hearing == [p \in Reader \X ModeChar |-> Hear(p[1], p[2])]

Through(step, s, line) ==
  LET upTo[n \in 0..Len(line)] ==
        IF n = 0 THEN s ELSE step[<<upTo[n - 1], line[n]>>]
  IN  upTo[Len(line)]

ReadLine(o) == Through(reading, Start(o.params, o), o.line)

-----------------------------------------------------------------------------

RefInit == Init /\ origin = NULL

RefNext ==
  /\ Next
  /\ origin' =
       IF Idle /\ frame'.op = "scan"
       THEN [line |-> frame'.modes, params |-> frame'.params,
             modes |-> ModesOf(frame'.chan), ops |-> operators[frame'.chan],
             members |-> members[frame'.chan], by |-> frame'.client]
       ELSE IF frame'.op \in {"scan", "apply"} THEN origin ELSE NULL

refVars == <<vars, origin>>
RefSpec == RefInit /\ [][RefNext]_refVars

(* A MODE command ends in this step.                                       *)
Ends == frame.op \in {"scan", "apply"} /\ frame'.op = "idle"

(* The two readings do what one reading from left to right would, if the   *)
(* executor is still operator at the end; if the line took the executor's  *)
(* own status, none of its i, t, k and l letters has any effect, not even  *)
(* those that stand before the -o (Channel.cpp:441 is reached last).       *)
TwoReadings ==
  [][Ends =>
       \A k \in {frame.chan} :
         /\ operators'[k] = ReadLine(origin).ops
         /\ ModesOf(k)' = IF origin.by \in operators'[k] THEN ReadLine(origin).modes
                                                       ELSE origin.modes]_refVars

(* The MODE line broadcast at the end of handleMode says exactly what has  *)
(* changed: a member that reads it, argument by argument, into the modes   *)
(* the channel had before the command gets the modes it has now, and no    *)
(* line means that nothing changed (Channel.cpp:392, 505, 531, 545).       *)
Announced ==
  [][Ends =>
       \A k \in {frame.chan} : \A d \in members[k] :
         LET lines == sent'[d]
             news  == {i \in 1..Len(lines) : lines[i].cmd = "MODE"}
         IN  IF news = {} THEN ModesOf(k)' = origin.modes
             ELSE \A i \in news :
               LET m == lines[i].arg
               IN  Through(hearing, Start(m.args, origin), m.applied).modes
                     = ModesOf(k)']_refVars

=============================================================================
