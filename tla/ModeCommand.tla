---------------------------- MODULE ModeCommand ----------------------------
(***************************************************************************)
(* The MODE command (common/commandlist/Mode.cpp, Channel::handleMode).    *)
(*                                                                         *)
(* The source reads a mode string twice.  Mode::execute scans it, takes a  *)
(* parameter for each letter that wants one, applies every `o' at once and *)
(* copies the other letters, with their signs and parameters, to           *)
(* filteredModes and filteredParams.  Channel::handleMode then reads that  *)
(* copy and applies i, t, k and l.  Each iteration of either loop is one   *)
(* step here; `frame' holds the local variables, and while it is not idle  *)
(* no other command runs.                                                  *)
(*                                                                         *)
(*   scan:  modes, params   what is left of modes and modeParams           *)
(*          out, outParams  filteredModes and filteredParams               *)
(*   apply: modes, params   what is left of filteredModes, filteredParams  *)
(*          out, outParams  applied and appliedArgs                        *)
(***************************************************************************)
EXTENDS Channel

(* "x" stands for every letter that is not a channel mode.                 *)
Sign == {"+", "-"}
ModeChar == Sign \cup {"i", "t", "k", "l", "o", "x"}

(* What a MODE command carries: a mode string and a list of parameters.    *)
ASSUME LineAssumption ==
  ModeLine \subseteq Seq(ModeChar) /\ ParamLine \subseteq Seq(Param)

sign(enable) == IF enable THEN "+" ELSE "-"

isValidKey(p) == p \in ValidKey

(* Nine digits fit an int; zero is no limit.                               *)
parseLimit(p) == p \in Numeral /\ atoi[p] > 0

(* A letter as appendApplied and the end of Mode::execute's loop add it:   *)
(* the sign is written only where it differs from the last one.            *)
appendApplied(out, lastSign, enable, c) ==
  out \o (IF sign(enable) = lastSign THEN <<>> ELSE <<sign(enable)>>) \o <<c>>

ModeFrame(c, k, op, modes, params) ==
  [IdleFrame EXCEPT !.op = op, !.client = c, !.chan = k,
                    !.modes = modes, !.params = params]

(* The loop continues with nothing sent and no channel changed.            *)
Continue == sent' = Quiet /\ UNCHANGED <<clientVars, chanVars>>
Complain(code) ==
  /\ sent' = sendToOne(frame.client, makeReply(code, frame.chan, Empty))
  /\ UNCHANGED <<clientVars, chanVars>>

-----------------------------------------------------------------------------
(* MODE <n> [<modes> <params>]                                             *)

modeString(k) == [inviteOnly |-> inviteOnly[k], topicByOpOnly |-> topicByOpOnly[k],
                  key |-> key[k], userLimit |-> userLimit[k]]

Mode(c, n, modes, params) ==
  /\ Ready(c)
  /\ \/ n = NULL /\ Answer(c, "461", NULL, Empty)
     \/ n = BadName /\ Ignore
     \/ n \in ChannelName /\ findChannel(n) = NULL /\ Answer(c, "403", NULL, Empty)
     \/ /\ n \in ChannelName /\ findChannel(n) # NULL
        /\ LET k == findChannel(n) IN
           \/ /\ modes = <<>>
              /\ IF isMember(c, k) THEN Answer(c, "324", k, modeString(k))
                                   ELSE Answer(c, "442", k, Empty)
           \/ modes # <<>> /\ ~isOperator(c, k) /\ Answer(c, "482", k, Empty)
           \/ /\ modes # <<>> /\ isOperator(c, k) /\ modes[1] \notin Sign
              /\ Answer(c, "472", k, Empty)
           \/ /\ modes # <<>> /\ isOperator(c, k) /\ modes[1] \in Sign
              /\ frame' = ModeFrame(c, k, "scan", modes, params)
              /\ Continue

-----------------------------------------------------------------------------
(* The loop of Mode::execute, by the letter at the head of frame.modes.    *)

Scanning(letters) ==
  /\ frame.op = "scan" /\ frame.modes # <<>> /\ Head(frame.modes) \in letters

letter == Head(frame.modes)

ScanSign ==
  /\ Scanning(Sign)
  /\ frame' = [frame EXCEPT !.modes = Tail(@), !.enable = (letter = "+")]
  /\ Continue

ScanUnknown ==
  /\ Scanning({"x"})
  /\ frame' = [frame EXCEPT !.modes = Tail(@)]
  /\ Complain("472")

takesParam    == letter \in {"o", "k"} \/ (letter = "l" /\ frame.enable)

(* Mutant: +l may come without its number.                                 *)
requiresNoLimit == letter = "o" \/ (letter = "k" /\ frame.enable)

requiresParam == letter = "o" \/ (letter \in {"k", "l"} /\ frame.enable)
hasParam      == takesParam /\ frame.params # <<>>

ScanMissing ==
  /\ Scanning({"o", "k", "l"})
  /\ requiresParam /\ ~hasParam
  /\ frame' = [frame EXCEPT !.modes = Tail(@)]
  /\ Complain("461")

(* The parameter is taken before the limit of three is applied.            *)
rest == IF hasParam THEN Tail(frame.params) ELSE frame.params

(* Mutant: four parameters.                                                *)
overLimitByOne == frame.paramModeCount > 3

overLimit == frame.paramModeCount >= 3

ScanOverLimit ==
  /\ Scanning({"o", "k", "l"})
  /\ (requiresParam => hasParam) /\ overLimit
  /\ frame' = [frame EXCEPT !.modes = Tail(@), !.params = rest]
  /\ Continue

(* Mutants: the executor's own status, or the target's, is not looked at.  *)
stillOperator(c, k) == TRUE
anyTarget(d, k) == TRUE

(* The two tests of Channel::handleModeOperator.                           *)
mayChangeOperators(c, k) == isOperator(c, k)
isTarget(d, k) == isMember(d, k)

(* Channel::handleModeOperator                                             *)
handleModeOperator(enable, d, c, k) ==
  \/ ~isTarget(d, k) /\ Complain("441")
  \/ isTarget(d, k) /\ ~mayChangeOperators(c, k) /\ Complain("482")
  \/ /\ isTarget(d, k) /\ mayChangeOperators(c, k)
     /\ IF isOperator(d, k) = enable
        THEN Continue
        ELSE /\ operators' = [operators EXCEPT ![k] =
                                IF enable THEN @ \cup {d} ELSE @ \ {d}]
             /\ sent' = sendToAll(members[k],
                          makeCommand(c, "MODEO", k, [enable |-> enable, who |-> d]))
             /\ UNCHANGED <<clientVars, channels, name, members, invitedUsers,
                            settings>>

ScanOperator ==
  /\ Scanning({"o"})
  /\ hasParam /\ ~overLimit
  /\ frame' = [frame EXCEPT !.modes = Tail(@), !.params = rest,
                            !.paramModeCount = @ + 1]
  /\ LET d == findClientByNickname(Head(frame.params))
     IN  IF d = NULL
         THEN Complain("441")
         ELSE handleModeOperator(frame.enable, d, frame.client, frame.chan)

(* Mutant: the key that came with -k is handed on too.                     *)
keepsKeyParam == hasParam /\ letter \in {"k", "l"}

keepsParam == frame.enable /\ hasParam /\ letter \in {"k", "l"}

(* i and t, and k and l within the limit: copied for handleMode.           *)
ScanFilter ==
  /\ Scanning({"i", "t", "k", "l"})
  /\ letter \in {"k", "l"} => (requiresParam => hasParam) /\ ~overLimit
  /\ frame' = [frame EXCEPT
       !.modes = Tail(@), !.params = rest,
       !.paramModeCount = IF letter \in {"k", "l"} THEN @ + 1 ELSE @,
       !.out = appendApplied(@, frame.lastSign, frame.enable, letter),
       !.lastSign = sign(frame.enable),
       !.outParams = IF keepsParam THEN Append(@, Head(frame.params)) ELSE @]
  /\ Continue

(* Nothing to apply, or an executor who is no operator any more: done.     *)
ScanEnd ==
  /\ frame.op = "scan" /\ frame.modes = <<>>
  /\ \/ frame.out = <<>> /\ frame' = IdleFrame /\ Continue
     \/ /\ frame.out # <<>> /\ ~isOperator(frame.client, frame.chan)
        /\ frame' = IdleFrame
        /\ Complain("482")
     \/ /\ frame.out # <<>> /\ isOperator(frame.client, frame.chan)
        /\ frame' = ModeFrame(frame.client, frame.chan, "apply",
                              frame.out, frame.outParams)
        /\ Continue

-----------------------------------------------------------------------------
(* The loop of Channel::handleMode.                                        *)

Applying(letters) ==
  /\ frame.op = "apply" /\ frame.modes # <<>> /\ Head(frame.modes) \in letters

ApplySign ==
  /\ Applying(Sign)
  /\ frame' = [frame EXCEPT !.modes = Tail(@), !.enable = (letter = "+")]
  /\ Continue

(* A letter read without effect: only what the loop consumed is gone.      *)
Skip(params) == frame' = [frame EXCEPT !.modes = Tail(@), !.params = params]

(* Mutant: the argument is left out of the announcement.                   *)
ApplyNoArgs(params, args) ==
  /\ frame' = [frame EXCEPT
       !.modes = Tail(@), !.params = params,
       !.out = appendApplied(@, frame.lastSign, frame.enable, letter),
       !.lastSign = sign(frame.enable)]
  /\ sent' = Quiet

(* A letter that took effect: it is announced with its argument.           *)
Apply(params, args) ==
  /\ frame' = [frame EXCEPT
       !.modes = Tail(@), !.params = params,
       !.out = appendApplied(@, frame.lastSign, frame.enable, letter),
       !.lastSign = sign(frame.enable),
       !.outParams = @ \o args]
  /\ sent' = Quiet

ApplyInviteOnly ==
  /\ Applying({"i"})
  /\ IF inviteOnly[frame.chan] = frame.enable
     THEN Skip(frame.params) /\ Continue
     ELSE /\ inviteOnly' = [inviteOnly EXCEPT ![frame.chan] = frame.enable]
          /\ Apply(frame.params, <<>>)
          /\ UNCHANGED <<clientVars, channels, name, members, operators,
                         invitedUsers, topic, key, userLimit, topicByOpOnly>>

ApplyTopic ==
  /\ Applying({"t"})
  /\ IF topicByOpOnly[frame.chan] = frame.enable
     THEN Skip(frame.params) /\ Continue
     ELSE /\ topicByOpOnly' = [topicByOpOnly EXCEPT ![frame.chan] = frame.enable]
          /\ Apply(frame.params, <<>>)
          /\ UNCHANGED <<clientVars, channels, name, members, operators,
                         invitedUsers, topic, key, userLimit, inviteOnly>>

setModeKey(p) ==
  /\ key' = [key EXCEPT ![frame.chan] = p]
  /\ UNCHANGED <<clientVars, channels, name, members, operators, invitedUsers,
                 topic, userLimit, inviteOnly, topicByOpOnly>>

ApplyKey ==
  /\ Applying({"k"})
  /\ \/ /\ frame.enable /\ frame.params # <<>>
        /\ LET p == Head(frame.params) IN
           \/ ~isValidKey(p) /\ Skip(Tail(frame.params)) /\ Complain("525")
           \/ /\ isValidKey(p) /\ key[frame.chan] # Empty
              /\ Skip(Tail(frame.params)) /\ Complain("467")
           \/ /\ isValidKey(p) /\ key[frame.chan] = Empty
              /\ setModeKey(p)
              /\ Apply(Tail(frame.params), <<p>>)
     \/ /\ ~frame.enable /\ key[frame.chan] # Empty
        /\ setModeKey(Empty)
        /\ Apply(frame.params, <<>>)
     \/ /\ ~frame.enable /\ key[frame.chan] = Empty
        /\ Skip(frame.params) /\ Continue

setModeUserLimit(n) ==
  /\ userLimit' = [userLimit EXCEPT ![frame.chan] = n]
  /\ UNCHANGED <<clientVars, channels, name, members, operators, invitedUsers,
                 topic, key, inviteOnly, topicByOpOnly>>

ApplyLimit ==
  /\ Applying({"l"})
  /\ \/ /\ frame.enable /\ frame.params # <<>>
        /\ LET p == Head(frame.params) IN
           \/ ~parseLimit(p) /\ Skip(Tail(frame.params)) /\ Complain("696")
           \/ /\ parseLimit(p)
              /\ setModeUserLimit(atoi[p])
              /\ Apply(Tail(frame.params), <<p>>)
     \/ /\ ~frame.enable /\ userLimit[frame.chan] > 0
        /\ setModeUserLimit(0)
        /\ Apply(frame.params, <<>>)
     \/ /\ ~frame.enable /\ userLimit[frame.chan] = 0
        /\ Skip(frame.params) /\ Continue

ApplyEnd ==
  /\ frame.op = "apply" /\ frame.modes = <<>>
  /\ frame' = IdleFrame
  /\ sent' = IF frame.out = <<>> THEN Quiet
             ELSE sendToAll(members[frame.chan],
                    makeCommand(frame.client, "MODE", frame.chan,
                                [applied |-> frame.out, args |-> frame.outParams]))
  /\ UNCHANGED <<clientVars, chanVars>>

(* handleMode's branch for a letter whose parameter is missing, and its    *)
(* default branch, are not modelled as steps: see NoBranchLeft.            *)
ModeStep ==
  \/ ScanSign \/ ScanUnknown \/ ScanMissing \/ ScanOverLimit \/ ScanOperator
  \/ ScanFilter \/ ScanEnd
  \/ ApplySign \/ ApplyInviteOnly \/ ApplyTopic \/ ApplyKey \/ ApplyLimit
  \/ ApplyEnd

=============================================================================
