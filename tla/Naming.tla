------------------------------- MODULE Naming -------------------------------
(***************************************************************************)
(* A parameter as NICK, JOIN, TOPIC and MODE take it, typed byte by byte:  *)
(* what the server accepts as a name or a limit, how names are folded for  *)
(* comparison, and what is kept of a topic.  Channel and Registration take *)
(* toLower and the valid names as parameters; this module is about the     *)
(* functions.                                                              *)
(***************************************************************************)
EXTENDS IrcText

CONSTANTS
  Alphabet,  \* the bytes typed: what a parameter may hold
  MaxTopic,  \* 300
  MaxDigits, \* 9: of a user limit
  IntTop,    \* 2^31: the first number an int cannot hold
  MaxText    \* bound: bytes of a parameter

ASSUME AlphabetAssumption == Alphabet \subseteq Byte \ {NUL, CR, LF}
ASSUME DigitsAssumption == MaxDigits \in Nat /\ IntTop \in Nat /\ tenTo[MaxDigits] <= IntTop
ASSUME TopicAssumption == MaxTopic \in Nat /\ MaxTopic >= 3 /\ MaxText \in Nat

VARIABLE text

NamingInit == text = <<>>

Type(b) == Len(text) < MaxText /\ text' = Append(text, b)

NamingNext == \E b \in Alphabet : Type(b)

NamingSpec == NamingInit /\ [][NamingNext]_text

-----------------------------------------------------------------------------
(* The key of the registries is itself a name, and the key of the key: a   *)
(* name, its key and every other spelling of it find the same object       *)
(* (Server::findChannel, isNicknameTaken).  No nickname is taken for a     *)
(* channel, for JOIN's "0", for a part of the mask nick!user@host, or for  *)
(* two parameters (Privmsg::execute, makeCommand).                         *)
NamesAreSafe ==
  /\ toLower(toLower(text)) = toLower(text)
  /\ isValidChannelName(text) => isValidChannelName(toLower(text))
  /\ isValidNickname(text) =>
       /\ isValidNickname(toLower(text)) /\ ~isValidChannelName(text)
       /\ text[1] \notin Digit
       /\ \A b \in {SPACE, COLON, AT, 33, COMMA} : ~Occurs(b, text)

(* A topic is kept whole or cut after a character, and as long as that     *)
(* allows (handleTopic, truncateUtf8).                                     *)
TopicKept ==
  LET kept == truncateUtf8(text, MaxTopic)
  IN  /\ Len(kept) <= MaxTopic /\ kept = SubSeq(text, 1, Len(kept))
      /\ IsUtf8(text) => IsUtf8(kept) /\ (kept = text \/ Len(kept) >= MaxTopic - 3)

(* The number that digits write, by the place of each of them.             *)
numberOf(s) ==
  LET last[n \in 0..Len(s)] ==   \* of the last n digits
        IF n = 0 THEN 0
        ELSE (s[Len(s) + 1 - n] - 48) * tenTo[n - 1] + last[n - 1]
  IN  last[Len(s)]

(* A limit that is taken is kept exactly, leading zeros or not: no number  *)
(* wraps around to a smaller one, or to a negative one, which would be no  *)
(* limit at all (parseLimit, isFull).                                      *)
LimitKept ==
  parseLimit(text, MaxDigits, IntTop) => atoi(text, IntTop) = numberOf(text)
                                         /\ numberOf(text) > 0

(* What a channel keeps of a parameter, topic or limit, is what was meant. *)
KeptAsMeant == TopicKept /\ LimitKept

=============================================================================
