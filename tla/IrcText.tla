------------------------------ MODULE IrcText -------------------------------
(***************************************************************************)
(* What the server does with the bytes of a text: where it may cut one     *)
(* that is too long (Message::spliter, Client::sendReply, truncateUtf8),   *)
(* how it compares names (IrcText::toLower) and which names it accepts     *)
(* (isValidNickname, isValidChannelName, isValidKey, parseLimit).          *)
(*                                                                         *)
(* A byte is its code and a text a sequence of bytes; positions count      *)
(* from 1, so byte i of the code is element i + 1 here.                    *)
(***************************************************************************)
EXTENDS Integers, Sequences, FiniteSets

CONSTANT MaxLine   \* 510: the bytes of a line, without CR-LF

ASSUME MaxLineAssumption == MaxLine \in Nat /\ MaxLine >= 3

Byte == 0..255
Txt == Seq(Byte)

NUL   == 0
BEL   == 7
LF    == 10
CR    == 13
SPACE == 32
HASH  == 35
AMP   == 38
COMMA == 44
DASH  == 45
COLON == 58
AT    == 64
TILDE == 126
DEL   == 127
Digit == 48..57
Upper == 65..90
Lower == 97..122

Occurs(b, s) == \E i \in 1..Len(s) : s[i] = b

-----------------------------------------------------------------------------
(* UTF-8                                                                   *)

(* (c & 0xC0) == 0x80                                                      *)
isContinuation(b) == b \in 128..191

(* The bytes of the character that b begins.                               *)
Width(b) == IF b < 192 THEN 1 ELSE IF b < 224 THEN 2 ELSE IF b < 240 THEN 3 ELSE 4

(* s is made of whole characters: a leading byte is followed by all its    *)
(* continuation bytes, and each of those belongs to a leading byte.        *)
IsUtf8(s) ==
  \A i \in 1..Len(s) :
    IF isContinuation(s[i])
    THEN \E j \in 1..Len(s) :
           j < i /\ i < j + Width(s[j]) /\ ~isContinuation(s[j])
    ELSE /\ i + Width(s[i]) <= Len(s) + 1
         /\ \A j \in 1..Len(s) :
              i < j /\ j < i + Width(s[i]) => isContinuation(s[j])

(* Where to cut s, which is longer than max: before the byte after max, or *)
(* further back while that byte continues a character, not below floor.    *)
cutAt(s, max, floor) ==
  CHOOSE n \in 0..max :
    /\ n = floor \/ (n > floor /\ ~isContinuation(s[n + 1]))
    /\ \A m \in 1..max : m > n => isContinuation(s[m + 1])

Shorten(s, max, floor) ==
  IF Len(s) <= max THEN s ELSE SubSeq(s, 1, cutAt(s, max, floor))

(* A line, in spliter and in sendReply: at most three bytes back.          *)
cutLine(s, max) == Shorten(s, max, max - 3)

(* Mutant: one byte of a topic is given up, not a whole character.         *)
truncateOneByte(s, max) == IF Len(s) <= max THEN s ELSE SubSeq(s, 1, max - 1)

(* A topic: back to the start of a character, or of the text.              *)
truncateUtf8(s, max) == Shorten(s, max, 0)

-----------------------------------------------------------------------------
(* Names                                                                   *)

(* Mutant: {}|^ and []\~ are exchanged instead of lowered.                 *)
swapChar(c) == IF c \in Upper \cup (91..93) THEN c + 32
               ELSE IF c \in 123..125 THEN c - 32 ELSE c

(* []\~ are the upper case of {}|^, and A..Z of a..z.                      *)
lowerChar(c) == IF c \in Upper \cup (91..93) THEN c + 32
                ELSE IF c = TILDE THEN 94 ELSE c

toLower(s) == [i \in 1..Len(s) |-> lowerChar(s[i])]

toupper(s) == [i \in 1..Len(s) |-> IF s[i] \in Lower THEN s[i] - 32 ELSE s[i]]

(* [ \ ] ^ _ ` and { | }                                                   *)
isSpecial(c) == c \in (91..96) \cup (123..125)
isAlpha(c) == c \in Upper \cup Lower

isValidNickname(s) ==
  /\ Len(s) \in 1..9
  /\ isAlpha(s[1]) \/ isSpecial(s[1])
  /\ \A i \in 2..Len(s) :
       isAlpha(s[i]) \/ s[i] \in Digit \/ isSpecial(s[i]) \/ s[i] = DASH

isValidChannelName(s) ==
  /\ Len(s) \in 1..50
  /\ s[1] \in {HASH, AMP}
  /\ ~Occurs(SPACE, s) /\ ~Occurs(COMMA, s) /\ ~Occurs(BEL, s)

isValidKey(s) ==
  /\ Len(s) \in 1..42
  /\ \A i \in 1..Len(s) : s[i] > SPACE /\ s[i] # DEL /\ s[i] # COMMA

tenTo[n \in Nat] == IF n = 0 THEN 1 ELSE 10 * tenTo[n - 1]

(* An int holds -top..(top - 1): what does not fit is undefined, and wraps *)
(* around in practice.                                                     *)
asInt(n, top) == ((n + top) % (2 * top)) - top

(* std::atoi of digits, with `out' an int.                                 *)
atoi(s, top) ==
  LET out[n \in 0..Len(s)] ==
        IF n = 0 THEN 0 ELSE asInt(10 * out[n - 1] + (s[n] - 48), top)
  IN  out[Len(s)]

(* digits = 9 and top = 2^31                                               *)
parseLimit(s, digits, top) ==
  /\ Len(s) \in 1..digits /\ \A i \in 1..Len(s) : s[i] \in Digit
  /\ atoi(s, top) > 0

-----------------------------------------------------------------------------
(* std::string::find and its relatives: a position, or one past the end.   *)

find(s, b, from) ==
  CHOOSE i \in 1..(Len(s) + 1) :
    /\ from <= i
    /\ i <= Len(s) => s[i] = b
    /\ \A j \in 1..Len(s) : from <= j /\ j < i => s[j] # b

skipSpaces(s, from) ==
  CHOOSE i \in 1..(Len(s) + 1) :
    /\ from <= i
    /\ i <= Len(s) => s[i] # SPACE
    /\ \A j \in 1..Len(s) : from <= j /\ j < i => s[j] = SPACE

(* substr from one position up to, not including, another                  *)
substr(s, from, to) == SubSeq(s, from, to - 1)

(* The newlines of s, those up to a position, and where the n-th one is.   *)
Newlines(s) == {i \in 1..Len(s) : s[i] = LF}
NewlinesUpTo(s, i) == {j \in Newlines(s) : j <= i}
NthNewline(s, n) ==
  IF n = 0 THEN 0
  ELSE CHOOSE i \in Newlines(s) : Cardinality(NewlinesUpTo(s, i)) = n

=============================================================================
