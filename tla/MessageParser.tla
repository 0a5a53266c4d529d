--------------------------- MODULE MessageParser ----------------------------
(***************************************************************************)
(* A line on its way from the read buffer to a handler: Message::spliter,  *)
(* one action for each of its parts and one for each parameter, then       *)
(* Parser::operate and CommandRegistry::dispatch.                          *)
(***************************************************************************)
EXTENDS IrcText

CONSTANTS
  Line,       \* the lines popLine may return
  MaxMiddle,  \* 14: parameters before the one that takes the rest
  LoginFree,  \* names of the registered commands with needLogin() = false
  LoginOnly   \* and with needLogin() = true

ASSUME LineAssumption == Line \subseteq {s \in Txt : ~Occurs(LF, s)}
ASSUME BoundAssumption == MaxMiddle \in Nat
ASSUME TableAssumption == LoginFree \cap LoginOnly = {}

VARIABLES
  raw,         \* what popLine returned
  registered,  \* the sender's _is_registered
  seared,      \* raw as far as it is parsed
  pos,         \* the position of the parser in seared
  stage,       \* the part of spliter to run next, or how the line ended
  existPrefix, prefix, command, parameter  \* class Message

message   == <<existPrefix, prefix, command, parameter>>
parseVars == <<raw, registered, seared, pos, stage, message>>

Outcome == {"refused", "421", "451", "executed"}

ParseInit ==
  /\ raw \in Line /\ registered \in BOOLEAN
  /\ seared = <<>> /\ pos = 1 /\ stage = "trim"
  /\ existPrefix = FALSE /\ prefix = <<>> /\ command = <<>> /\ parameter = <<>>

-----------------------------------------------------------------------------
(* spliter returns false; operate drops the line.                          *)
Refuse == stage' = "refused" /\ UNCHANGED <<raw, registered, seared, pos, message>>

(* Mutant: every CR of a line is let through.                              *)
noCarriageReturn(s) == TRUE

(* A CR may only be the last byte.                                         *)
carriageReturnOK(s) == find(s, CR, 1) >= Len(s)

(* One CR at the end is not part of the message.                           *)
chop(s) == IF Len(s) > 0 /\ s[Len(s)] = CR THEN SubSeq(s, 1, Len(s) - 1) ELSE s

readable(s) == ~Occurs(NUL, s) /\ carriageReturnOK(s)

(* Mutant: the line is cut at the limit, wherever that is.                 *)
cutAnywhere(s) == SubSeq(s, 1, IF Len(s) <= MaxLine THEN Len(s) ELSE MaxLine)

(* searing: the line, cut before a character if it is too long.            *)
withinLimit(s) == cutLine(s, MaxLine)

(* What is left of the line after the limit and the CR.                    *)
Trim ==
  LET cut  == withinLimit(raw)
      text == chop(cut)
      p    == skipSpaces(text, 1)
  IN  /\ stage = "trim"
      /\ \/ (raw = <<>> \/ ~readable(cut) \/ p > Len(text)) /\ Refuse
         \/ /\ raw # <<>> /\ readable(cut) /\ p <= Len(text)
            /\ seared' = text /\ pos' = p
            /\ stage' = IF text[p] = COLON THEN "prefix" ELSE "command"
            /\ UNCHANGED <<raw, registered, message>>

(* The position after a word that ends before `end'.                       *)
afterWord(s, end) == skipSpaces(s, end)

(* ":" and what follows it up to a space.                                  *)
Prefix ==
  LET end == find(seared, SPACE, pos + 1)
      p   == afterWord(seared, end)
  IN  /\ stage = "prefix"
      /\ \/ (end > Len(seared) \/ p > Len(seared)) /\ Refuse
         \/ /\ end <= Len(seared) /\ p <= Len(seared)
            /\ existPrefix' = (pos + 1 # end)
            /\ prefix' = substr(seared, pos + 1, end)
            /\ pos' = p /\ stage' = "command"
            /\ UNCHANGED <<raw, registered, seared, command, parameter>>

setCommand(s) == toupper(s)

Command ==
  LET end == find(seared, SPACE, pos)
  IN  /\ stage = "command"
      /\ command' = setCommand(substr(seared, pos, end))
      /\ pos' = afterWord(seared, end)
      /\ stage' = "params"
      /\ UNCHANGED <<raw, registered, seared, existPrefix, prefix, parameter>>

(* Mutant: a colon only counts where the parameters are used up.           *)
isTrailingByCount == Len(parameter) = MaxMiddle

isTrailing == seared[pos] = COLON \/ Len(parameter) = MaxMiddle

addParameter(s) == parameter' = Append(parameter, s)

Middle ==
  LET end == find(seared, SPACE, pos)
  IN  /\ stage = "params" /\ pos <= Len(seared) /\ ~isTrailing
      /\ addParameter(substr(seared, pos, end))
      /\ pos' = afterWord(seared, end)
      /\ UNCHANGED <<raw, registered, seared, stage, existPrefix, prefix, command>>

trailingStart == IF seared[pos] = COLON THEN pos + 1 ELSE pos

Trailing ==
  /\ stage = "params" /\ pos <= Len(seared) /\ isTrailing
  /\ addParameter(substr(seared, trailingStart, Len(seared) + 1))
  /\ pos' = Len(seared) + 1
  /\ UNCHANGED <<raw, registered, seared, stage, existPrefix, prefix, command>>

(* CommandRegistry::dispatch                                               *)
dispatch ==
  IF command \notin LoginFree \cup LoginOnly THEN "421"
  ELSE IF command \in LoginOnly /\ ~registered THEN "451" ELSE "executed"

operate ==
  /\ stage = "params" /\ pos > Len(seared)
  /\ stage' = dispatch
  /\ UNCHANGED <<raw, registered, seared, pos, message>>

ParseNext == Trim \/ Prefix \/ Command \/ Middle \/ Trailing \/ operate

ParseSpec == ParseInit /\ [][ParseNext]_parseVars

-----------------------------------------------------------------------------
NoByte(s, S) == \A b \in S : ~Occurs(b, s)

(* A middle parameter can be written between two spaces again.             *)
IsMiddle(s) == s # <<>> /\ s[1] # COLON /\ ~Occurs(SPACE, s)

(* What handlers put into the lines of other clients cannot end a line     *)
(* there: no parameter, prefix or name holds NUL, CR or LF, all parameters *)
(* but the last are single words, and there are at most MaxMiddle + 1      *)
(* (Message::spliter, whose parameters are copied into replies).           *)
CleanMessage ==
  /\ NoByte(prefix, {NUL, CR, LF, SPACE})
  /\ NoByte(command, {NUL, CR, LF, SPACE})
  /\ Len(parameter) <= MaxMiddle + 1
  /\ \A i \in 1..Len(parameter) : NoByte(parameter[i], {NUL, CR, LF})
  /\ \A i \in 1..Len(parameter) : i < Len(parameter) => IsMiddle(parameter[i])

(* The words of a line: where they begin, and the n-th after position p.   *)
WordStart(s) ==
  {i \in 1..Len(s) : s[i] # SPACE /\ (i = 1 \/ s[i - 1] = SPACE)}
Word(s, i) == substr(s, i, find(s, SPACE, i))
Rank(S, i) == Cardinality({j \in S : j <= i})

(* The line read declaratively: an optional first word with a colon, the   *)
(* command, words up to the first with a colon or the one too many, and    *)
(* the rest of the line.                                                   *)
SourceWord(s) == {i \in WordStart(s) : Rank(WordStart(s), i) = 1 /\ s[i] = COLON}
CommandAt(s) ==
  LET rest == WordStart(s) \ SourceWord(s)
  IN  CHOOSE i \in rest : \A j \in rest : i <= j
Args(s) == {i \in WordStart(s) : i > CommandAt(s)}
RestWords(s) == {i \in Args(s) : s[i] = COLON \/ Rank(Args(s), i) > MaxMiddle}
Middles(s) == {i \in Args(s) : \A j \in RestWords(s) : i < j}
NthArg(s, n) == CHOOSE i \in Args(s) : Rank(Args(s), i) = n

Meaning(s) ==
  LET n    == Cardinality(Middles(s))
      rest == NthArg(s, n + 1)
  IN  [command   |-> toupper(Word(s, CommandAt(s))),
       parameter |->
         [k \in 1..n |-> Word(s, NthArg(s, k))]
         \o (IF RestWords(s) = {} THEN <<>>
             ELSE << SubSeq(s, IF s[rest] = COLON THEN rest + 1 ELSE rest, Len(s)) >>)]

(* The step-by-step parser finds in every line it accepts the command and  *)
(* the parameters of the declarative reading, whatever the spaces, and the *)
(* command is executed, whatever the case it was typed in, or answered     *)
(* with 421 or 451, as the table and the login say.                        *)
ReadsAsMeant ==
  stage \in Outcome \ {"refused"} =>
    LET meant == Meaning(seared)
    IN  /\ meant = [command |-> command, parameter |-> parameter]
        /\ stage = "421" <=> meant.command \notin LoginFree \cup LoginOnly
        /\ stage = "451" <=> meant.command \in LoginOnly /\ ~registered

(* A line of whole UTF-8 characters gives parameters of whole characters,  *)
(* however long it is: neither the limit on the line nor the split at      *)
(* ASCII bytes breaks one (spliter's "handle UTF-8 characters").           *)
KeepsCharacters ==
  IsUtf8(raw) => \A i \in 1..Len(parameter) : IsUtf8(parameter[i])

(* The inductive form of CleanMessage and KeepsCharacters: what is being   *)
(* parsed is clean itself, and the parser always stands at the beginning   *)
(* of a word or at the end.                                                *)
AtWord == pos <= Len(seared) =>
            seared[pos] # SPACE /\ (pos = 1 \/ seared[pos - 1] = SPACE)

ParseInv ==
  /\ raw \in Txt /\ ~Occurs(LF, raw)
  /\ seared \in Txt /\ NoByte(seared, {NUL, CR, LF})
  /\ IsUtf8(raw) => IsUtf8(seared)
  /\ pos \in 1..(Len(seared) + 1) /\ AtWord
  /\ stage \in {"prefix", "command"} => pos <= Len(seared)
  /\ stage \in {"trim", "prefix", "command"} => parameter = <<>>
  /\ stage = "params" /\ pos <= Len(seared) =>
       /\ Len(parameter) <= MaxMiddle
       /\ \A i \in 1..Len(parameter) : IsMiddle(parameter[i])
  /\ parameter \in Seq(Txt)
  /\ CleanMessage /\ KeepsCharacters

(* The inductive form of ReadsAsMeant: which word the parser stands at in  *)
(* each part, and what it has of the words before.                         *)
ReadUpTo(s, p, q) ==
  /\ CommandAt(s) \in 1..(p - 1)
  /\ \A i \in Args(s) : i < p => s[i] # COLON
  /\ Len(q) <= MaxMiddle /\ Len(q) = Cardinality({i \in Args(s) : i < p})
  /\ \A n \in 1..Len(q) :
       \E i \in Args(s) : i < p /\ Rank(Args(s), i) = n /\ q[n] = Word(s, i)

MeantInv ==
  /\ stage = "prefix" => /\ seared[pos] = COLON
                         /\ \A i \in WordStart(seared) : pos <= i
  /\ stage = "command" => CommandAt(seared) = pos
  /\ stage \in {"params", "421", "451", "executed"} =>
       command = Meaning(seared).command
  /\ stage = "params" => \/ ReadUpTo(seared, pos, parameter)
                         \/ /\ pos = Len(seared) + 1
                            /\ parameter = Meaning(seared).parameter
  /\ ReadsAsMeant

=============================================================================
