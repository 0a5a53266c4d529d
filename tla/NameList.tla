------------------------------ MODULE NameList ------------------------------
(***************************************************************************)
(* The list of names that ends a JOIN (the loop of Channel::handleJoin):   *)
(* the members are put on as few 353 lines as fit under the limit of a     *)
(* line.  Only the sizes of the entries matter.                            *)
(***************************************************************************)
EXTENDS IrcText

CONSTANTS
  Members,     \* the channels: sequences of entries in the order of _members
  Size(_),     \* bytes of an entry: "@", if it is an operator, and nickname
  MaxEntry,    \* 10: "@" and nine bytes
  PrefixSizes  \* ":ircserv 353 nick = #channel :", 77 bytes at most

Entry == UNION {{m[i] : i \in 1..Len(m)} : m \in Members}

ASSUME EntryAssumption ==
  /\ MaxEntry \in Nat
  /\ \A m \in Members : m \in Seq(Entry)
  /\ \A e \in Entry : Size(e) \in 1..MaxEntry
  /\ PrefixSizes \subseteq {p \in Nat : p + MaxEntry <= MaxLine}

VARIABLES
  _members,    \* of the channel joined
  prefixSize,  \* prefix.size()
  i,           \* the index of the loop, from 1
  users,       \* the entries in the string `users'
  size,        \* users.size()
  lines,       \* the bytes of each 353 line sent
  listed       \* history: the entries on those lines

listVars == <<_members, prefixSize, i, users, size, lines, listed>>

ListInit ==
  /\ _members \in Members /\ prefixSize \in PrefixSizes
  /\ i = 1 /\ users = <<>> /\ size = 0 /\ lines = <<>> /\ listed = <<>>

limit == MaxLine - prefixSize

sendToOne ==
  /\ lines' = Append(lines, prefixSize + size)
  /\ listed' = listed \o users

(* Mutant: the space before the entry is not counted.                      *)
breaksNoSpace(e) == size > 0 /\ size + Size(e) > limit

breaks(e) == size > 0 /\ size + 1 + Size(e) > limit

(* The entry begins a line of its own.                                     *)
AddToNewLine(e) ==
  /\ sendToOne
  /\ users' = <<e>> /\ size' = Size(e)

AddToLine(e) ==
  /\ users' = Append(users, e)
  /\ size' = IF size = 0 THEN Size(e) ELSE size + 1 + Size(e)
  /\ UNCHANGED <<lines, listed>>

Flush ==
  /\ i <= Len(_members) /\ breaks(_members[i])
  /\ AddToNewLine(_members[i])
  /\ i' = i + 1 /\ UNCHANGED <<_members, prefixSize>>

Add ==
  /\ i <= Len(_members) /\ ~breaks(_members[i])
  /\ AddToLine(_members[i])
  /\ i' = i + 1 /\ UNCHANGED <<_members, prefixSize>>

(* After the loop, what is left is sent.                                   *)
Finish ==
  /\ i = Len(_members) + 1 /\ size > 0
  /\ sendToOne
  /\ users' = <<>> /\ size' = 0
  /\ UNCHANGED <<_members, prefixSize, i>>

ListNext == Flush \/ Add \/ Finish

ListSpec == ListInit /\ [][ListNext]_listVars

-----------------------------------------------------------------------------
(* Every member is listed once, in the order of _members, whichever line   *)
(* its entry went to, and no line is cut by sendReply, which would lose    *)
(* names, or sent without one.                                             *)
EveryoneListed ==
  /\ listed \o users = SubSeq(_members, 1, i - 1)
  /\ \A n \in 1..Len(lines) : lines[n] \in (prefixSize + 1)..MaxLine

(* The inductive form of EveryoneListed: the string `users' always fits.   *)
ListInv ==
  /\ _members \in Members /\ prefixSize \in PrefixSizes
  /\ i \in 1..(Len(_members) + 1)
  /\ users \in Seq(Entry) /\ listed \in Seq(Entry) /\ lines \in Seq(Nat)
  /\ size \in 0..limit
  /\ EveryoneListed

=============================================================================
