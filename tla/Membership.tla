----------------------------- MODULE Membership -----------------------------
(***************************************************************************)
(* What the channels promise their users, without the lists, pointers,     *)
(* names and loops that ChannelServer is made of: who is in a channel, who *)
(* runs it, who may come in while it is invite-only or full, and what key  *)
(* it asks for.  ChannelServer implements it: see ChannelRefinement.       *)
(***************************************************************************)
EXTENDS Naturals, FiniteSets

CONSTANTS
  Client, Chan,
  Limit,     \* the numbers a channel may be limited to
  Key,       \* the keys it may be given
  Open       \* the `key' of a channel that has none

VARIABLES
  present,   \* the clients that have registered and not gone
  in,        \* the members of every channel
  oper,      \* those of them who run it
  invited,   \* the clients that may enter it while it is locked
  locked,    \* is it invite-only?
  limit,     \* the number of members it stops at; 0: it does not
  code       \* its key

doors == <<locked, limit, code>>
vars  == <<present, in, oper, invited, doors>>

Init ==
  /\ present = {}
  /\ in = [k \in Chan |-> {}]
  /\ oper = [k \in Chan |-> {}]
  /\ invited = [k \in Chan |-> {}]
  /\ locked = [k \in Chan |-> FALSE]
  /\ limit = [k \in Chan |-> 0]
  /\ code = [k \in Chan |-> Open]

Full(k) == limit[k] > 0 /\ Cardinality(in[k]) >= limit[k]

Arrive(c) ==
  /\ c \notin present
  /\ present' = present \cup {c}
  /\ UNCHANGED <<in, oper, invited, doors>>

(* A locked channel is entered on an invitation, which is used up, a full  *)
(* one not at all; whoever enters an empty channel runs it.                *)
Enter(c, k) ==
  /\ c \in present \ in[k]
  /\ locked[k] => c \in invited[k]
  /\ ~Full(k)
  /\ in' = [in EXCEPT ![k] = @ \cup {c}]
  /\ oper' = [oper EXCEPT ![k] = IF in[k] = {} THEN {c} ELSE @]
  /\ invited' = [invited EXCEPT ![k] = @ \ {c}]
  /\ UNCHANGED <<present, doors>>

(* The channels of K lose c; one that is empty then forgets its            *)
(* invitations and stands open to anybody.  I: what is left of invited.    *)
Lose(c, K, I) ==
  /\ in' = [k \in Chan |-> IF k \in K THEN in[k] \ {c} ELSE in[k]]
  /\ oper' = [k \in Chan |-> IF k \in K THEN oper[k] \ {c} ELSE oper[k]]
  /\ invited' = [k \in Chan |-> IF in'[k] = {} THEN {} ELSE I[k]]
  /\ locked' = [k \in Chan |-> in'[k] # {} /\ locked[k]]
  /\ limit' = [k \in Chan |-> IF in'[k] = {} THEN 0 ELSE limit[k]]
  /\ code' = [k \in Chan |-> IF in'[k] = {} THEN Open ELSE code[k]]

(* By a PART of its own or a KICK of an operator.                          *)
Leave(c, k) ==
  /\ c \in in[k]
  /\ Lose(c, {k}, invited)
  /\ UNCHANGED present

(* A client that goes is nowhere a member and nowhere invited.             *)
Depart(c) ==
  /\ c \in present
  /\ present' = present \ {c}
  /\ Lose(c, Chan, [k \in Chan |-> invited[k] \ {c}])

Invite(c, d, k) ==
  /\ c \in in[k] /\ (locked[k] => c \in oper[k])
  /\ d \in present \ in[k]
  /\ invited' = [invited EXCEPT ![k] = @ \cup {d}]
  /\ UNCHANGED <<present, in, oper, doors>>

(* An operator gives or takes the status of one member, itself included.   *)
SetOper(c, d, k) ==
  /\ c \in oper[k] /\ d \in in[k]
  /\ oper' = [oper EXCEPT ![k] = IF d \in @ THEN @ \ {d} ELSE @ \cup {d}]
  /\ UNCHANGED <<present, in, invited, doors>>

SetLock(c, k) ==
  /\ c \in oper[k]
  /\ locked' = [locked EXCEPT ![k] = ~@]
  /\ UNCHANGED <<present, in, oper, invited, limit, code>>

(* Those who are in stay in, be they more than the new limit.              *)
SetLimit(c, k) ==
  /\ c \in oper[k]
  /\ \E n \in Limit \cup {0} : limit' = [limit EXCEPT ![k] = n]
  /\ UNCHANGED <<present, in, oper, invited, locked, code>>

(* A key is put on an open channel or taken off; none replaces another.    *)
SetKey(c, k) ==
  /\ c \in oper[k]
  /\ \E w \in IF code[k] = Open THEN Key ELSE {Open} : code' = [code EXCEPT ![k] = w]
  /\ UNCHANGED <<present, in, oper, invited, locked, limit>>

Next ==
  \E c \in Client :
    \/ Arrive(c) \/ Depart(c)
    \/ \E k \in Chan :
         \/ Enter(c, k) \/ Leave(c, k)
         \/ SetLock(c, k) \/ SetLimit(c, k) \/ SetKey(c, k)
         \/ \E d \in Client : Invite(c, d, k) \/ SetOper(c, d, k)

Spec == Init /\ [][Next]_vars

=============================================================================
