-------------------------- MODULE ChannelRefinement --------------------------
(* ChannelServer implements Membership: every member list, operator list,  *)
(* invitation list, +i flag, limit and key of the source is the abstract   *)
(* one, and the clients that are present are those that have registered.   *)
EXTENDS ChannelServer

Abstract == INSTANCE Membership WITH
  Chan <- ChannelKey, Limit <- {atoi[p] : p \in Numeral}, Key <- ValidKey, Open <- Empty,
  present <- registered, in <- members, oper <- operators, invited <- invitedUsers,
  locked <- inviteOnly, limit <- userLimit, code <- key

(* Every step of the server is a step of Membership or changes nothing a   *)
(* user may rely on: nobody enters an invite-only channel but on an        *)
(* invitation that is used up by it, nor a channel whose limit is reached, *)
(* nobody but an operator changes who operates a channel or what it asks   *)
(* of a newcomer, no key replaces another, and a client that has gone, or  *)
(* a channel that was emptied, leaves nothing behind for the next one in   *)
(* its place (Channel.cpp:187-223, 334-360, 487-580).                      *)
Implements == Abstract!Spec

=============================================================================
