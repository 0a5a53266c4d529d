--------------------------- MODULE ConnectionLife ---------------------------
(***************************************************************************)
(* What the event loop promises each connection: it is open until there is *)
(* a reason to close it, the first reason is the one that counts, a        *)
(* connection that was told to close is not served again, and it is closed *)
(* in the end.  PollLoop implements it: see PollRefinement.                *)
(***************************************************************************)
CONSTANTS Fd, Reason

VARIABLE life   \* one stage per descriptor

Free == [stage |-> "free"]
Open == [stage |-> "open"]
Closing(why) == [stage |-> "closing", why |-> why]   \* told, being flushed
Marked(why)  == [stage |-> "marked", why |-> why]    \* about to be closed

Init == life = [fd \in Fd |-> Free]

(* Where a connection may go from a stage.                                 *)
Onward(stage) ==
  CASE stage = Free -> {Open}
    [] stage = Open -> {Closing(why) : why \in Reason} \cup {Marked(why) : why \in Reason}
    [] stage.stage = "closing" -> {Marked(stage.why)}
    [] stage.stage = "marked" -> {Free}

(* Every descriptor takes a step or none; a stopping server frees them all *)
Next ==
  \/ \A fd \in Fd : life'[fd] \in {life[fd]} \cup Onward(life[fd])
  \/ \A fd \in Fd : life'[fd] = Free

Ends == \A fd \in Fd : life[fd].stage \in {"closing", "marked"} ~> life[fd] = Free

Spec == Init /\ [][Next]_life /\ Ends

=============================================================================
