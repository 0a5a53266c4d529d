--------------------------- MODULE PollRefinement ---------------------------
(* PollLoop implements ConnectionLife: the stage of a connection is what   *)
(* _clients, _closing and _to_disconnected say of its descriptor together. *)
EXTENDS PollLoop

lifeOf ==
  [fd \in Fd |->
     CASE fd \notin clients -> [stage |-> "free"]
       [] fd \in clients /\ isMarked(fd) -> [stage |-> "marked", why |-> Cause(fd)]
       [] fd \in clients /\ ~isMarked(fd) /\ isClosing(fd)
            -> [stage |-> "closing", why |-> closing[fd]]
       [] OTHER -> [stage |-> "open"]]

Life == INSTANCE ConnectionLife WITH life <- lifeOf

(* Whatever the order of events, a connection is closed for the first      *)
(* reason there was: a send error or a timeout while the ERROR line is     *)
(* being flushed does not replace it, nothing turns a closing connection   *)
(* back into one that is served, none is freed without having been marked, *)
(* the next connection of the same descriptor starts afresh, and every     *)
(* connection that is closing or marked is closed in the end               *)
(* (ServerDisconnect.cpp:10-36, ServerConnection.cpp:110-132).             *)
LifeKept == Life!Spec

(* The same without the last part, which is about fairness.                *)
LifeSteps == Life!Init /\ [][Life!Next]_lifeOf

=============================================================================
