------------------------------ MODULE PollLoop ------------------------------
(***************************************************************************)
(* The event loop of the server: Server::run, refreshPollEvents,           *)
(* cleanupDisconnected and checkIdleClients, with acceptNewClient,         *)
(* receiveData and sendData, and the deferred disconnection they share     *)
(* (network/*.cpp).                                                        *)
(*                                                                         *)
(* Descriptors are what the kernel hands out, so one is reused as soon as  *)
(* it is closed, while the tables of the server (_clients, _poll_fds,      *)
(* _to_disconnected, _closing) are all indexed by it.                      *)
(*                                                                         *)
(* Time passes while poll() waits: at most MaxStep seconds from one call   *)
(* to the next, the time the handlers take included.  The kernel and the   *)
(* peers decide what poll, accept, recv and send return.  Buffers are      *)
(* counted in lines, and the lines of a client do one of the things the    *)
(* loop can tell apart: answer some clients, complete a registration,      *)
(* close the link, or throw.  An allocation may also fail in the functions *)
(* of the loop themselves: in what is done for one client, where run marks *)
(* that client, and, in the phases of Throwing, where run gives the        *)
(* iteration up.                                                           *)
(***************************************************************************)
EXTENDS Integers, FiniteSets

CONSTANTS
  Fd,                    \* the descriptors accept() may return
  TIMEOUT_SECONDS,       \* silence after which a registered client goes
  TIMEOUT_REGISTRATION,  \* time a connection has to register
  TIMEOUT_CLOSING,       \* the 5 of checkIdleClients
  MAX_SENDQ,             \* lines a write buffer may hold
  MaxStep,               \* longest time between two iterations, in seconds
  MaxLines,              \* bound: complete lines one recv() makes available
  Throwing               \* phases an exception may leave for run's own catch

ASSUME TimeAssumption ==
  /\ TIMEOUT_SECONDS \in Nat /\ TIMEOUT_REGISTRATION \in Nat
  /\ TIMEOUT_CLOSING \in Nat /\ MAX_SENDQ \in Nat
  /\ MaxStep \in Nat \ {0} /\ MaxLines \in Nat

(* No stall of the process is as long as half the idle timeout.            *)
ASSUME StepAssumption == 2 * MaxStep <= TIMEOUT_SECONDS

(* What a connection is closed for.  The first three are announced to the  *)
(* client by disconnectAfterFlush, the others are found out by the loop.   *)
(* Blank is a mark whose text could not be allocated after its key (the    *)
(* texts of _closing are short enough for a string to hold them itself).   *)
Blank == "blank"
Announced == {"Client Quit", "Bad Password", "Ping timeout"}
Reason == Announced \cup
  {Blank, "Receive error", "Client disconnected", "Input buffer overflow", "Send error",
   "Connection error", "Internal error", "Registration timeout", "SendQ exceeded"}
None == "none"

VARIABLES
  phase,        \* where Server::run is
  listening,    \* _poll_fds[0].events = POLLIN
  clients,      \* the keys of _clients
  pollFds,      \* the descriptors of _poll_fds, the listener's left out
  pollout,      \* those polled for POLLOUT as well
  todo,         \* those the loop over _poll_fds has still to visit
  cur,          \* the descriptor a handler is working on
  wantsOut,     \* its revents have POLLOUT
  lines,        \* complete lines left in its read buffer
  marked,       \* _to_disconnected: the reason, or None
  closing,      \* _closing: the reason, or None
  registered,   \* the clients with _is_registered
  outbuf,       \* lines in _write_buffer
  pingSent,     \* the clients with _pingSent
  connectAge, idleAge, closingAge,  \* getConnectTime, getIdleTime, getClosingTime
  told          \* history: the reason of the ERROR line a client was sent

connection == <<registered, outbuf, pingSent, told>>
ages       == <<connectAge, idleAge, closingAge>>
tables     == <<clients, pollFds, marked, closing>>
visit      == <<cur, wantsOut, lines>>
vars       == <<phase, listening, pollout, todo, visit, tables, connection, ages>>

-----------------------------------------------------------------------------
(* Helpers of the handlers.                                                *)

isMarked(fd)  == marked[fd] # None
isClosing(fd) == closing[fd] # None

(* Mutant: the last reason replaces the first.                             *)
markAgain(fd, reason) == marked' = [marked EXCEPT ![fd] = reason]

(* The first reason given is kept.                                         *)
markForDisconnection(fd, reason) ==
  marked' = IF isMarked(fd) THEN marked ELSE [marked EXCEPT ![fd] = reason]

Least(a, b) == IF a < b THEN a ELSE b

(* A buffer over MAX_SENDQ is as bad as any other.                         *)
sendReply(S) ==
  [fd \in Fd |-> IF fd \in S THEN Least(outbuf[fd] + 1, MAX_SENDQ + 1)
                             ELSE outbuf[fd]]

(* disconnectAfterFlush for every client of S: the ERROR line, the entry   *)
(* of _closing, and markClosing.                                           *)
disconnectAfterFlush(S, reason) ==
  /\ closing' = [fd \in Fd |-> IF fd \in S THEN reason ELSE closing[fd]]
  /\ closingAge' = [fd \in Fd |-> IF fd \in S THEN 0 ELSE closingAge[fd]]
  /\ told' = [fd \in Fd |-> IF fd \in S THEN reason ELSE told[fd]]

updateLastActivity(fd) ==
  /\ idleAge' = [idleAge EXCEPT ![fd] = 0]
  /\ pingSent' = pingSent \ {fd}

-----------------------------------------------------------------------------
(* One iteration of Server::run, phase by phase.                           *)

(* Mutant: a buffer without a limit.                                       *)
neverExceeded(fd) == FALSE

sendQExceeded(fd) == outbuf[fd] > MAX_SENDQ

refreshPollEvents ==
  /\ phase = "refresh"
  /\ marked' = [fd \in Fd |->
       IF fd \in pollFds \cap clients /\ sendQExceeded(fd) /\ ~isMarked(fd)
       THEN "SendQ exceeded" ELSE marked[fd]]
  /\ pollout' = {fd \in pollFds \cap clients : outbuf[fd] > 0 /\ ~sendQExceeded(fd)}
  /\ phase' = "poll"
  /\ UNCHANGED <<listening, todo, visit, clients, pollFds, closing, connection, ages>>

(* The clocks of every client after dt seconds.  They are only compared    *)
(* with their limits, so they stop above what a comparison can reach.      *)
Later(age, limit, dt) ==
  [fd \in Fd |-> IF fd \in clients THEN Least(age[fd] + dt, limit + 2 * MaxStep + 1)
                                   ELSE age[fd]]
Elapse(dt) ==
  /\ connectAge' = Later(connectAge, TIMEOUT_REGISTRATION, dt)
  /\ idleAge' = Later(idleAge, TIMEOUT_SECONDS, dt)
  /\ closingAge' = [fd \in Fd |-> IF told[fd] = None THEN 0
                                  ELSE Later(closingAge, TIMEOUT_CLOSING, dt)[fd]]

(* poll() returns with the descriptors of R ready, and the listener if a.  *)
pollReady(R, a, dt) ==
  /\ phase = "poll" /\ R \subseteq pollFds /\ (a => listening) /\ (a \/ R # {})
  /\ Elapse(dt)
  /\ todo' = R
  /\ phase' = IF a THEN "accept" ELSE "events"
  /\ UNCHANGED <<listening, pollout, visit, tables, connection>>

(* Mutant: a second without an event does not bring the listener back.     *)
pollTimeoutStaysDeaf(dt) ==
  /\ phase = "poll" /\ dt > 0
  /\ Elapse(dt)
  /\ phase' = "cleanup"
  /\ UNCHANGED <<listening, pollout, todo, visit, tables, connection>>

(* poll() returns 0 after its second: the listener is polled again.        *)
pollTimeout(dt) ==
  /\ phase = "poll" /\ dt > 0
  /\ Elapse(dt)
  /\ listening' = TRUE
  /\ phase' = "cleanup"
  /\ UNCHANGED <<pollout, todo, visit, tables, connection>>

(* accept() gives a descriptor that is not open.                           *)
acceptNewClient(fd) ==
  /\ phase = "accept" /\ fd \notin clients
  /\ clients' = clients \cup {fd}
  /\ pollFds' = pollFds \cup {fd}
  /\ phase' = "events"
  /\ UNCHANGED <<listening, pollout, todo, visit, marked, closing, connection, ages>>

(* accept() fails: the listener is not polled until a descriptor is free.  *)
acceptFails ==
  /\ phase = "accept"
  /\ listening' = FALSE
  /\ phase' = "events"
  /\ UNCHANGED <<pollout, todo, visit, tables, connection, ages>>

(* The connection is dropped again: fcntl or an allocation has failed.     *)
acceptDropped ==
  /\ phase = "accept"
  /\ phase' = "events"
  /\ UNCHANGED <<listening, pollout, todo, visit, tables, connection, ages>>

-----------------------------------------------------------------------------
(* The loop over _poll_fds: one descriptor of todo after the other.        *)

(* POLLERR or POLLNVAL                                                     *)
connectionError(fd) ==
  /\ phase = "events" /\ fd \in todo
  /\ markForDisconnection(fd, "Connection error")
  /\ todo' = todo \ {fd}
  /\ UNCHANGED <<phase, listening, pollout, visit, clients, pollFds, closing,
                 connection, ages>>

(* A handler starts on fd: revents has POLLOUT if out, and n complete      *)
(* lines are in the read buffer.                                           *)
Handle(fd, out, n) ==
  /\ phase = "events" /\ fd \in todo
  /\ phase' = "lines" /\ cur' = fd /\ wantsOut' = out /\ lines' = n
  /\ UNCHANGED <<listening, pollout, todo, clients, pollFds, closing, registered,
                 outbuf, told, connectAge, closingAge>>

(* receiveData: recv() fails, or the peer has closed.  An allocation that  *)
(* fails in append or in the mark leaves a mark of run or a blank one, and *)
(* nothing more is done for a client once it is marked.                    *)
receiveFails(fd, out, reason) ==
  /\ Handle(fd, out, 0)
  /\ markForDisconnection(fd, reason)
  /\ UNCHANGED <<pingSent, idleAge>>

(* receiveData: the bytes of a closing client are thrown away.             *)
receiveIgnored(fd, out) ==
  /\ isClosing(fd)
  /\ Handle(fd, out, 0)
  /\ UNCHANGED <<marked, pingSent, idleAge>>

(* receiveData: n complete lines, or a partial line that is too long.      *)
receiveData(fd, out, n) ==
  /\ ~isClosing(fd)
  /\ Handle(fd, out, n)
  /\ updateLastActivity(fd)
  /\ UNCHANGED marked
receiveOverflow(fd, out, reason) ==
  /\ ~isClosing(fd)
  /\ Handle(fd, out, 0)
  /\ updateLastActivity(fd)
  /\ markForDisconnection(fd, reason)

(* Only POLLOUT                                                            *)
writable(fd) ==
  /\ fd \in pollout
  /\ Handle(fd, TRUE, 0)
  /\ UNCHANGED <<marked, pingSent, idleAge>>

(* The condition of receiveData's while loop.                              *)
moreLines == phase = "lines" /\ lines > 0 /\ ~isMarked(cur) /\ ~isClosing(cur)

(* A line that answers the clients of S, or nobody.                        *)
lineAnswers(S) ==
  /\ moreLines
  /\ lines' = lines - 1
  /\ outbuf' = sendReply(S)
  /\ UNCHANGED <<phase, listening, pollout, todo, cur, wantsOut, tables,
                 registered, pingSent, told, ages>>

lineRegisters ==
  /\ moreLines /\ cur \notin registered
  /\ lines' = lines - 1
  /\ registered' = registered \cup {cur}
  /\ outbuf' = sendReply({cur})
  /\ UNCHANGED <<phase, listening, pollout, todo, cur, wantsOut, tables,
                 pingSent, told, ages>>

(* QUIT, or a NICK or USER that finds the password missing.                *)
lineCloses(reason) ==
  /\ moreLines
  /\ reason = "Bad Password" => cur \notin registered
  /\ lines' = lines - 1
  /\ disconnectAfterFlush({cur}, reason)
  /\ outbuf' = sendReply({cur})
  /\ UNCHANGED <<phase, listening, pollout, todo, cur, wantsOut, clients, pollFds,
                 marked, registered, pingSent, connectAge, idleAge>>

(* The locals of a visit that is over.                                     *)
Finished == cur' = None /\ wantsOut' = FALSE /\ lines' = 0

(* A handler throws: the rest of the visit, POLLOUT included, is left out. *)
lineThrows ==
  /\ moreLines
  /\ markForDisconnection(cur, "Internal error")
  /\ todo' = todo \ {cur}
  /\ phase' = "events" /\ Finished
  /\ UNCHANGED <<listening, pollout, clients, pollFds, closing, connection, ages>>

(* The end of a visit; the lines of a marked or closing client are lost.   *)
EndVisit ==
  /\ phase = "lines" /\ ~moreLines
  /\ todo' = todo \ {cur}
  /\ phase' = "events" /\ Finished
  /\ UNCHANGED <<listening, pollout, clients, pollFds, registered, pingSent, told,
                 ages>>

maySend == wantsOut /\ ~isMarked(cur)

noSend == EndVisit /\ ~maySend /\ UNCHANGED <<marked, closing, outbuf>>

sendFails ==
  /\ EndVisit /\ maySend
  /\ markForDisconnection(cur, "Send error")
  /\ UNCHANGED <<closing, outbuf>>

(* Mutant: the closing entry is dropped when the buffer is empty, but the  *)
(* client is not marked.                                                   *)
sendForgets(n) ==
  /\ EndVisit /\ maySend /\ n \in 1..outbuf[cur]
  /\ outbuf' = [outbuf EXCEPT ![cur] = @ - n]
  /\ closing' = IF n = outbuf[cur] THEN [closing EXCEPT ![cur] = None] ELSE closing
  /\ UNCHANGED marked

(* sendData writes n lines; a closing client whose buffer is empty is      *)
(* moved from _closing to _to_disconnected.                                *)
sendData(n) ==
  /\ EndVisit /\ maySend /\ n \in 1..outbuf[cur]
  /\ outbuf' = [outbuf EXCEPT ![cur] = @ - n]
  /\ IF n = outbuf[cur] /\ isClosing(cur)
     THEN /\ markForDisconnection(cur, closing[cur])
          /\ closing' = [closing EXCEPT ![cur] = None]
     ELSE UNCHANGED <<marked, closing>>

(* The last line of a closing client is written, but not the mark: run     *)
(* marks it, and it stays in _closing.                                     *)
sendThrows ==
  /\ EndVisit /\ maySend /\ isClosing(cur) /\ outbuf[cur] > 0
  /\ outbuf' = [outbuf EXCEPT ![cur] = 0]
  /\ markForDisconnection(cur, "Internal error")
  /\ UNCHANGED closing

(* An exception reaches run's own catch: the iteration is given up, and    *)
(* the events not visited yet are left to the next poll(), before which    *)
(* refreshPollEvents writes every entry of _poll_fds again.                *)
GiveUp(where) ==
  /\ where \in Throwing
  /\ phase' = "refresh" /\ todo' = {} /\ Finished
  /\ UNCHANGED <<listening, pollout, clients, pollFds, registered, connectAge, idleAge>>

(* refreshPollEvents throws when it has marked the clients of D.           *)
refreshThrows(D) ==
  LET slow == {fd \in pollFds \cap clients : sendQExceeded(fd) /\ ~isMarked(fd)}
  IN  /\ phase = "refresh" /\ D \subseteq slow /\ D # slow
      /\ GiveUp("refresh")
      /\ marked' = [fd \in Fd |-> IF fd \in D THEN "SendQ exceeded" ELSE marked[fd]]
      /\ UNCHANGED <<closing, closingAge, outbuf, pingSent, told>>

(* The mark of a connection error fails, or that of an exception of        *)
(* receiveData.                                                            *)
errorThrows(fd) ==
  /\ phase = "events" /\ fd \in todo /\ ~isMarked(fd)
  /\ GiveUp("events")
  /\ marked' \in {marked, [marked EXCEPT ![fd] = Blank]}
  /\ UNCHANGED <<closing, closingAge, outbuf, pingSent, told>>

(* So does the mark of an exception of a line's handler, or of sendData.   *)
catchThrows ==
  /\ phase = "lines"
  /\ GiveUp("events")
  /\ \/ moreLines /\ UNCHANGED outbuf
     \/ /\ ~moreLines /\ maySend /\ isClosing(cur) /\ outbuf[cur] > 0
        /\ outbuf' = [outbuf EXCEPT ![cur] = 0]
  /\ UNCHANGED <<marked, closing, closingAge, pingSent, told>>

eventsDone ==
  /\ phase = "events" /\ todo = {}
  /\ phase' = "cleanup"
  /\ UNCHANGED <<listening, pollout, todo, visit, tables, connection, ages>>

-----------------------------------------------------------------------------
(* cleanupDisconnected and checkIdleClients                                *)

(* The reason disconnect gives in the QUIT it broadcasts.                  *)
Cause(fd) == IF isClosing(fd) THEN closing[fd] ELSE marked[fd]

(* Mutant: the entry of _closing survives the connection.                  *)
keepClosing(fd) == closing

eraseClosing(fd) == [closing EXCEPT ![fd] = None]

(* disconnect: the clients of S see the QUIT of a registered client; the   *)
(* object is deleted and the descriptor closed.                            *)
disconnect(fd, S) ==
  /\ phase = "cleanup" /\ isMarked(fd)
  /\ S \subseteq (IF fd \in registered THEN clients \ {fd} ELSE {})
  /\ closing' = eraseClosing(fd)
  /\ marked' = [marked EXCEPT ![fd] = None]
  /\ clients' = clients \ {fd} /\ pollFds' = pollFds \ {fd}
  /\ listening' = TRUE
  /\ registered' = registered \ {fd} /\ pingSent' = pingSent \ {fd}
  /\ outbuf' = [sendReply(S) EXCEPT ![fd] = 0]
  /\ told' = [told EXCEPT ![fd] = None]
  /\ connectAge' = [connectAge EXCEPT ![fd] = 0]
  /\ idleAge' = [idleAge EXCEPT ![fd] = 0]
  /\ closingAge' = [closingAge EXCEPT ![fd] = 0]
  /\ UNCHANGED <<phase, pollout, todo, visit>>

(* disconnect(fd) throws when the clients of S have seen the QUIT: what    *)
(* was still in `targets' is lost, and so may be the entry of _closing.    *)
cleanupThrows(fd, S) ==
  /\ phase = "cleanup" /\ isMarked(fd)
  /\ S \subseteq (IF fd \in registered THEN clients \ {fd} ELSE {})
  /\ GiveUp("cleanup")
  /\ marked' = [d \in Fd |-> None]
  /\ closing' = eraseClosing(fd) \/ (S = {} /\ closing' = closing)
  /\ outbuf' = sendReply(S)
  /\ UNCHANGED <<closingAge, pingSent, told>>

cleanupDone ==
  /\ phase = "cleanup" /\ \A fd \in Fd : ~isMarked(fd)
  /\ phase' = "idle"
  /\ UNCHANGED <<listening, pollout, todo, visit, tables, connection, ages>>

Open       == {fd \in clients : ~isClosing(fd)}
expired    == {fd \in clients \ Open : closingAge[fd] > TIMEOUT_CLOSING}

(* Mutant: a connection that keeps talking without registering may stay.   *)
unfinishedByIdle ==
  {fd \in Open \ registered : idleAge[fd] > TIMEOUT_REGISTRATION}

unfinished == {fd \in Open \ registered : connectAge[fd] > TIMEOUT_REGISTRATION}

(* Mutant: no timeout for a client whose PONG is awaited.                  *)
silentUnlessPinged ==
  {fd \in (Open \cap registered) \ pingSent : idleAge[fd] > TIMEOUT_SECONDS}

silent == {fd \in Open \cap registered : idleAge[fd] > TIMEOUT_SECONDS}

(* Mutant: the PING comes only when the time is up.                        *)
pingLate == {fd \in (Open \cap registered) \ (silent \cup pingSent) :
               idleAge[fd] > TIMEOUT_SECONDS}

quiet == {fd \in (Open \cap registered) \ (silent \cup pingSent) :
            idleAge[fd] > TIMEOUT_SECONDS \div 2}

checkIdleClients ==
  /\ phase = "idle"
  /\ marked' = [fd \in Fd |->
       CASE ~isMarked(fd) /\ fd \in expired -> closing[fd]
         [] ~isMarked(fd) /\ fd \in unfinished -> "Registration timeout"
         [] OTHER -> marked[fd]]
  /\ disconnectAfterFlush(silent, "Ping timeout")
  /\ outbuf' = sendReply(silent \cup quiet)
  /\ pingSent' = pingSent \cup quiet
  /\ phase' = "refresh"
  /\ UNCHANGED <<listening, pollout, todo, visit, clients, pollFds, registered,
                 connectAge, idleAge>>

(* checkIdleClients throws at fd, with the clients of D behind it.  An     *)
(* ERROR line may have been sent to fd without an entry of _closing.       *)
idleThrows(fd, D) ==
  LET ended == D \cap silent
  IN  /\ phase = "idle"
      /\ fd \in expired \cup unfinished \cup silent \cup quiet
      /\ D \subseteq clients \ {fd}
      /\ GiveUp("idle")
      /\ \E why \in {None} \cup (IF fd \in unfinished THEN {Blank} ELSE {}) :
           marked' = [d \in Fd |->
             CASE d \in D \cap expired -> closing[d]
               [] d \in D \cap unfinished -> "Registration timeout"
               [] d = fd -> why
               [] OTHER -> marked[d]]
      /\ closing' = [d \in Fd |-> IF d \in ended THEN "Ping timeout" ELSE closing[d]]
      /\ closingAge' = [d \in Fd |-> IF d \in ended THEN 0 ELSE closingAge[d]]
      /\ \E L \in SUBSET ({fd} \cap silent) :
           /\ told' = [d \in Fd |-> IF d \in ended \cup L THEN "Ping timeout" ELSE told[d]]
           /\ outbuf' = sendReply(ended \cup L \cup (D \cap quiet))
      /\ pingSent' = pingSent \cup (D \cap quiet)

(* A signal has set g_stop (the loop tests it here, poll() returns EINTR   *)
(* on it), or poll() has failed: the destructor closes every connection.   *)
Stop ==
  /\ phase \in {"refresh", "poll"}
  /\ phase' = "stopped"
  /\ clients' = {} /\ pollFds' = {} /\ registered' = {} /\ pingSent' = {}
  /\ marked' = [fd \in Fd |-> None] /\ closing' = [fd \in Fd |-> None]
  /\ told' = [fd \in Fd |-> None]
  /\ outbuf' = [fd \in Fd |-> 0]
  /\ connectAge' = [fd \in Fd |-> 0] /\ idleAge' = [fd \in Fd |-> 0]
  /\ closingAge' = [fd \in Fd |-> 0]
  /\ UNCHANGED <<listening, pollout, todo, visit>>

-----------------------------------------------------------------------------
Init ==
  /\ phase = "refresh" /\ listening = TRUE
  /\ clients = {} /\ pollFds = {} /\ pollout = {} /\ todo = {}
  /\ cur = None /\ wantsOut = FALSE /\ lines = 0
  /\ marked = [fd \in Fd |-> None] /\ closing = [fd \in Fd |-> None]
  /\ registered = {} /\ pingSent = {}
  /\ outbuf = [fd \in Fd |-> 0] /\ told = [fd \in Fd |-> None]
  /\ connectAge = [fd \in Fd |-> 0] /\ idleAge = [fd \in Fd |-> 0]
  /\ closingAge = [fd \in Fd |-> 0]

Poll(dt) ==
  \/ \E R \in SUBSET pollFds, a \in BOOLEAN : pollReady(R, a, dt)
  \/ pollTimeout(dt)

Receive(fd, out) ==
  /\ out => fd \in pollout
  /\ \/ \E reason \in {"Receive error", "Client disconnected", "Internal error", Blank} :
          receiveFails(fd, out, reason)
     \/ receiveIgnored(fd, out)
     \/ \E n \in 0..MaxLines : receiveData(fd, out, n)
     \/ \E reason \in {"Input buffer overflow", "Internal error", Blank} :
          receiveOverflow(fd, out, reason)

Line ==
  \/ \E S \in SUBSET clients : lineAnswers(S)
  \/ lineRegisters
  \/ \E reason \in {"Client Quit", "Bad Password"} : lineCloses(reason)
  \/ lineThrows

Send == noSend \/ sendFails \/ sendThrows \/ \E n \in 1..MAX_SENDQ + 1 : sendData(n)

Visit(fd) ==
  \/ connectionError(fd) \/ writable(fd)
  \/ \E out \in BOOLEAN : Receive(fd, out)

(* What run catches itself.                                                *)
Throw ==
  \/ \E D \in SUBSET clients : refreshThrows(D)
  \/ \E fd \in todo : errorThrows(fd)
  \/ catchThrows
  \/ \E fd \in Fd, S \in SUBSET clients : cleanupThrows(fd, S)
  \/ \E fd \in clients, D \in SUBSET clients : idleThrows(fd, D)

Loop ==
  \/ refreshPollEvents
  \/ \E dt \in 0..MaxStep : Poll(dt)
  \/ \E fd \in Fd : acceptNewClient(fd)
  \/ acceptFails \/ acceptDropped
  \/ \E fd \in todo : Visit(fd)
  \/ Line \/ Send \/ eventsDone
  \/ \E fd \in Fd, S \in SUBSET clients : disconnect(fd, S)
  \/ Throw
  \/ cleanupDone \/ checkIdleClients

Next == Loop \/ Stop

(* The loop goes on, and the clock does not stand still while it does.     *)
Fairness ==
  /\ WF_vars(Loop)
  /\ SF_vars(\E dt \in 1..MaxStep : Poll(dt))

Spec == Init /\ [][Next]_vars /\ Fairness

-----------------------------------------------------------------------------
(* The type of the state.                                                  *)
TypeOK ==
  /\ phase \in {"refresh", "poll", "accept", "events", "lines", "cleanup", "idle",
                "stopped"}
  /\ listening \in BOOLEAN /\ wantsOut \in BOOLEAN
  /\ clients \subseteq Fd /\ pollFds \subseteq Fd /\ pollout \subseteq Fd
  /\ todo \subseteq Fd /\ cur \in Fd \cup {None} /\ lines \in 0..MaxLines
  /\ marked \in [Fd -> Reason \cup {None}]
  /\ closing \in [Fd -> Announced \cup {None}]
  /\ told \in [Fd -> Announced \cup {None}]
  /\ registered \subseteq Fd /\ pingSent \subseteq Fd
  /\ outbuf \in [Fd -> 0..MAX_SENDQ + 1]
  /\ connectAge \in [Fd -> Nat] /\ idleAge \in [Fd -> Nat]
  /\ closingAge \in [Fd -> Nat]

(* The four tables indexed by descriptors agree: every client is polled,   *)
(* and nothing is marked, closing or still to be visited but a client, so  *)
(* that a descriptor that is used again starts without the past of its     *)
(* predecessor (ServerDisconnect.cpp:12, the iteration order of run).      *)
TablesAgree ==
  /\ pollFds = clients
  /\ registered \cup pingSent \cup todo \subseteq clients
  /\ \A fd \in Fd : isMarked(fd) \/ isClosing(fd) => fd \in clients
  /\ phase = "lines" => cur \in todo

(* A client that was told `Closing Link (reason)' is never forgotten and   *)
(* never served as if nothing had happened: it stays closing or marked,    *)
(* and the QUIT its channels will see has the reason it was told, whatever *)
(* happens to its socket in between (ServerDisconnect.cpp:15-20).          *)
ToldIsClosed ==
  \A fd \in clients : told[fd] # None => Cause(fd) = told[fd]

(* Nobody is closed for a ping timeout who was not sent a PING first and   *)
(* has not been heard of since (Server.cpp:133-138).                       *)
PingBeforeTimeout == \A fd \in clients : told[fd] = "Ping timeout" => fd \in pingSent

(* Deadlines hold up to the two iterations the deferred disconnection      *)
(* takes: checkIdleClients marks in one, cleanupDisconnected closes in the *)
(* next.                                                                   *)
DeadlinesHold ==
  \A fd \in clients :
    /\ told[fd] # None => closingAge[fd] <= TIMEOUT_CLOSING + 2 * MaxStep
    /\ fd \notin registered => connectAge[fd] <= TIMEOUT_REGISTRATION + 2 * MaxStep
         \/ told[fd] # None

(* A client that stays for ever goes on sending: a silent one, or one that *)
(* never registers, is closed in the end.                                  *)
SilentIsClosed ==
  \A fd \in Fd : <>[](fd \in clients) => []<>(idleAge[fd] = 0 /\ fd \in registered)

(* A client that stays for ever goes on reading: the write buffer of one   *)
(* that does not is found over MAX_SENDQ and the connection closed.        *)
SlowReaderIsClosed ==
  \A fd \in Fd : <>[](fd \in clients) => []<>(outbuf[fd] <= MAX_SENDQ)

(* After a failed accept the listener comes back, unless there is an event *)
(* in every second for ever: then only a disconnection brings it back.     *)
DeafOnlyWhenBusy ==
  <>[](~listening /\ phase # "stopped") => []<>(phase = "events")

-----------------------------------------------------------------------------
(* The inductive form of the invariants above, part by part.               *)

(* Nothing is left to visit but in the loop over _poll_fds, and a          *)
(* descriptor without a client holds what a new one starts with.           *)
Fresh ==
  /\ todo # {} => phase \in {"accept", "events", "lines"}
  /\ \A fd \in Fd \ clients :
       /\ told[fd] = None /\ outbuf[fd] = 0
       /\ connectAge[fd] = 0 /\ idleAge[fd] = 0 /\ closingAge[fd] = 0

(* A client that was told is in _closing, until its buffer is empty: then  *)
(* it is marked, is not visited again, and goes in the same iteration.     *)
(* After the cleanup nothing is marked.                                    *)
Condemned ==
  /\ \A fd \in Fd : isClosing(fd) => closing[fd] = told[fd]
  /\ \A fd \in Fd : told[fd] # None /\ ~isClosing(fd) =>
       /\ marked[fd] = told[fd] /\ fd \notin todo
       /\ phase \in {"events", "lines", "cleanup"}
  /\ phase = "idle" => \A fd \in Fd : ~isMarked(fd)

(* The time since the last check that the clocks may hold: checkIdle-      *)
(* Clients comes at the end of an iteration and poll() near its beginning. *)
slack == IF phase \in {"refresh", "poll"} THEN 0 ELSE MaxStep

(* A client that is not being closed was sent a PING once it was silent    *)
(* for half the time, one iteration more or less.                          *)
Pinged ==
  /\ \A fd \in Fd : told[fd] = "Ping timeout" => fd \in pingSent
  /\ \A fd \in registered \ pingSent :
       told[fd] = None => idleAge[fd] <= (TIMEOUT_SECONDS \div 2) + slack
  /\ phase = "lines" /\ lines > 0 => idleAge[cur] = 0

(* A clock over its limit is found by the next check, and one that was     *)
(* found lives for one iteration more.                                     *)
InTime(fd, age, limit) ==
  /\ ~isMarked(fd) => age <= limit + slack
  /\ age <= limit + slack + MaxStep

Timed ==
  \A fd \in clients :
    IF told[fd] # None THEN InTime(fd, closingAge[fd], TIMEOUT_CLOSING)
    ELSE fd \notin registered => InTime(fd, connectAge[fd], TIMEOUT_REGISTRATION)

(* Whatever fails, and when no iteration is cut short by an exception.     *)
TableInv == TypeOK /\ TablesAgree /\ Fresh
LoopInv  == TableInv /\ Condemned /\ Pinged /\ Timed

=============================================================================
