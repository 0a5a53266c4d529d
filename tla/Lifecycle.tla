----------------------------- MODULE Lifecycle ------------------------------
(***************************************************************************)
(* The process from main() to its exit: the check of the arguments, the    *)
(* system calls of Server::init, each of which may fail, the skeleton of   *)
(* Server::run with a signal at any moment, and ~Server, which runs        *)
(* whichever way the try block of main() is left.                          *)
(*                                                                         *)
(* What one iteration of the loop does to its connections is the subject   *)
(* of PollLoop; here it opens and closes some.                             *)
(***************************************************************************)
EXTENDS Integers

CONSTANTS
  Fd,    \* descriptors of connections
  Port   \* the numbers strtol may find in argv[1]

ASSUME PortAssumption == Port \subseteq Int

VARIABLES
  pc,        \* the next thing the process does
  g_stop,
  _port,     \* Server::_port
  serverFd,  \* _server_fd is open
  bound,     \* the port bind() has given it, or None
  polled,    \* _poll_fds[0] is the listener
  clients,   \* the open descriptors of _clients
  exitCode   \* what main() returns, once that is decided

lifeVars == <<pc, g_stop, _port, serverFd, bound, polled, clients, exitCode>>

None == -1

LifeInit ==
  /\ pc = "signals" /\ g_stop = FALSE /\ _port = None /\ serverFd = FALSE
  /\ bound = None /\ polled = FALSE /\ clients = {} /\ exitCode = None

InitCall == {"socket", "setsockopt", "fcntl", "bind", "listen"}
Serving == {"test", "refresh", "poll", "handle"}

-----------------------------------------------------------------------------
(* signal(SIGPIPE, SIG_IGN), signal(SIGINT, onSignal), ...                 *)
installHandlers ==
  /\ pc = "signals" /\ pc' = "arguments"
  /\ UNCHANGED <<g_stop, _port, serverFd, bound, polled, clients, exitCode>>

validPort(port) == port > 0 /\ port <= 65535

(* argc, the password and the end of the number are right or not.          *)
checkArguments(argsOK, port) ==
  /\ pc = "arguments"
  /\ IF argsOK /\ validPort(port)
     THEN pc' = "socket" /\ _port' = port /\ UNCHANGED exitCode
     ELSE pc' = "exited" /\ exitCode' = 1 /\ UNCHANGED _port
  /\ UNCHANGED <<g_stop, serverFd, bound, polled, clients>>

(* A system call of init fails: the exception unwinds to main().           *)
initThrows ==
  /\ pc \in InitCall
  /\ pc' = "destroy" /\ exitCode' = 1
  /\ UNCHANGED <<g_stop, _port, serverFd, bound, polled, clients>>

openSocket ==
  /\ pc = "socket" /\ pc' = "setsockopt" /\ serverFd' = TRUE
  /\ UNCHANGED <<g_stop, _port, bound, polled, clients, exitCode>>

setOptions ==
  /\ pc \in {"setsockopt", "fcntl"}
  /\ pc' = IF pc = "setsockopt" THEN "fcntl" ELSE "bind"
  /\ UNCHANGED <<g_stop, _port, serverFd, bound, polled, clients, exitCode>>

(* htons(_port) keeps sixteen bits.                                        *)
bindPort ==
  /\ pc = "bind" /\ pc' = "listen" /\ bound' = _port % 65536
  /\ UNCHANGED <<g_stop, _port, serverFd, polled, clients, exitCode>>

startListening ==
  /\ pc = "listen" /\ pc' = "test" /\ polled' = TRUE
  /\ UNCHANGED <<g_stop, _port, serverFd, bound, clients, exitCode>>

-----------------------------------------------------------------------------
(* while (!g_stop)                                                         *)
testStop ==
  /\ pc = "test"
  /\ IF g_stop THEN pc' = "destroy" /\ exitCode' = 0
               ELSE pc' = "refresh" /\ UNCHANGED exitCode
  /\ UNCHANGED <<g_stop, _port, serverFd, bound, polled, clients>>

(* refreshPollEvents, up to the moment poll() waits                        *)
enterPoll ==
  /\ pc = "refresh" /\ pc' = "poll"
  /\ UNCHANGED <<g_stop, _port, serverFd, bound, polled, clients, exitCode>>

(* Mutant: poll() is called without a timeout.                             *)
pollForEver == FALSE /\ UNCHANGED lifeVars

(* The second of poll() is over.                                           *)
pollTimeout ==
  /\ pc = "poll" /\ pc' = "handle"
  /\ UNCHANGED <<g_stop, _port, serverFd, bound, polled, clients, exitCode>>

pollReady ==
  /\ pc = "poll" /\ pc' = "handle"
  /\ UNCHANGED <<g_stop, _port, serverFd, bound, polled, clients, exitCode>>

(* poll() fails for another reason than a signal: the loop is left.        *)
pollFails ==
  /\ pc = "poll" /\ pc' = "destroy" /\ exitCode' = 0
  /\ UNCHANGED <<g_stop, _port, serverFd, bound, polled, clients>>

(* The handlers, cleanupDisconnected and checkIdleClients, whose           *)
(* exceptions end the iteration.                                           *)
handle(open) ==
  /\ pc = "handle" /\ pc' = "test" /\ clients' = open
  /\ UNCHANGED <<g_stop, _port, serverFd, bound, polled, exitCode>>

(* Mutant: only the connections are closed.                                *)
closeServerNever == serverFd

(* if (_server_fd >= 0) close(_server_fd)                                  *)
closeServer == FALSE

(* ~Server, and the return of main()                                       *)
destroy ==
  /\ pc = "destroy" /\ pc' = "exited"
  /\ clients' = {} /\ polled' = FALSE /\ serverFd' = closeServer
  /\ bound' = IF serverFd' THEN bound ELSE None
  /\ UNCHANGED <<g_stop, _port, exitCode>>

(* SIGINT or SIGQUIT: onSignal runs between any two steps; poll() is       *)
(* interrupted (EINTR) if it is waiting.  Before the handler is installed  *)
(* the signal ends the process.                                            *)
Signal ==
  /\ pc # "exited"
  /\ IF pc = "signals" THEN pc' = "exited" /\ exitCode' = 128 /\ UNCHANGED g_stop
     ELSE /\ g_stop' = TRUE
          /\ pc' = IF pc = "poll" THEN "test" ELSE pc
          /\ UNCHANGED exitCode
  /\ UNCHANGED <<_port, serverFd, bound, polled, clients>>

(* What the process does by itself; the clock ends a poll().               *)
Run ==
  \/ installHandlers
  \/ \E argsOK \in BOOLEAN, port \in Port : checkArguments(argsOK, port)
  \/ initThrows \/ openSocket \/ setOptions \/ bindPort \/ startListening
  \/ testStop \/ enterPoll \/ pollTimeout
  \/ \E open \in SUBSET Fd : handle(open)
  \/ destroy

LifeNext == Run \/ pollReady \/ pollFails \/ Signal

(* The process is scheduled, and poll() returns after its second.          *)
LifeSpec == LifeInit /\ [][LifeNext]_lifeVars /\ WF_lifeVars(Run)

-----------------------------------------------------------------------------
(* A signal stops the server, also one that arrives after g_stop was       *)
(* tested and before poll() waits, when nothing else ever happens.         *)
StopsOnSignal == g_stop ~> pc = "exited"

(* The process leaves no descriptor open behind it, whether it stopped or  *)
(* init failed half-way; while it serves, the listener is the first        *)
(* descriptor polled, as _poll_fds[0] is used without a test               *)
(* (acceptNewClient, disconnect, run), on the port that was asked for.     *)
ClosedAtExit ==
  /\ pc = "exited" => ~serverFd /\ clients = {} /\ bound = None
  /\ pc \in Serving => serverFd /\ polled /\ bound = _port

(* The inductive form of ClosedAtExit: what is open at each point of the   *)
(* process.                                                                *)
LifeInv ==
  /\ pc \in {"signals", "arguments", "destroy", "exited"} \cup InitCall \cup Serving
  /\ _port \in Int /\ bound \in Int
  /\ pc \in {"signals", "arguments", "socket"} => ~serverFd
  /\ pc \in {"setsockopt", "fcntl", "bind", "listen"} \cup Serving => serverFd
  /\ pc \in InitCall \cup Serving => validPort(_port)
  /\ pc \in {"signals", "arguments"} \cup InitCall => clients = {}
  /\ pc \in {"signals", "arguments", "socket", "setsockopt", "fcntl", "bind"} => bound = None
  /\ pc \in {"listen"} \cup Serving => bound = _port
  /\ pc \in Serving => polled
  /\ pc = "exited" => ~serverFd /\ clients = {} /\ bound = None

=============================================================================
