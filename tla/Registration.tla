---------------------------- MODULE Registration ----------------------------
(***************************************************************************)
(* How a connection becomes a registered client: PASS, NICK, USER and QUIT *)
(* (common/commandlist/), the dispatcher's two refusals                    *)
(* (CommandRegistry.cpp), Client::tryCompleteRegistration, and the nickname*)
(* table that the server keeps by searching its clients (ServerUtils.cpp). *)
(*                                                                         *)
(* One line of one client is one step.  The commands of a registered       *)
(* client on channels are ChannelServer's; the timers and the flushing of  *)
(* a closing connection are PollLoop's: here a connection may go away at   *)
(* any time.                                                               *)
(***************************************************************************)
EXTENDS Naturals, Sequences

CONSTANTS
  Client,      \* addresses of Client objects
  Nick,        \* the nicknames isValidNickname accepts, in every spelling
  lower,       \* the lower-case form of every nickname
  BadNick,     \* a nickname isValidNickname refuses
  Password,    \* what a PASS command may carry
  password,    \* Server::_password
  Empty,       \* the empty string, or a parameter that is absent
  BadUser      \* a username with an `@'

ASSUME NickAssumption ==
  lower \in [Nick -> Nick] /\ Empty \notin Nick /\ BadNick \notin Nick \cup {Empty}

ASSUME PasswordAssumption ==
  password \in Password /\ Empty \notin Password /\ BadUser # Empty

VARIABLES
  clients,           \* Server::_clients
  passwordVerified,  \* the clients with _is_password_verified
  nickname,          \* _nickname, Empty until NICK
  username,          \* the clients whose _username is set
  registered,        \* the clients with _is_registered
  closing,           \* the clients in Server::_closing
  sent,              \* the numerics and lines the last step sent its client
  wrongPassword      \* history: the clients that sent a wrong PASS

vars == <<clients, passwordVerified, nickname, username, registered, closing,
          sent, wrongPassword>>

toLower(n) == IF n = Empty THEN Empty ELSE lower[n]

-----------------------------------------------------------------------------
(* Mutant: only the nicknames of registered clients are looked at.         *)
isTakenByRegistered(n, c) ==
  \E d \in registered \ {c} : toLower(nickname[d]) = toLower(n)

(* Server::isNicknameTaken looks at every connection but the client's own, *)
(* registered or not.                                                      *)
isNicknameTaken(n, c) == \E d \in clients \ {c} : toLower(nickname[d]) = toLower(n)

checkPassword(p) == p = password

(* receiveData's loop: lines are read until the connection is closing.     *)
Serving(c) == c \in clients \ closing

Reply(code) ==
  /\ sent' = <<code>>
  /\ UNCHANGED <<clients, passwordVerified, nickname, username, registered,
                 closing, wrongPassword>>

(* Server::disconnectClient: the ERROR line, then no more of its lines.    *)
disconnectClient(c) == closing' = closing \cup {c}

(* Client::tryCompleteRegistration, after the fields have been assigned.   *)
isComplete(c) == /\ c \in passwordVerified'
                 /\ nickname'[c] # Empty /\ c \in username'
tryCompleteRegistration(c) ==
  registered' = IF isComplete(c) THEN registered \cup {c} ELSE registered

(* Client::isMissingPassword, at the end of NICK and of USER.              *)
isMissingPassword(c) ==
  /\ c \notin registered' /\ c \notin passwordVerified'
  /\ nickname'[c] # Empty /\ c \in username'

(* The end of NICK and USER for a client that was not registered.          *)
Complete(c) ==
  /\ tryCompleteRegistration(c)
  /\ IF isMissingPassword(c)
     THEN disconnectClient(c) /\ sent' = <<"464", "ERROR">>
     ELSE UNCHANGED closing /\ sent' = IF isComplete(c) THEN <<"001">> ELSE <<>>

-----------------------------------------------------------------------------
(* acceptNewClient                                                         *)
Connect(c) ==
  /\ c \notin clients
  /\ clients' = clients \cup {c}
  /\ sent' = <<>>
  /\ UNCHANGED <<passwordVerified, nickname, username, registered, closing,
                 wrongPassword>>

(* Mutant: PASS accepted again after registration.                         *)
PassAgain(c, p) ==
  /\ Serving(c) /\ p # Empty
  /\ passwordVerified' = IF checkPassword(p) THEN passwordVerified \cup {c}
                                             ELSE passwordVerified \ {c}
  /\ wrongPassword' = IF checkPassword(p) THEN wrongPassword
                                          ELSE wrongPassword \cup {c}
  /\ UNCHANGED <<clients, nickname, username, closing>>
  /\ tryCompleteRegistration(c)
  /\ sent' = <<>>

(* PASS [<p>]: the verdict on the last one counts.                         *)
Pass(c, p) ==
  /\ Serving(c)
  /\ \/ p = Empty /\ Reply("461")
     \/ p # Empty /\ c \in registered /\ Reply("462")
     \/ /\ p # Empty /\ c \notin registered
        /\ passwordVerified' = IF checkPassword(p) THEN passwordVerified \cup {c}
                                                   ELSE passwordVerified \ {c}
        /\ wrongPassword' = IF checkPassword(p) THEN wrongPassword
                                                ELSE wrongPassword \cup {c}
        /\ UNCHANGED <<clients, nickname, username, closing>>
        /\ tryCompleteRegistration(c)
        /\ sent' = IF isComplete(c) THEN <<"001">> ELSE <<>>

(* NICK [<n>]                                                              *)
NickCmd(c, n) ==
  /\ Serving(c)
  /\ \/ n = Empty /\ Reply("431")
     \/ n = BadNick /\ Reply("432")
     \/ n \in Nick /\ isNicknameTaken(n, c) /\ Reply("433")
     \/ /\ n \in Nick /\ ~isNicknameTaken(n, c)
        /\ nickname' = [nickname EXCEPT ![c] = n]
        /\ UNCHANGED <<clients, passwordVerified, username, wrongPassword>>
        /\ \/ /\ c \in registered
              /\ sent' = IF nickname[c] = n THEN <<>> ELSE <<"NICK">>
              /\ UNCHANGED <<registered, closing>>
           \/ c \notin registered /\ Complete(c)

(* Mutant: USER does not look for a missing password.                      *)
UserUnchecked(c, u) ==
  /\ Serving(c) /\ c \notin registered /\ u \notin {Empty, BadUser}
  /\ username' = username \cup {c}
  /\ UNCHANGED <<clients, passwordVerified, nickname, wrongPassword, closing>>
  /\ tryCompleteRegistration(c)
  /\ sent' = <<>>

(* USER <u> ...; u = Empty: fewer than four parameters, or an empty one.   *)
UserCmd(c, u) ==
  /\ Serving(c)
  /\ \/ u = Empty /\ Reply("461")
     \/ u # Empty /\ c \in registered /\ Reply("462")
     \/ u = BadUser /\ c \notin registered /\ Reply("461")
     \/ /\ u \notin {Empty, BadUser} /\ c \notin registered
        /\ username' = username \cup {c}
        /\ UNCHANGED <<clients, passwordVerified, nickname, wrongPassword>>
        /\ Complete(c)

(* QUIT, with or without a reason.                                         *)
Quit(c) ==
  /\ Serving(c)
  /\ disconnectClient(c)
  /\ sent' = <<"ERROR">>
  /\ UNCHANGED <<clients, passwordVerified, nickname, username, registered,
                 wrongPassword>>

(* PING without and with a token; PONG changes a timer only (PollLoop).    *)
Ping(c, token) == Serving(c) /\ Reply(IF token = Empty THEN "409" ELSE "PONG")

(* dispatch: an unknown command, or one that needs a login before it.      *)
Unknown(c)     == Serving(c) /\ Reply("421")
NeedsLogin(c)  == Serving(c) /\ c \notin registered /\ Reply("451")

eraseClosing(c) == closing \ {c}

(* Server::disconnect deletes the object.                                  *)
Disconnect(c) ==
  /\ c \in clients
  /\ clients' = clients \ {c}
  /\ passwordVerified' = passwordVerified \ {c}
  /\ nickname' = [nickname EXCEPT ![c] = Empty]
  /\ username' = username \ {c}
  /\ registered' = registered \ {c}
  /\ closing' = eraseClosing(c)
  /\ wrongPassword' = wrongPassword \ {c}
  /\ sent' = <<>>

-----------------------------------------------------------------------------
Init ==
  /\ clients = {} /\ passwordVerified = {} /\ username = {} /\ registered = {}
  /\ closing = {} /\ wrongPassword = {}
  /\ nickname = [c \in Client |-> Empty]
  /\ sent = <<>>

Next ==
  \E c \in Client :
    \/ Connect(c) \/ Disconnect(c) \/ Quit(c) \/ Unknown(c) \/ NeedsLogin(c)
    \/ \E p \in Password \cup {Empty} : Pass(c, p) \/ Ping(c, p)
    \/ \E n \in Nick \cup {Empty, BadNick} : NickCmd(c, n)
    \/ \E u \in {"user", Empty, BadUser} : UserCmd(c, u)

Spec == Init /\ [][Next]_vars

-----------------------------------------------------------------------------
(* The type of the state, and no field outlives its connection: a client   *)
(* object at a reused address starts from nothing.                         *)
TypeOK ==
  /\ clients \subseteq Client
  /\ passwordVerified \subseteq clients /\ username \subseteq clients
  /\ registered \subseteq clients /\ closing \subseteq clients
  /\ wrongPassword \subseteq clients
  /\ nickname \in [Client -> Nick \cup {Empty}]
  /\ \A c \in Client \ clients : nickname[c] = Empty

(* Two connections never carry nicknames that toLower makes equal, whether *)
(* they are registered, registering or closing (Nick.cpp:65): findClient-  *)
(* ByNickname, which takes the first match, can only find the right one.   *)
NickUnique ==
  \A c, d \in clients :
    c # d /\ nickname[c] # Empty => toLower(nickname[c]) # toLower(nickname[d])

(* A registered client has passed PASS, NICK and USER and nothing later    *)
(* takes one of them back: PASS is refused then, NICK only renames.        *)
RegisteredIsComplete ==
  \A c \in registered :
    c \in passwordVerified /\ c \in username /\ nickname[c] # Empty

(* Whoever has given both names is registered or being closed: no order of *)
(* PASS, NICK and USER, with any number of wrong or repeated ones, leaves  *)
(* a connection waiting with nothing more to send (Nick.cpp:83, User.cpp:48*)
(* and the absence of that test in Pass.cpp).                              *)
NobodyLingers ==
  \A c \in username : nickname[c] # Empty => c \in registered \cup closing

(* The README (src/README.md:123) says that a wrong password is answered   *)
(* with 464 and the connection is closed: then no connection that sent one *)
(* registers.                                                              *)
WrongPasswordIsFinal == wrongPassword \cap registered = {}

=============================================================================
