--------------------------- MODULE PollLoopProofs ---------------------------
(***************************************************************************)
(* The tables of the event loop agree whatever fails, and as long as no    *)
(* iteration is cut short by an exception, who is told of a closing is     *)
(* closed for that reason, after a PING and in time.                       *)
(***************************************************************************)
EXTENDS PollRefinement, TLAPS

(* Least is one of its arguments and not above the other.                  *)
LEMMA LeastIsLeast ==
  ASSUME NEW a \in Nat, NEW b \in Nat
  PROVE  Least(a, b) \in Nat /\ Least(a, b) <= a /\ Least(a, b) <= b
  BY DEF Least

(* A count of lines stays in its range.                                    *)
LEMMA LinesCounted ==
  /\ 0 \in 0..MaxLines
  /\ \A n \in 0..MaxLines : n > 0 => n - 1 \in 0..MaxLines
  BY TimeAssumption

(* sendReply keeps the write buffers within what is counted of them.       *)
LEMMA RepliesCounted ==
  ASSUME TypeOK, NEW S
  PROVE  sendReply(S) \in [Fd -> 0..MAX_SENDQ + 1]
  <1>1. \A fd \in Fd : Least(outbuf[fd] + 1, MAX_SENDQ + 1) \in 0..MAX_SENDQ + 1
    BY TimeAssumption DEF TypeOK, Least
  <1> QED BY <1>1 DEF sendReply, TypeOK

(* Clocks only count on, and no faster than time.                          *)
LEMMA ClocksRun ==
  ASSUME TypeOK, NEW dt \in 0..MaxStep, Elapse(dt)
  PROVE  /\ connectAge' \in [Fd -> Nat] /\ idleAge' \in [Fd -> Nat]
         /\ closingAge' \in [Fd -> Nat]
         /\ \A fd \in Fd : /\ connectAge'[fd] <= connectAge[fd] + MaxStep
                           /\ idleAge'[fd] <= idleAge[fd] + MaxStep
                           /\ closingAge'[fd] <= closingAge[fd] + MaxStep
                           /\ fd \notin clients => /\ connectAge'[fd] = connectAge[fd]
                                                   /\ idleAge'[fd] = idleAge[fd]
  <1>1. ASSUME NEW age \in [Fd -> Nat], NEW limit \in Nat
        PROVE  /\ Later(age, limit, dt) \in [Fd -> Nat]
               /\ \A fd \in Fd : /\ Later(age, limit, dt)[fd] <= age[fd] + MaxStep
                                 /\ fd \notin clients => Later(age, limit, dt)[fd] = age[fd]
    <2>1. \A fd \in Fd : LET c == Least(age[fd] + dt, limit + 2 * MaxStep + 1)
                         IN  c \in Nat /\ c <= age[fd] + MaxStep
      BY TimeAssumption DEF Least
    <2> QED BY <2>1, TimeAssumption DEF Later
  <1>2. /\ connectAge \in [Fd -> Nat] /\ idleAge \in [Fd -> Nat] /\ closingAge \in [Fd -> Nat]
        /\ TIMEOUT_REGISTRATION \in Nat /\ TIMEOUT_SECONDS \in Nat /\ TIMEOUT_CLOSING \in Nat
    BY TimeAssumption DEF TypeOK
  <1>3. /\ connectAge' \in [Fd -> Nat] /\ idleAge' \in [Fd -> Nat]
        /\ \A fd \in Fd : /\ connectAge'[fd] <= connectAge[fd] + MaxStep
                          /\ idleAge'[fd] <= idleAge[fd] + MaxStep
                          /\ fd \notin clients => /\ connectAge'[fd] = connectAge[fd]
                                                  /\ idleAge'[fd] = idleAge[fd]
    BY <1>1, <1>2 DEF Elapse
  <1> DEFINE L == Later(closingAge, TIMEOUT_CLOSING, dt)
  <1>4. closingAge' = [fd \in Fd |-> IF told[fd] = None THEN 0 ELSE L[fd]]
    BY DEF Elapse
  <1>5. L \in [Fd -> Nat] /\ \A fd \in Fd : L[fd] <= closingAge[fd] + MaxStep
    BY <1>1, <1>2
  <1> HIDE DEF L
  <1>6. closingAge' \in [Fd -> Nat] /\ \A fd \in Fd : closingAge'[fd] <= closingAge[fd] + MaxStep
    BY <1>2, <1>4, <1>5, TimeAssumption
  <1> QED BY <1>3, <1>6

(* disconnectAfterFlush gives every client of S a reason.                  *)
LEMMA FlushTyped ==
  ASSUME TypeOK, NEW S, NEW reason \in Announced, disconnectAfterFlush(S, reason)
  PROVE  /\ closing' \in [Fd -> Announced \cup {None}]
         /\ told' \in [Fd -> Announced \cup {None}]
         /\ closingAge' \in [Fd -> Nat]
  BY DEF disconnectAfterFlush, TypeOK

(* A step of a visit that marks cur or fd keeps the table of marks.        *)
LEMMA MarkTyped ==
  ASSUME TypeOK, NEW fd, NEW reason \in Reason, markForDisconnection(fd, reason)
  PROVE  marked' \in [Fd -> Reason \cup {None}]
  BY DEF markForDisconnection, TypeOK

(* The phases before the handlers keep the types.                          *)
LEMMA TypePoll ==
  ASSUME TypeOK,
         \/ refreshPollEvents
         \/ \E dt \in 0..MaxStep : Poll(dt)
         \/ \E fd \in Fd : acceptNewClient(fd)
         \/ acceptFails \/ acceptDropped
  PROVE  TypeOK'
  <1>1. CASE refreshPollEvents
    BY <1>1 DEF refreshPollEvents, TypeOK, Reason, visit, connection, ages
  <1>2. ASSUME NEW dt \in 0..MaxStep, Poll(dt)
        PROVE  TypeOK'
    <2>1. CASE \E R \in SUBSET pollFds, a \in BOOLEAN : pollReady(R, a, dt)
      BY <2>1, ClocksRun DEF pollReady, TypeOK, visit, tables, connection
    <2>2. CASE pollTimeout(dt)
      BY <2>2, ClocksRun DEF pollTimeout, TypeOK, visit, tables, connection
    <2> QED BY <1>2, <2>1, <2>2 DEF Poll
  <1>3. ASSUME NEW fd \in Fd, acceptNewClient(fd)
        PROVE  TypeOK'
    BY <1>3 DEF acceptNewClient, TypeOK, visit, connection, ages
  <1>4. CASE acceptFails \/ acceptDropped
    BY <1>4 DEF acceptFails, acceptDropped, TypeOK, visit, tables, connection, ages
  <1> QED BY <1>1, <1>2, <1>3, <1>4

(* Starting a visit keeps the types.                                       *)
LEMMA TypeVisit ==
  ASSUME TypeOK, NEW fd \in todo, Visit(fd)
  PROVE  TypeOK'
  <1>0. fd \in Fd
    BY DEF TypeOK
  <1>1. CASE connectionError(fd)
    BY <1>1, MarkTyped
    DEF connectionError, Reason, TypeOK, visit, connection, ages
  <1>2. ASSUME NEW out \in BOOLEAN, NEW n \in 0..MaxLines, Handle(fd, out, n),
               marked' \in [Fd -> Reason \cup {None}],
               pingSent' \subseteq Fd, idleAge' \in [Fd -> Nat]
        PROVE  TypeOK'
    BY <1>0, <1>2 DEF Handle, TypeOK
  <1>3. 0 \in 0..MaxLines /\ marked \in [Fd -> Reason \cup {None}] /\ pingSent \subseteq Fd
          /\ idleAge \in [Fd -> Nat]
    BY TimeAssumption DEF TypeOK
  <1>5. CASE writable(fd)
    BY <1>0, <1>3, <1>5 DEF writable, Handle, TypeOK
  <1>4. ASSUME NEW out \in BOOLEAN, Receive(fd, out)
        PROVE  TypeOK'
    <2>1. updateLastActivity(fd) => pingSent' \subseteq Fd /\ idleAge' \in [Fd -> Nat]
      BY DEF updateLastActivity, TypeOK
    <2>2. ASSUME NEW reason \in {"Receive error", "Client disconnected", "Internal error", Blank},
                 receiveFails(fd, out, reason)
          PROVE  TypeOK'
      <3>1. marked' \in [Fd -> Reason \cup {None}]
        BY <2>2, MarkTyped DEF receiveFails, Reason
      <3> QED BY <1>2, <1>3, <2>2, <3>1 DEF receiveFails
    <2>3. CASE receiveIgnored(fd, out)
      BY <1>2, <1>3, <2>3 DEF receiveIgnored
    <2>4. ASSUME NEW n \in 0..MaxLines, receiveData(fd, out, n)
          PROVE  TypeOK'
      BY <1>2, <1>3, <2>1, <2>4 DEF receiveData
    <2>5. ASSUME NEW reason \in {"Input buffer overflow", "Internal error", Blank},
                 receiveOverflow(fd, out, reason)
          PROVE  TypeOK'
      <3>1. marked' \in [Fd -> Reason \cup {None}]
        BY <2>5, MarkTyped DEF receiveOverflow, Reason
      <3> QED BY <1>2, <1>3, <2>1, <2>5, <3>1 DEF receiveOverflow
    <2> QED BY <1>4, <2>2, <2>3, <2>4, <2>5 DEF Receive
  <1> QED BY <1>1, <1>4, <1>5 DEF Visit

(* So does what a line does, and the end of a visit.                       *)
LEMMA TypeLine ==
  ASSUME TypeOK, TablesAgree, Line \/ Send \/ eventsDone
  PROVE  TypeOK'
  <1>0. phase = "lines" => cur \in Fd
    BY DEF TablesAgree, TypeOK
  <1>1. ASSUME NEW S, lineAnswers(S)
        PROVE  TypeOK'
    BY <1>1, RepliesCounted, TimeAssumption DEF lineAnswers, moreLines, TypeOK, tables, ages
  <1>2. CASE lineRegisters
    BY <1>0, <1>2, RepliesCounted, TimeAssumption DEF lineRegisters, moreLines, TypeOK, tables, ages
  <1>3. ASSUME NEW reason \in {"Client Quit", "Bad Password"}, lineCloses(reason)
        PROVE  TypeOK'
    <2>1. outbuf' \in [Fd -> 0..MAX_SENDQ + 1]
      BY <1>3, RepliesCounted DEF lineCloses
    <2>2. /\ closing' \in [Fd -> Announced \cup {None}]
          /\ told' \in [Fd -> Announced \cup {None}]
          /\ closingAge' \in [Fd -> Nat]
      BY <1>3, FlushTyped DEF lineCloses, Announced
    <2>3. lines' \in 0..MaxLines
      <3>1. lines' = lines - 1 /\ lines > 0
        BY <1>3 DEF lineCloses, moreLines
      <3> QED BY <3>1, LinesCounted DEF TypeOK
    <2> QED BY <1>3, <2>1, <2>2, <2>3 DEF lineCloses, TypeOK
  <1>4. CASE lineThrows
    <2>1. marked' \in [Fd -> Reason \cup {None}]
      BY <1>4, MarkTyped DEF lineThrows, Reason
    <2>2. cur' = None /\ wantsOut' = FALSE /\ lines' = 0
      BY <1>4 DEF lineThrows, Finished
    <2> QED BY <1>4, <2>1, <2>2, LinesCounted DEF lineThrows, TypeOK, connection, ages
  <1>5. ASSUME EndVisit, marked' \in [Fd -> Reason \cup {None}],
               closing' \in [Fd -> Announced \cup {None}],
               outbuf' \in [Fd -> 0..MAX_SENDQ + 1]
        PROVE  TypeOK'
    <2>1. cur' = None /\ wantsOut' = FALSE /\ lines' = 0
      BY <1>5 DEF EndVisit, Finished
    <2> QED BY <1>5, <2>1, LinesCounted DEF EndVisit, TypeOK, ages
  <1>6. CASE noSend
    BY <1>5, <1>6 DEF noSend, TypeOK
  <1>7. CASE sendFails
    <2>1. marked' \in [Fd -> Reason \cup {None}]
      BY <1>7, MarkTyped DEF sendFails, Reason
    <2> QED BY <1>5, <1>7, <2>1 DEF sendFails, TypeOK
  <1>10. CASE sendThrows
    <2>1. marked' \in [Fd -> Reason \cup {None}]
      BY <1>10, MarkTyped DEF sendThrows, Reason
    <2>2. outbuf' \in [Fd -> 0..MAX_SENDQ + 1]
      <3>1. 0 \in 0..MAX_SENDQ + 1
        BY TimeAssumption
      <3> QED BY <1>10, <3>1 DEF sendThrows, TypeOK
    <2> QED BY <1>5, <1>10, <2>1, <2>2 DEF sendThrows, TypeOK
  <1>8. ASSUME NEW n \in 1..MAX_SENDQ + 1, sendData(n)
        PROVE  TypeOK'
    <2>1. cur \in Fd
      BY <1>0, <1>8 DEF sendData, EndVisit
    <2>2. outbuf' \in [Fd -> 0..MAX_SENDQ + 1]
      BY <1>8, <2>1, TimeAssumption DEF sendData, TypeOK
    <2>3. closing' \in [Fd -> Announced \cup {None}]
      BY <1>8 DEF sendData, TypeOK
    <2>4. marked' \in [Fd -> Reason \cup {None}]
      BY <1>8, <2>1, MarkTyped DEF sendData, isClosing, Reason, TypeOK
    <2> QED BY <1>5, <1>8, <2>2, <2>3, <2>4 DEF sendData
  <1>9. CASE eventsDone
    BY <1>9 DEF eventsDone, TypeOK, visit, tables, connection, ages
  <1> QED BY <1>1, <1>2, <1>3, <1>4, <1>6, <1>7, <1>8, <1>9, <1>10 DEF Line, Send

(* And the two walks over all clients at the end of an iteration.          *)
LEMMA TypeCleanup ==
  ASSUME TypeOK,
         \/ \E fd \in Fd, S \in SUBSET clients : disconnect(fd, S)
         \/ cleanupDone \/ checkIdleClients \/ Stop
  PROVE  TypeOK'
  <1>1. ASSUME NEW fd \in Fd, NEW S, disconnect(fd, S)
        PROVE  TypeOK'
    BY <1>1, RepliesCounted, TimeAssumption DEF disconnect, eraseClosing, TypeOK, visit
  <1>3. CASE cleanupDone
    BY <1>3 DEF cleanupDone, TypeOK, visit, tables, connection, ages
  <1>4. CASE checkIdleClients
    <2>1. marked' \in [Fd -> Reason \cup {None}]
      BY <1>4 DEF checkIdleClients, Reason, TypeOK
    <2>2. outbuf' \in [Fd -> 0..MAX_SENDQ + 1]
      BY <1>4, RepliesCounted DEF checkIdleClients
    <2>3. pingSent' \subseteq Fd
      BY <1>4 DEF checkIdleClients, quiet, Open, TypeOK
    <2> QED BY <1>4, <2>1, <2>2, <2>3, FlushTyped
            DEF checkIdleClients, Announced, TypeOK, visit
  <1>5. CASE Stop
    BY <1>5, TimeAssumption DEF Stop, TypeOK, visit
  <1> QED BY <1>1, <1>3, <1>4, <1>5

(* An iteration that is given up leaves the types alone.                   *)
LEMMA TypeThrow ==
  ASSUME TypeOK, TablesAgree, Throw
  PROVE  TypeOK'
  <1>0. ASSUME NEW where, GiveUp(where), marked' \in [Fd -> Reason \cup {None}],
               closing' \in [Fd -> Announced \cup {None}],
               told' \in [Fd -> Announced \cup {None}],
               outbuf' \in [Fd -> 0..MAX_SENDQ + 1], pingSent' \subseteq Fd,
               closingAge' \in [Fd -> Nat]
        PROVE  TypeOK'
    <2>1. cur' = None /\ wantsOut' = FALSE /\ lines' = 0
      BY <1>0 DEF GiveUp, Finished
    <2> QED BY <1>0, <2>1, LinesCounted DEF GiveUp, TypeOK
  <1>1. /\ marked \in [Fd -> Reason \cup {None}] /\ closing \in [Fd -> Announced \cup {None}]
        /\ told \in [Fd -> Announced \cup {None}] /\ outbuf \in [Fd -> 0..MAX_SENDQ + 1]
        /\ pingSent \subseteq Fd /\ closingAge \in [Fd -> Nat] /\ clients \subseteq Fd
        /\ todo \subseteq Fd
    BY DEF TypeOK
  <1>2. {Blank, "SendQ exceeded", "Registration timeout"} \subseteq Reason
        /\ Announced \subseteq Reason /\ "Ping timeout" \in Announced
    BY DEF Reason, Announced
  <1>3. ASSUME NEW D, refreshThrows(D)
        PROVE  TypeOK'
    <2>1. marked' \in [Fd -> Reason \cup {None}]
      BY <1>1, <1>2, <1>3 DEF refreshThrows
    <2> QED BY <1>0, <1>1, <1>3, <2>1 DEF refreshThrows
  <1>4. ASSUME NEW fd \in todo, errorThrows(fd)
        PROVE  TypeOK'
    <2>1. marked' \in [Fd -> Reason \cup {None}]
      BY <1>1, <1>2, <1>4 DEF errorThrows
    <2> QED BY <1>0, <1>1, <1>4, <2>1 DEF errorThrows
  <1>5. CASE catchThrows
    <2>1. outbuf' \in [Fd -> 0..MAX_SENDQ + 1]
      BY <1>1, <1>5, TimeAssumption DEF catchThrows
    <2> QED BY <1>0, <1>1, <1>5, <2>1 DEF catchThrows
  <1>6. ASSUME NEW fd \in Fd, NEW S, cleanupThrows(fd, S)
        PROVE  TypeOK'
    <2>1. marked' \in [Fd -> Reason \cup {None}] /\ closing' \in [Fd -> Announced \cup {None}]
      BY <1>1, <1>6 DEF cleanupThrows, eraseClosing
    <2>2. outbuf' \in [Fd -> 0..MAX_SENDQ + 1]
      BY <1>6, RepliesCounted DEF cleanupThrows
    <2> QED BY <1>0, <1>1, <1>6, <2>1, <2>2 DEF cleanupThrows
  <1>7. ASSUME NEW fd \in clients, NEW D \in SUBSET clients, idleThrows(fd, D)
        PROVE  TypeOK'
    <2>1. marked' \in [Fd -> Reason \cup {None}]
      <3>1. PICK why \in {None, Blank} :
              marked' = [d \in Fd |->
                CASE d \in D \cap expired -> closing[d]
                  [] d \in D \cap unfinished -> "Registration timeout"
                  [] d = fd -> why
                  [] OTHER -> marked[d]]
        BY <1>7 DEF idleThrows
      <3>2. why \in Reason \cup {None} /\ \A d \in Fd : closing[d] \in Reason \cup {None}
        BY <1>1, <1>2
      <3> QED BY <1>1, <1>2, <3>1, <3>2
    <2>2. /\ closing' \in [Fd -> Announced \cup {None}]
          /\ closingAge' \in [Fd -> Nat]
      <3>1. closing' = [d \in Fd |-> IF d \in D \cap silent THEN "Ping timeout" ELSE closing[d]]
            /\ closingAge' = [d \in Fd |-> IF d \in D \cap silent THEN 0 ELSE closingAge[d]]
        BY <1>7 DEF idleThrows
      <3> QED BY <1>1, <1>2, <3>1
    <2>5. told' \in [Fd -> Announced \cup {None}]
      <3>1. PICK T : told' = [d \in Fd |-> IF d \in T THEN "Ping timeout" ELSE told[d]]
        BY <1>7 DEF idleThrows
      <3> QED BY <1>1, <1>2, <3>1
    <2>3. outbuf' \in [Fd -> 0..MAX_SENDQ + 1]
      BY <1>7, RepliesCounted DEF idleThrows
    <2>4. pingSent' \subseteq Fd
      BY <1>1, <1>7 DEF idleThrows
    <2> QED BY <1>0, <1>7, <2>1, <2>2, <2>3, <2>4, <2>5 DEF idleThrows
  <1> QED BY <1>3, <1>4, <1>5, <1>6, <1>7 DEF Throw

-----------------------------------------------------------------------------
(* Who answers a non-client finds nothing to count: the buffers of those   *)
(* outside S stay as they are.                                             *)
LEMMA RepliesToClients ==
  ASSUME Fresh, NEW S \in SUBSET clients
  PROVE  \A fd \in Fd \ clients : sendReply(S)[fd] = 0
  BY DEF Fresh, sendReply

(* The phases before the handlers keep the tables in step.                 *)
LEMMA TablesPoll ==
  ASSUME TableInv,
         \/ refreshPollEvents
         \/ \E dt \in 0..MaxStep : Poll(dt)
         \/ \E fd \in Fd : acceptNewClient(fd)
         \/ acceptFails \/ acceptDropped
  PROVE  TablesAgree' /\ Fresh'
  <1>1. CASE refreshPollEvents
    BY <1>1 DEF refreshPollEvents, TableInv, TypeOK, TablesAgree, Fresh, isMarked, isClosing,
                visit, connection, ages
  <1>2. ASSUME NEW dt \in 0..MaxStep, Poll(dt)
        PROVE  TablesAgree' /\ Fresh'
    <2>1. Elapse(dt) => \A fd \in Fd \ clients :
            connectAge'[fd] = 0 /\ idleAge'[fd] = 0 /\ closingAge'[fd] = 0
      BY DEF Elapse, Later, TableInv, Fresh
    <2>2. CASE \E R \in SUBSET pollFds, a \in BOOLEAN : pollReady(R, a, dt)
      BY <2>1, <2>2 DEF pollReady, TableInv, TablesAgree, Fresh, isMarked, isClosing,
                        visit, tables, connection
    <2>3. CASE pollTimeout(dt)
      BY <2>1, <2>3 DEF pollTimeout, TableInv, TablesAgree, Fresh, isMarked, isClosing,
                        visit, tables, connection
    <2> QED BY <1>2, <2>2, <2>3 DEF Poll
  <1>3. ASSUME NEW fd \in Fd, acceptNewClient(fd)
        PROVE  TablesAgree' /\ Fresh'
    BY <1>3 DEF acceptNewClient, TableInv, TablesAgree, Fresh, isMarked, isClosing,
                visit, connection, ages
  <1>4. CASE acceptFails \/ acceptDropped
    BY <1>4 DEF acceptFails, acceptDropped, TableInv, TablesAgree, Fresh, isMarked, isClosing,
                visit, tables, connection, ages
  <1> QED BY <1>1, <1>2, <1>3, <1>4

(* Only a client is marked, whoever marks it.                              *)
LEMMA MarkedIsClient ==
  ASSUME TableInv, NEW fd \in clients, NEW reason, markForDisconnection(fd, reason)
  PROVE  \A d \in Fd : marked'[d] # None => d \in clients
  BY DEF TableInv, TypeOK, TablesAgree, markForDisconnection, isMarked

(* A visit starts at a client, and only its own clock and mark change.     *)
LEMMA TablesVisit ==
  ASSUME TableInv, NEW fd \in todo, Visit(fd)
  PROVE  TablesAgree' /\ Fresh'
  <1>0. fd \in clients /\ fd \in Fd
    BY DEF TableInv, TypeOK, TablesAgree
  <1>1. CASE connectionError(fd)
    <2>1. \A d \in Fd : marked'[d] # None => d \in clients
      BY <1>0, <1>1, MarkedIsClient DEF connectionError
    <2> QED BY <1>1, <2>1 DEF connectionError, TableInv, TablesAgree, Fresh, isMarked, isClosing,
                              visit, connection, ages
  <1>2. ASSUME NEW out, NEW n, Handle(fd, out, n),
               \A d \in Fd : marked'[d] # None => d \in clients,
               pingSent' \subseteq pingSent,
               \A d \in Fd \ {fd} : idleAge'[d] = idleAge[d]
        PROVE  TablesAgree' /\ Fresh'
    BY <1>0, <1>2 DEF Handle, TableInv, TypeOK, TablesAgree, Fresh, isMarked, isClosing
  <1>3. \A d \in Fd : marked[d] # None => d \in clients
    BY DEF TableInv, TablesAgree, isMarked
  <1>4. CASE writable(fd)
    BY <1>2, <1>3, <1>4 DEF writable
  <1>5. ASSUME NEW out \in BOOLEAN, Receive(fd, out)
        PROVE  TablesAgree' /\ Fresh'
    <2>1. updateLastActivity(fd) => /\ pingSent' \subseteq pingSent
                                    /\ \A d \in Fd \ {fd} : idleAge'[d] = idleAge[d]
      BY DEF updateLastActivity, TableInv, TypeOK
    <2>2. ASSUME NEW reason \in {"Receive error", "Client disconnected", "Internal error", Blank},
                 receiveFails(fd, out, reason)
          PROVE  TablesAgree' /\ Fresh'
      <3>1. \A d \in Fd : marked'[d] # None => d \in clients
        BY <1>0, <2>2, MarkedIsClient DEF receiveFails
      <3> QED BY <1>2, <2>2, <3>1 DEF receiveFails
    <2>3. CASE receiveIgnored(fd, out)
      BY <1>2, <1>3, <2>3 DEF receiveIgnored
    <2>4. ASSUME NEW n \in 0..MaxLines, receiveData(fd, out, n)
          PROVE  TablesAgree' /\ Fresh'
      BY <1>2, <1>3, <2>1, <2>4 DEF receiveData
    <2>5. ASSUME NEW reason \in {"Input buffer overflow", "Internal error", Blank},
                 receiveOverflow(fd, out, reason)
          PROVE  TablesAgree' /\ Fresh'
      <3>1. \A d \in Fd : marked'[d] # None => d \in clients
        BY <1>0, <2>5, MarkedIsClient DEF receiveOverflow
      <3> QED BY <1>2, <2>1, <2>5, <3>1 DEF receiveOverflow
    <2> QED BY <1>5, <2>2, <2>3, <2>4, <2>5 DEF Receive
  <1> QED BY <1>1, <1>4, <1>5 DEF Visit

(* What a line does, it does to clients.                                   *)
LEMMA TablesLine ==
  ASSUME TableInv, Line
  PROVE  TablesAgree' /\ Fresh'
  <1>0. phase = "lines" => cur \in clients /\ cur \in Fd
    BY DEF TableInv, TypeOK, TablesAgree
  <1>1. ASSUME NEW S \in SUBSET clients, lineAnswers(S)
        PROVE  TablesAgree' /\ Fresh'
    BY <1>1, RepliesToClients
    DEF lineAnswers, moreLines, TableInv, TablesAgree, Fresh, isMarked, isClosing, tables, ages
  <1>2. CASE lineRegisters
    <2>1. \A fd \in Fd \ clients : sendReply({cur})[fd] = 0
      BY <1>0, <1>2, RepliesToClients DEF lineRegisters, moreLines, TableInv
    <2> QED BY <1>0, <1>2, <2>1 DEF lineRegisters, moreLines, TableInv, TablesAgree, Fresh,
                                    isMarked, isClosing, tables, ages
  <1>3. ASSUME NEW reason \in {"Client Quit", "Bad Password"}, lineCloses(reason)
        PROVE  TablesAgree' /\ Fresh'
    <2>1. \A fd \in Fd \ clients : sendReply({cur})[fd] = 0
      BY <1>0, <1>3, RepliesToClients DEF lineCloses, moreLines, TableInv
    <2>2. \A fd \in Fd \ {cur} : /\ closing'[fd] = closing[fd] /\ told'[fd] = told[fd]
                                 /\ closingAge'[fd] = closingAge[fd]
      BY <1>3 DEF lineCloses, disconnectAfterFlush
    <2>3. cur \in clients
      BY <1>0, <1>3 DEF lineCloses, moreLines
    <2> QED BY <1>3, <2>1, <2>2, <2>3 DEF lineCloses, TableInv, TablesAgree, Fresh,
                                    isMarked, isClosing
  <1>4. CASE lineThrows
    <2>1. \A d \in Fd : marked'[d] # None => d \in clients
      BY <1>0, <1>4, MarkedIsClient DEF lineThrows, moreLines
    <2> QED BY <1>4, <2>1 DEF lineThrows, TableInv, TablesAgree, Fresh, isMarked, isClosing,
                              connection, ages
  <1> QED BY <1>1, <1>2, <1>3, <1>4 DEF Line

(* The end of a visit takes cur off the descriptors to visit.              *)
LEMMA TablesSend ==
  ASSUME TableInv, Send \/ eventsDone
  PROVE  TablesAgree' /\ Fresh'
  <1>1. ASSUME EndVisit, \A d \in Fd : marked'[d] # None => d \in clients,
               \A d \in Fd : closing'[d] # None => closing[d] # None,
               \A d \in Fd \ clients : outbuf'[d] = 0
        PROVE  TablesAgree' /\ Fresh'
    BY <1>1 DEF EndVisit, TableInv, TablesAgree, Fresh, isMarked, isClosing, ages
  <1>2. /\ \A d \in Fd : marked[d] # None => d \in clients
        /\ \A d \in Fd \ clients : outbuf[d] = 0
        /\ phase = "lines" => cur \in clients /\ cur \in Fd
    BY DEF TableInv, TypeOK, TablesAgree, Fresh, isMarked
  <1>3. CASE noSend
    BY <1>1, <1>2, <1>3 DEF noSend
  <1>4. CASE sendFails
    <2>1. \A d \in Fd : marked'[d] # None => d \in clients
      BY <1>2, <1>4, MarkedIsClient DEF sendFails, EndVisit
    <2> QED BY <1>1, <1>2, <1>4, <2>1 DEF sendFails
  <1>7. CASE sendThrows
    <2>1. EndVisit /\ cur \in clients /\ cur \in Fd
      BY <1>2, <1>7 DEF sendThrows, EndVisit
    <2>2. \A d \in Fd : marked'[d] # None => d \in clients
      BY <1>7, <2>1, MarkedIsClient DEF sendThrows
    <2>3. \A d \in Fd \ clients : outbuf'[d] = 0
      BY <1>2, <1>7, <2>1 DEF sendThrows, TableInv, TypeOK
    <2> QED BY <1>1, <1>7, <2>1, <2>2, <2>3 DEF sendThrows
  <1>5. ASSUME NEW n \in 1..MAX_SENDQ + 1, sendData(n)
        PROVE  TablesAgree' /\ Fresh'
    <2>1. EndVisit /\ cur \in clients /\ cur \in Fd
      BY <1>2, <1>5 DEF sendData, EndVisit
    <2>2. \A d \in Fd : marked'[d] # None => d \in clients
      BY <1>2, <1>5, <2>1, MarkedIsClient DEF sendData
    <2>3. \A d \in Fd : closing'[d] # None => closing[d] # None
      BY <1>5, <2>1 DEF sendData, TableInv, TypeOK
    <2>4. \A d \in Fd \ clients : outbuf'[d] = 0
      BY <1>2, <1>5, <2>1 DEF sendData, TableInv, TypeOK
    <2> QED BY <1>1, <2>1, <2>2, <2>3, <2>4
  <1>6. CASE eventsDone
    BY <1>6 DEF eventsDone, TableInv, TablesAgree, Fresh, isMarked, isClosing,
                visit, tables, connection, ages
  <1> QED BY <1>3, <1>4, <1>5, <1>6, <1>7 DEF Send

(* disconnect takes a descriptor out of every table at once; the walk of   *)
(* checkIdleClients marks and tells clients only.                          *)
LEMMA TablesCleanup ==
  ASSUME TableInv,
         \/ \E fd \in Fd, S \in SUBSET clients : disconnect(fd, S)
         \/ cleanupDone \/ checkIdleClients \/ Stop
  PROVE  TablesAgree' /\ Fresh'
  <1>1. ASSUME NEW fd \in Fd, NEW S \in SUBSET clients, disconnect(fd, S)
        PROVE  TablesAgree' /\ Fresh'
    <2>1. phase = "cleanup" /\ todo = {}
      BY <1>1 DEF disconnect, TableInv, Fresh
    <2>2. /\ sendReply(S) \in [Fd -> 0..MAX_SENDQ + 1]
          /\ \A d \in Fd \ clients : sendReply(S)[d] = 0
      BY RepliesToClients, RepliesCounted DEF TableInv
    <2>3. TablesAgree'
      BY <1>1, <2>1 DEF disconnect, eraseClosing, TableInv, TypeOK, TablesAgree, isMarked, isClosing
    <2>4. Fresh'
      BY <1>1, <2>1, <2>2 DEF disconnect, TableInv, TypeOK, Fresh
    <2> QED BY <2>3, <2>4
  <1>3. CASE cleanupDone
    BY <1>3 DEF cleanupDone, TableInv, TablesAgree, Fresh, isMarked, isClosing,
                visit, tables, connection, ages
  <1>4. CASE checkIdleClients
    <2>1. silent \subseteq clients /\ quiet \subseteq clients
      BY DEF silent, quiet, Open
    <2>2. \A d \in Fd \ clients : sendReply(silent \cup quiet)[d] = 0
      BY <2>1, RepliesToClients DEF TableInv
    <2>3. \A d \in Fd \ clients : marked'[d] = None /\ closing'[d] = None /\ told'[d] = None
                                  /\ closingAge'[d] = 0
      BY <1>4, <2>1 DEF checkIdleClients, disconnectAfterFlush, expired, unfinished, Open,
                        TableInv, TablesAgree, Fresh, isMarked, isClosing
    <2>4. todo = {}
      BY <1>4 DEF checkIdleClients, TableInv, Fresh
    <2> QED BY <1>4, <2>1, <2>2, <2>3, <2>4
            DEF checkIdleClients, TableInv, TablesAgree, Fresh, isMarked, isClosing, visit
  <1>5. CASE Stop
    BY <1>5 DEF Stop, TableInv, TablesAgree, Fresh, isMarked, isClosing, visit
  <1> QED BY <1>1, <1>3, <1>4, <1>5

(* An iteration that is given up visits nobody, and what it has marked or  *)
(* told until then are clients.                                            *)
LEMMA TablesThrow ==
  ASSUME TableInv, Throw
  PROVE  TablesAgree' /\ Fresh'
  <1>0. ASSUME NEW where, GiveUp(where),
               \A d \in Fd \ clients :
                 /\ marked'[d] = None /\ closing'[d] = None /\ told'[d] = None
                 /\ outbuf'[d] = 0 /\ closingAge'[d] = 0,
               pingSent' \subseteq clients
        PROVE  TablesAgree' /\ Fresh'
    BY <1>0 DEF GiveUp, TableInv, TablesAgree, Fresh, isMarked, isClosing
  <1>1. /\ \A d \in Fd \ clients :
             /\ marked[d] = None /\ closing[d] = None /\ told[d] = None
             /\ outbuf[d] = 0 /\ closingAge[d] = 0
        /\ pingSent \subseteq clients /\ todo \subseteq clients /\ clients \subseteq Fd
        /\ marked \in [Fd -> Reason \cup {None}] /\ closing \in [Fd -> Announced \cup {None}]
        /\ outbuf \in [Fd -> 0..MAX_SENDQ + 1] /\ (phase = "lines" => cur \in clients)
    BY DEF TableInv, TypeOK, TablesAgree, Fresh, isMarked, isClosing
  <1>3. ASSUME NEW D, refreshThrows(D)
        PROVE  TablesAgree' /\ Fresh'
    <2>1. \A d \in Fd \ clients : marked'[d] = None
      BY <1>1, <1>3 DEF refreshThrows
    <2> QED BY <1>0, <1>1, <1>3, <2>1 DEF refreshThrows
  <1>4. ASSUME NEW fd \in todo, errorThrows(fd)
        PROVE  TablesAgree' /\ Fresh'
    <2>1. \A d \in Fd \ clients : marked'[d] = None
      BY <1>1, <1>4 DEF errorThrows
    <2> QED BY <1>0, <1>1, <1>4, <2>1 DEF errorThrows
  <1>5. CASE catchThrows
    <2>1. \A d \in Fd \ clients : outbuf'[d] = 0
      BY <1>1, <1>5 DEF catchThrows
    <2> QED BY <1>0, <1>1, <1>5, <2>1 DEF catchThrows
  <1>6. ASSUME NEW fd \in Fd, NEW S \in SUBSET clients, cleanupThrows(fd, S)
        PROVE  TablesAgree' /\ Fresh'
    <2>1. \A d \in Fd \ clients : marked'[d] = None /\ closing'[d] = None
      BY <1>1, <1>6 DEF cleanupThrows, eraseClosing
    <2>2. \A d \in Fd \ clients : outbuf'[d] = 0
      BY <1>6, RepliesToClients DEF cleanupThrows, TableInv
    <2> QED BY <1>0, <1>1, <1>6, <2>1, <2>2 DEF cleanupThrows
  <1>7. ASSUME NEW fd \in clients, NEW D \in SUBSET clients, idleThrows(fd, D)
        PROVE  TablesAgree' /\ Fresh'
    <2>1. \A d \in Fd \ clients : /\ marked'[d] = None /\ closing'[d] = None /\ told'[d] = None
                                   /\ closingAge'[d] = 0
      BY <1>1, <1>7 DEF idleThrows
    <2>2. \A d \in Fd \ clients : outbuf'[d] = 0
      <3>1. PICK T \in SUBSET clients : outbuf' = sendReply(T)
        BY <1>7 DEF idleThrows
      <3> QED BY <3>1, RepliesToClients DEF TableInv
    <2>3. pingSent' \subseteq clients
      BY <1>1, <1>7 DEF idleThrows
    <2> QED BY <1>0, <1>7, <2>1, <2>2, <2>3 DEF idleThrows
  <1> QED BY <1>3, <1>4, <1>5, <1>6, <1>7 DEF Throw

(* An empty server.                                                        *)
LEMMA TablesInit == Init => TableInv
  <1> SUFFICES ASSUME Init PROVE TableInv
    OBVIOUS
  <1>1. TypeOK
    <2>1. 0 \in 0..MaxLines /\ 0 \in 0..MAX_SENDQ + 1 /\ 0 \in Nat
      BY TimeAssumption
    <2>2. listening \in BOOLEAN /\ wantsOut \in BOOLEAN
      BY DEF Init
    <2> QED BY <2>1, <2>2 DEF Init, TypeOK
  <1>2. TablesAgree /\ Fresh
    BY DEF Init, TablesAgree, Fresh, isMarked, isClosing
  <1> QED BY <1>1, <1>2 DEF TableInv

(* Every step of the loop, and the stop, keeps the tables in step.         *)
LEMMA TablesNext ==
  ASSUME TableInv, [Next]_vars
  PROVE  TableInv'
  <1>0. TypeOK /\ TablesAgree
    BY DEF TableInv
  <1>1. CASE \/ refreshPollEvents
             \/ \E dt \in 0..MaxStep : Poll(dt)
             \/ \E fd \in Fd : acceptNewClient(fd)
             \/ acceptFails \/ acceptDropped
    BY <1>0, <1>1, TypePoll, TablesPoll DEF TableInv
  <1>2. CASE \E fd \in todo : Visit(fd)
    BY <1>0, <1>2, TypeVisit, TablesVisit DEF TableInv
  <1>3. CASE Line
    BY <1>0, <1>3, TypeLine, TablesLine DEF TableInv
  <1>4. CASE Send \/ eventsDone
    BY <1>0, <1>4, TypeLine, TablesSend DEF TableInv
  <1>5. CASE \/ \E fd \in Fd, S \in SUBSET clients : disconnect(fd, S)
             \/ cleanupDone \/ checkIdleClients \/ Stop
    BY <1>0, <1>5, TypeCleanup, TablesCleanup DEF TableInv
  <1>7. CASE Throw
    BY <1>0, <1>7, TypeThrow, TablesThrow DEF TableInv
  <1>6. CASE UNCHANGED vars
    BY <1>6 DEF vars, TableInv, TypeOK, TablesAgree, Fresh, isMarked, isClosing,
                visit, tables, connection, ages
  <1> QED BY <1>1, <1>2, <1>3, <1>4, <1>5, <1>6, <1>7 DEF Next, Loop

(* A descriptor is in all tables of the server or in none, whatever the    *)
(* kernel, the peers and the handlers do, and even if an iteration is cut  *)
(* short by an exception: one that is used again has no past.              *)
THEOREM TablesStayInStep == Spec => []TablesAgree
  <1>1. Init => TableInv
    BY TablesInit
  <1>2. TableInv /\ [Next]_vars => TableInv'
    BY TablesNext
  <1>3. TableInv => TablesAgree
    BY DEF TableInv
  <1> QED BY <1>1, <1>2, <1>3, PTL DEF Spec

-----------------------------------------------------------------------------
(* From here on no iteration is cut short: what a client was told is then  *)
(* what it is closed for, after a PING and in time.                        *)

(* In the phases with nothing to visit, and at the start of a visit, who   *)
(* was told is still in _closing, and with the same reason.                *)
LEMMA ToldIsClosing ==
  ASSUME LoopInv, NEW fd \in Fd,
         phase \in {"refresh", "poll", "accept", "idle"} \/ fd \in todo
  PROVE  told[fd] = closing[fd]
  BY DEF LoopInv, TableInv, TypeOK, Condemned, isClosing

(* A step that neither tells nor forgives keeps what clients were told.    *)
LEMMA CondemnedKept ==
  ASSUME LoopInv, told' = told, closing' = closing, todo' \subseteq todo,
         \A fd \in Fd : fd \in todo \/ marked'[fd] = marked[fd],
         phase \in {"events", "lines"}, phase' \in {"events", "lines", "cleanup"}
  PROVE  Condemned'
  BY DEF LoopInv, Condemned, isMarked, isClosing

(* Nor does one that hears of nobody and registers nobody break the        *)
(* promise of a PING.                                                      *)
LEMMA PingedKept ==
  ASSUME LoopInv, slack' = slack, registered' \ pingSent' \subseteq registered \ pingSent,
         \A fd \in Fd : \/ told'[fd] = told[fd] /\ (fd \in pingSent => fd \in pingSent')
                        \/ told'[fd] \notin {None, "Ping timeout"}
                        \/ told'[fd] = None /\ fd \notin registered',
         \A fd \in Fd : fd \notin registered' \/ idleAge'[fd] = idleAge[fd],
         phase' = "lines" /\ lines' > 0 => idleAge'[cur'] = 0
  PROVE  Pinged'
  BY DEF LoopInv, TableInv, TypeOK, TablesAgree, Pinged, None

(* A step that takes no time, tells nobody and takes back no mark keeps    *)
(* the clocks of those who stay within their limits.                       *)
LEMMA TimedKept ==
  ASSUME LoopInv, slack' = slack, clients' \subseteq clients,
         \A fd \in clients' : /\ told'[fd] = told[fd]
                              /\ connectAge'[fd] = connectAge[fd]
                              /\ closingAge'[fd] = closingAge[fd]
                              /\ fd \in registered => fd \in registered'
                              /\ marked[fd] # None => marked'[fd] # None
  PROVE  Timed'
  BY DEF LoopInv, Timed, InTime, isMarked

(* The clock of a client that has just been told is within its limit.      *)
LEMMA ClosingStarts ==
  0 <= TIMEOUT_CLOSING + MaxStep /\ 0 <= TIMEOUT_CLOSING + MaxStep + MaxStep
  BY TimeAssumption

(* refreshPollEvents only adds marks, and poll() lets time pass.           *)
LEMMA ClosingPoll ==
  ASSUME LoopInv,
         \/ refreshPollEvents
         \/ \E dt \in 0..MaxStep : Poll(dt)
         \/ \E fd \in Fd : acceptNewClient(fd)
         \/ acceptFails \/ acceptDropped
  PROVE  Condemned' /\ Pinged' /\ Timed'
  <1>0. TypeOK /\ TablesAgree /\ Fresh /\ Condemned /\ Pinged /\ Timed
    BY DEF LoopInv, TableInv
  <1>1. phase \in {"refresh", "poll", "accept"} /\ phase' # "idle" /\ phase' # "lines"
    BY DEF refreshPollEvents, Poll, pollReady, pollTimeout, acceptNewClient, acceptFails,
           acceptDropped
  <1>2. \A fd \in Fd : told[fd] = closing[fd]
    BY <1>1, ToldIsClosing
  <1>3. told' = told /\ closing' = closing
    BY DEF refreshPollEvents, Poll, pollReady, pollTimeout, acceptNewClient, acceptFails,
           acceptDropped, tables, connection
  <1>4. Condemned'
    BY <1>1, <1>2, <1>3 DEF Condemned, isClosing
  <1>5. CASE refreshPollEvents
    <2>1. slack' = slack
      BY <1>5 DEF refreshPollEvents, slack
    <2>2. Pinged'
      BY <1>1, <1>5, <2>1, PingedKept DEF refreshPollEvents, connection, ages
    <2>3. Timed'
      <3>1. \A fd \in Fd : marked[fd] # None => marked'[fd] # None
        BY <1>5 DEF refreshPollEvents, None
      <3>2. clients \subseteq Fd
        BY <1>0 DEF TypeOK
      <3> QED BY <1>5, <2>1, <3>1, <3>2, TimedKept DEF refreshPollEvents, connection, ages
    <2> QED BY <1>4, <2>2, <2>3
  <1>6. ASSUME NEW dt \in 0..MaxStep, Poll(dt)
        PROVE  Pinged' /\ Timed'
    <2>1. /\ Elapse(dt) /\ registered' = registered /\ pingSent' = pingSent /\ told' = told
          /\ marked' = marked /\ clients' = clients
          /\ phase = "poll" /\ phase' \in {"accept", "events", "cleanup"}
      BY <1>6 DEF Poll, pollReady, pollTimeout, tables, connection
    <2>2. slack = 0 /\ slack' = MaxStep /\ MaxStep \in Nat
      BY <2>1, TimeAssumption DEF slack
    <2>3. \A fd \in Fd : /\ connectAge'[fd] <= connectAge[fd] + MaxStep
                         /\ idleAge'[fd] <= idleAge[fd] + MaxStep
                         /\ closingAge'[fd] <= closingAge[fd] + MaxStep
                         /\ connectAge'[fd] \in Nat /\ connectAge[fd] \in Nat
                         /\ idleAge'[fd] \in Nat /\ idleAge[fd] \in Nat
                         /\ closingAge'[fd] \in Nat /\ closingAge[fd] \in Nat
      <3>1. /\ connectAge' \in [Fd -> Nat] /\ idleAge' \in [Fd -> Nat]
            /\ closingAge' \in [Fd -> Nat]
            /\ \A fd \in Fd : /\ connectAge'[fd] <= connectAge[fd] + MaxStep
                              /\ idleAge'[fd] <= idleAge[fd] + MaxStep
                              /\ closingAge'[fd] <= closingAge[fd] + MaxStep
        BY <1>0, <2>1, ClocksRun
      <3> QED BY <1>0, <3>1 DEF TypeOK
    <2>4. Pinged'
      <3> DEFINE half == TIMEOUT_SECONDS \div 2
      <3>1. registered \subseteq Fd /\ half \in Nat
        BY <1>0, TimeAssumption DEF TypeOK
      <3>2. \A fd \in registered \ pingSent : told[fd] = None => idleAge[fd] <= half + slack
        BY <1>0 DEF Pinged
      <3> HIDE DEF half
      <3>3. \A fd \in registered' \ pingSent' :
              told'[fd] = None => idleAge'[fd] <= half + slack'
        BY <2>1, <2>2, <2>3, <3>1, <3>2
      <3> QED BY <1>0, <2>1, <3>3 DEF Pinged, half
    <2>5. Timed'
      <3>1. clients \subseteq Fd /\ TIMEOUT_CLOSING \in Nat /\ TIMEOUT_REGISTRATION \in Nat
        BY <1>0, TimeAssumption DEF TypeOK
      <3> QED BY <1>0, <2>1, <2>2, <2>3, <3>1 DEF Timed, InTime, isMarked
    <2> QED BY <2>4, <2>5
  <1>7. CASE (\E fd \in Fd : acceptNewClient(fd)) \/ acceptFails \/ acceptDropped
    <2>1. slack' = slack /\ slack = MaxStep
      BY <1>7 DEF acceptNewClient, acceptFails, acceptDropped, slack
    <2>2. Pinged'
      BY <1>1, <1>7, <2>1, PingedKept
      DEF acceptNewClient, acceptFails, acceptDropped, connection, ages
    <2>3. \A fd \in Fd \ clients : told[fd] = None /\ connectAge[fd] = 0
      BY <1>0 DEF Fresh
    <2>4. Timed'
      <3>1. /\ told' = told /\ registered' = registered /\ marked' = marked
            /\ connectAge' = connectAge /\ closingAge' = closingAge
            /\ clients' \subseteq Fd
        BY <1>0, <1>7 DEF acceptNewClient, acceptFails, acceptDropped, tables, connection, ages,
                          TypeOK
      <3> QED BY <1>0, <2>1, <2>3, <3>1, TimeAssumption DEF Timed, InTime, isMarked
    <2> QED BY <1>4, <2>2, <2>4
  <1> QED BY <1>4, <1>5, <1>6, <1>7

(* A mark is never taken back by marking, and changes for no one else.     *)
LEMMA MarksGrow ==
  ASSUME TypeOK, NEW fd \in Fd, NEW reason, reason # None, markForDisconnection(fd, reason)
  PROVE  /\ \A d \in Fd : marked[d] # None => marked'[d] = marked[d]
         /\ \A d \in Fd \ {fd} : marked'[d] = marked[d]
         /\ marked'[fd] = IF marked[fd] # None THEN marked[fd] ELSE reason
  BY DEF TypeOK, markForDisconnection, isMarked

(* A client that is visited and not closing was told nothing: it may be    *)
(* heard of again, and marked for what its socket does.                    *)
LEMMA ClosingVisit ==
  ASSUME LoopInv, NEW fd \in todo, Visit(fd)
  PROVE  Condemned' /\ Pinged' /\ Timed'
  <1>0. /\ TypeOK /\ TablesAgree /\ Fresh /\ Condemned /\ Pinged /\ Timed
        /\ fd \in Fd /\ clients \subseteq Fd /\ told[fd] = closing[fd]
    <2>1. TypeOK /\ TablesAgree /\ Fresh /\ Condemned /\ Pinged /\ Timed
      BY DEF LoopInv, TableInv
    <2>2. fd \in Fd /\ clients \subseteq Fd
      BY <2>1 DEF TypeOK
    <2> QED BY <2>1, <2>2, ToldIsClosing
  <1>1. CASE connectionError(fd)
    <2>1. /\ \A d \in Fd : marked[d] # None => marked'[d] = marked[d]
          /\ \A d \in Fd \ {fd} : marked'[d] = marked[d]
      BY <1>0, <1>1, MarksGrow DEF connectionError, None
    <2>2. phase = "events" /\ phase' = "events" /\ slack' = slack
      BY <1>1 DEF connectionError, slack
    <2>3. Condemned'
      BY <1>0, <1>1, <2>1, <2>2, CondemnedKept DEF connectionError, connection
    <2>4. Pinged'
      BY <1>1, <2>2, PingedKept DEF connectionError, connection, ages
    <2>5. Timed'
      BY <1>0, <1>1, <2>1, <2>2, TimedKept DEF connectionError, connection, ages
    <2> QED BY <2>3, <2>4, <2>5
  <1>2. ASSUME NEW out, NEW n, Handle(fd, out, n),
               \A d \in Fd : marked[d] # None => marked'[d] = marked[d],
               \A d \in Fd \ {fd} : marked'[d] = marked[d]
        PROVE  Condemned' /\ Timed'
    <2>1. phase = "events" /\ phase' = "lines" /\ slack' = slack
      BY <1>2 DEF Handle, slack
    <2>2. Condemned'
      BY <1>0, <1>2, <2>1, CondemnedKept DEF Handle
    <2>3. Timed'
      BY <1>0, <1>2, <2>1, TimedKept DEF Handle
    <2> QED BY <2>2, <2>3
  <1>3. ASSUME NEW out, Handle(fd, out, 0), UNCHANGED <<pingSent, idleAge>>
        PROVE  Pinged'
    <2>1. slack' = slack /\ lines' = 0 /\ told' = told /\ registered' = registered
      BY <1>3 DEF Handle, slack
    <2>2. ~ (lines' > 0)
      BY <2>1
    <2> QED BY <1>3, <2>1, <2>2, PingedKept
  <1>4. ASSUME NEW out, NEW n, Handle(fd, out, n), updateLastActivity(fd), ~isClosing(fd)
        PROVE  Pinged'
    <2>1. /\ slack' = slack /\ told' = told /\ registered' = registered /\ cur' = fd
          /\ slack = MaxStep
      BY <1>4 DEF Handle, slack
    <2>2. /\ told[fd] = None /\ idleAge'[fd] = 0 /\ pingSent' = pingSent \ {fd}
          /\ \A d \in Fd \ {fd} : idleAge'[d] = idleAge[d]
      BY <1>0, <1>4 DEF updateLastActivity, isClosing, TypeOK
    <2> DEFINE half == TIMEOUT_SECONDS \div 2
    <2>3. half \in Nat /\ MaxStep \in Nat
      BY TimeAssumption
    <2>4. \A d \in registered \ pingSent : told[d] = None => idleAge[d] <= half + slack
      BY <1>0 DEF Pinged
    <2>5. registered \subseteq Fd
      BY <1>0 DEF TypeOK
    <2> HIDE DEF half
    <2>6. \A d \in registered' \ pingSent' : told'[d] = None => idleAge'[d] <= half + slack'
      BY <2>1, <2>2, <2>3, <2>4, <2>5
    <2> QED BY <1>0, <2>1, <2>2, <2>6 DEF Pinged, half, None
  <1>5. CASE writable(fd)
    BY <1>2, <1>3, <1>5 DEF writable
  <1>6. ASSUME NEW out \in BOOLEAN, Receive(fd, out)
        PROVE  Condemned' /\ Pinged' /\ Timed'
    <2>2. ASSUME NEW reason \in {"Receive error", "Client disconnected", "Internal error", Blank},
                 receiveFails(fd, out, reason)
          PROVE  Condemned' /\ Pinged' /\ Timed'
      <3>1. /\ \A d \in Fd : marked[d] # None => marked'[d] = marked[d]
            /\ \A d \in Fd \ {fd} : marked'[d] = marked[d]
        BY <1>0, <2>2, MarksGrow DEF receiveFails, None, Blank
      <3> QED BY <1>2, <1>3, <2>2, <3>1 DEF receiveFails
    <2>3. CASE receiveIgnored(fd, out)
      BY <1>2, <1>3, <2>3 DEF receiveIgnored
    <2>4. ASSUME NEW n \in 0..MaxLines, receiveData(fd, out, n)
          PROVE  Condemned' /\ Pinged' /\ Timed'
      BY <1>2, <1>4, <2>4 DEF receiveData
    <2>5. ASSUME NEW reason \in {"Input buffer overflow", "Internal error", Blank},
                 receiveOverflow(fd, out, reason)
          PROVE  Condemned' /\ Pinged' /\ Timed'
      <3>1. /\ \A d \in Fd : marked[d] # None => marked'[d] = marked[d]
            /\ \A d \in Fd \ {fd} : marked'[d] = marked[d]
        BY <1>0, <2>5, MarksGrow DEF receiveOverflow, None, Blank
      <3> QED BY <1>2, <1>4, <2>5, <3>1 DEF receiveOverflow
    <2> QED BY <1>6, <2>2, <2>3, <2>4, <2>5 DEF Receive
  <1> QED BY <1>1, <1>5, <1>6 DEF Visit

(* Lines are only read of a client that was told nothing and has just been *)
(* heard of.                                                               *)
LEMMA ClosingLine ==
  ASSUME LoopInv, Line
  PROVE  Condemned' /\ Pinged' /\ Timed'
  <1>0. TypeOK /\ TablesAgree /\ Fresh /\ Condemned /\ Pinged /\ Timed
    BY DEF LoopInv, TableInv
  <1>1. /\ phase = "lines" /\ lines > 0 /\ ~isMarked(cur) /\ cur \in todo /\ cur \in Fd
        /\ told[cur] = None /\ idleAge[cur] = 0 /\ clients \subseteq Fd
    <2>1. moreLines
      BY DEF Line, lineAnswers, lineRegisters, lineCloses, lineThrows
    <2>2. cur \in todo /\ cur \in Fd /\ clients \subseteq Fd
      BY <1>0, <2>1 DEF moreLines, TablesAgree, TypeOK
    <2>3. told[cur] = None
      BY <2>1, <2>2, ToldIsClosing DEF moreLines, isClosing
    <2> QED BY <1>0, <2>1, <2>2, <2>3 DEF moreLines, Pinged
  <1>2. ASSUME phase' = phase, lines' = lines - 1, cur' = cur,
               UNCHANGED <<clients, closing, marked, told, todo, pingSent, connectAge, idleAge,
                           closingAge>>,
               registered \subseteq registered', registered' \subseteq registered \cup {cur}
        PROVE  Condemned' /\ Pinged' /\ Timed'
    <2>1. slack' = slack /\ slack = MaxStep
      BY <1>1, <1>2 DEF slack
    <2>2. Condemned'
      BY <1>1, <1>2, CondemnedKept
    <2>3. Pinged'
      <3> DEFINE half == TIMEOUT_SECONDS \div 2
      <3>1. half \in Nat /\ MaxStep \in Nat
        BY TimeAssumption
      <3>2. \A d \in registered \ pingSent : told[d] = None => idleAge[d] <= half + slack
        BY <1>0 DEF Pinged
      <3> HIDE DEF half
      <3>3. \A d \in registered' \ pingSent' : told'[d] = None => idleAge'[d] <= half + slack'
        BY <1>1, <1>2, <2>1, <3>1, <3>2
      <3> QED BY <1>0, <1>1, <1>2, <3>3 DEF Pinged, half
    <2>4. Timed'
      BY <1>1, <1>2, <2>1, TimedKept
    <2> QED BY <2>2, <2>3, <2>4
  <1>3. ASSUME NEW S, lineAnswers(S)
        PROVE  Condemned' /\ Pinged' /\ Timed'
    BY <1>2, <1>3 DEF lineAnswers, tables, ages
  <1>4. CASE lineRegisters
    BY <1>2, <1>4 DEF lineRegisters, tables, ages
  <1>5. ASSUME NEW reason \in {"Client Quit", "Bad Password"}, lineCloses(reason)
        PROVE  Condemned' /\ Pinged' /\ Timed'
    <2>1. /\ closing'[cur] = reason /\ told'[cur] = reason /\ closingAge'[cur] = 0
          /\ \A d \in Fd \ {cur} : /\ closing'[d] = closing[d] /\ told'[d] = told[d]
                                   /\ closingAge'[d] = closingAge[d]
      BY <1>1, <1>5 DEF lineCloses, disconnectAfterFlush
    <2>2. /\ slack' = slack /\ slack = MaxStep /\ phase' = phase /\ todo' = todo /\ cur' = cur
          /\ UNCHANGED <<marked, clients, registered, pingSent, connectAge, idleAge>>
      BY <1>1, <1>5 DEF lineCloses, slack
    <2>3. Condemned'
      BY <1>0, <1>1, <2>1, <2>2 DEF Condemned, isMarked, isClosing, None
    <2>4. Pinged'
      <3>1. told'[cur] \notin {None, "Ping timeout"}
        BY <2>1 DEF None
      <3> QED BY <1>1, <2>1, <2>2, <3>1, PingedKept
    <2>5. Timed'
      <3>2. told'[cur] # None
        BY <2>1 DEF None
      <3>3. /\ closingAge'[cur] <= TIMEOUT_CLOSING + slack'
            /\ closingAge'[cur] <= TIMEOUT_CLOSING + slack' + MaxStep
        BY <2>1, <2>2, ClosingStarts
      <3> QED BY <1>0, <1>1, <2>1, <2>2, <3>2, <3>3 DEF Timed, InTime, isMarked
    <2> QED BY <2>3, <2>4, <2>5
  <1>6. CASE lineThrows
    <2>1. /\ \A d \in Fd : marked[d] # None => marked'[d] = marked[d]
          /\ \A d \in Fd \ {cur} : marked'[d] = marked[d]
      BY <1>0, <1>1, <1>6, MarksGrow DEF lineThrows, None
    <2>2. /\ slack' = slack /\ phase' = "events" /\ todo' = todo \ {cur}
          /\ UNCHANGED <<clients, closing, told, registered, pingSent, connectAge, idleAge,
                         closingAge>>
      BY <1>1, <1>6 DEF lineThrows, slack, connection, ages
    <2>3. Condemned'
      BY <1>1, <2>1, <2>2, CondemnedKept
    <2>4. Pinged'
      BY <2>2, PingedKept
    <2>5. Timed'
      BY <1>1, <2>1, <2>2, TimedKept
    <2> QED BY <2>3, <2>4, <2>5
  <1> QED BY <1>3, <1>4, <1>5, <1>6 DEF Line

(* A visit ends with the client still closing, or marked for the reason it *)
(* was told.                                                               *)
LEMMA ClosingSend ==
  ASSUME LoopInv, Send \/ eventsDone
  PROVE  Condemned' /\ Pinged' /\ Timed'
  <1>0. TypeOK /\ TablesAgree /\ Condemned /\ clients \subseteq Fd
    <2>1. TypeOK /\ TablesAgree /\ Condemned
      BY DEF LoopInv, TableInv
    <2> QED BY <2>1 DEF TypeOK
  <1>1. EndVisit => /\ phase = "lines" /\ cur \in todo /\ cur \in Fd /\ told[cur] = closing[cur]
                    /\ phase' = "events" /\ todo' = todo \ {cur} /\ slack' = slack
                    /\ UNCHANGED <<clients, told, registered, pingSent, connectAge, idleAge,
                                   closingAge>>
    <2>1. EndVisit => phase = "lines" /\ cur \in todo /\ cur \in Fd
      BY <1>0 DEF EndVisit, TablesAgree, TypeOK
    <2>2. EndVisit => told[cur] = closing[cur]
      BY <2>1, ToldIsClosing
    <2> QED BY <2>1, <2>2 DEF EndVisit, slack, ages
  <1>2. ASSUME EndVisit, \A d \in Fd : marked[d] # None => marked'[d] = marked[d]
        PROVE  Pinged' /\ Timed'
    <2>1. Pinged'
      BY <1>1, <1>2, PingedKept
    <2>2. Timed'
      BY <1>0, <1>1, <1>2, TimedKept
    <2> QED BY <2>1, <2>2
  <1>3. CASE noSend
    <2>1. Condemned'
      BY <1>1, <1>3, CondemnedKept DEF noSend
    <2> QED BY <1>2, <1>3, <2>1 DEF noSend
  <1>4. CASE sendFails
    <2>1. /\ \A d \in Fd : marked[d] # None => marked'[d] = marked[d]
          /\ \A d \in Fd \ {cur} : marked'[d] = marked[d]
      BY <1>0, <1>1, <1>4, MarksGrow DEF sendFails, None
    <2>2. Condemned'
      BY <1>1, <1>4, <2>1, CondemnedKept DEF sendFails
    <2> QED BY <1>2, <1>4, <2>1, <2>2 DEF sendFails
  <1>7. CASE sendThrows
    <2>1. /\ \A d \in Fd : marked[d] # None => marked'[d] = marked[d]
          /\ \A d \in Fd \ {cur} : marked'[d] = marked[d]
      BY <1>0, <1>1, <1>7, MarksGrow DEF sendThrows, None
    <2>2. Condemned'
      BY <1>1, <1>7, <2>1, CondemnedKept DEF sendThrows
    <2> QED BY <1>2, <1>7, <2>1, <2>2 DEF sendThrows
  <1>5. ASSUME NEW n \in 1..MAX_SENDQ + 1, sendData(n)
        PROVE  Condemned' /\ Pinged' /\ Timed'
    <2>0. EndVisit /\ maySend
      BY <1>5 DEF sendData
    <2>1. CASE n = outbuf[cur] /\ isClosing(cur)
      <3>1. /\ \A d \in Fd : marked[d] # None => marked'[d] = marked[d]
            /\ \A d \in Fd \ {cur} : marked'[d] = marked[d]
            /\ marked'[cur] = closing[cur]
        BY <1>0, <1>1, <1>5, <2>0, <2>1, MarksGrow DEF sendData, maySend, isMarked, isClosing
      <3>2. closing' = [closing EXCEPT ![cur] = None]
        BY <1>5, <2>1 DEF sendData
      <3>3. closing'[cur] = None /\ \A d \in Fd \ {cur} : closing'[d] = closing[d]
        BY <1>0, <1>1, <2>0, <3>2 DEF TypeOK
      <3>4. Condemned'
        BY <1>0, <1>1, <2>0, <3>1, <3>3 DEF Condemned, isMarked, isClosing
      <3> QED BY <1>2, <2>0, <3>1, <3>4
    <2>2. CASE ~ (n = outbuf[cur] /\ isClosing(cur))
      <3>1. UNCHANGED <<marked, closing>>
        BY <1>5, <2>2 DEF sendData
      <3>2. Condemned'
        BY <1>1, <2>0, <3>1, CondemnedKept
      <3> QED BY <1>2, <2>0, <3>1, <3>2
    <2> QED BY <2>1, <2>2
  <1>6. CASE eventsDone
    <2>1. /\ phase = "events" /\ phase' = "cleanup" /\ slack' = slack
          /\ UNCHANGED <<clients, closing, marked, told, todo, registered, pingSent, connectAge,
                         idleAge, closingAge>>
      BY <1>6 DEF eventsDone, slack, tables, connection, ages
    <2>2. Condemned'
      BY <2>1, CondemnedKept
    <2>3. Pinged'
      BY <2>1, PingedKept
    <2>4. Timed'
      BY <2>1, TimedKept
    <2> QED BY <2>2, <2>3, <2>4
  <1> QED BY <1>3, <1>4, <1>5, <1>6, <1>7 DEF Send

(* After the cleanup nothing is marked.                                    *)
LEMMA ClosingCleanup ==
  ASSUME LoopInv,
         (\E fd \in Fd, S \in SUBSET clients : disconnect(fd, S)) \/ cleanupDone \/ Stop
  PROVE  Condemned' /\ Pinged' /\ Timed'
  <1>0. TypeOK /\ TablesAgree /\ Condemned /\ Pinged /\ Timed
    BY DEF LoopInv, TableInv
  <1>1. ASSUME NEW fd \in Fd, NEW S, disconnect(fd, S)
        PROVE  Condemned' /\ Pinged' /\ Timed'
    <2>1. /\ phase = "cleanup" /\ phase' = "cleanup" /\ slack' = slack
          /\ clients' = clients \ {fd} /\ registered' = registered \ {fd}
          /\ pingSent' = pingSent \ {fd} /\ todo' = todo
      BY <1>1 DEF disconnect, slack
    <2>2. /\ marked'[fd] = None /\ closing'[fd] = None /\ told'[fd] = None
          /\ \A d \in Fd \ {fd} : /\ marked'[d] = marked[d] /\ closing'[d] = closing[d]
                                  /\ told'[d] = told[d] /\ connectAge'[d] = connectAge[d]
                                  /\ idleAge'[d] = idleAge[d] /\ closingAge'[d] = closingAge[d]
      BY <1>0, <1>1 DEF disconnect, eraseClosing, TypeOK
    <2>3. Condemned'
      BY <1>0, <2>1, <2>2 DEF Condemned, isMarked, isClosing
    <2>4. Pinged'
      BY <2>1, <2>2, PingedKept
    <2>5. Timed'
      <3>1. \A d \in clients' : d \in Fd \ {fd}
        BY <1>0, <2>1 DEF TypeOK
      <3> QED BY <2>1, <2>2, <3>1, TimedKept
    <2> QED BY <2>3, <2>4, <2>5
  <1>2. CASE cleanupDone
    <2>1. /\ phase = "cleanup" /\ phase' = "idle" /\ slack' = slack
          /\ \A fd \in Fd : ~isMarked(fd)
          /\ UNCHANGED <<clients, closing, marked, told, todo, registered, pingSent, connectAge,
                         idleAge, closingAge>>
      BY <1>2 DEF cleanupDone, slack, tables, connection, ages
    <2>2. Condemned'
      BY <1>0, <2>1 DEF Condemned, isMarked, isClosing
    <2>3. Pinged'
      BY <2>1, PingedKept
    <2>4. Timed'
      BY <2>1, TimedKept
    <2> QED BY <2>2, <2>3, <2>4
  <1>3. CASE Stop
    <2>1. Condemned'
      BY <1>3 DEF Stop, Condemned, isMarked, isClosing
    <2>2. Pinged'
      BY <1>3 DEF Stop, Pinged, None
    <2>3. Timed'
      BY <1>3 DEF Stop, Timed
    <2> QED BY <2>1, <2>2, <2>3
  <1> QED BY <1>1, <1>2, <1>3

(* checkIdleClients finds every clock over its limit, and tells nobody of  *)
(* a timeout who was not sent a PING: half the timeout and one iteration   *)
(* are less than the whole.                                                *)
LEMMA ClosingIdle ==
  ASSUME LoopInv, checkIdleClients
  PROVE  Condemned' /\ Pinged' /\ Timed'
  <1> DEFINE half == TIMEOUT_SECONDS \div 2
  <1>0. TypeOK /\ TablesAgree /\ Condemned /\ Pinged /\ Timed
    BY DEF LoopInv, TableInv
  <1>1. /\ clients \subseteq Fd /\ registered \subseteq clients
        /\ idleAge \in [Fd -> Nat] /\ connectAge \in [Fd -> Nat] /\ closingAge \in [Fd -> Nat]
    BY <1>0 DEF TypeOK, TablesAgree
  <1>2. /\ phase = "idle" /\ phase' = "refresh" /\ slack = MaxStep /\ slack' = 0
        /\ clients' = clients /\ registered' = registered /\ pingSent' = pingSent \cup quiet
        /\ connectAge' = connectAge /\ idleAge' = idleAge
    BY DEF checkIdleClients, slack
  <1>3. \A fd \in Fd : told[fd] = closing[fd] /\ marked[fd] = None
    BY <1>0, <1>2, ToldIsClosing DEF Condemned, isMarked
  <1>4. \A fd \in silent : /\ told'[fd] = "Ping timeout" /\ closing'[fd] = "Ping timeout"
                           /\ closingAge'[fd] = 0
    BY <1>1 DEF checkIdleClients, disconnectAfterFlush, silent, Open
  <1>5. \A fd \in Fd \ silent : /\ told'[fd] = told[fd] /\ closing'[fd] = closing[fd]
                                /\ closingAge'[fd] = closingAge[fd]
    BY DEF checkIdleClients, disconnectAfterFlush
  <1>6. silent \subseteq registered /\ \A fd \in silent : told[fd] = None
    BY <1>1, <1>3 DEF silent, Open, isClosing
  <1>7. Condemned'
    <2>1. \A fd \in Fd : told'[fd] = closing'[fd]
      BY <1>3, <1>4, <1>5
    <2> QED BY <1>2, <2>1 DEF Condemned, isClosing
  <1>8. half \in Nat /\ half + MaxStep <= TIMEOUT_SECONDS /\ TIMEOUT_SECONDS \in Nat /\ MaxStep \in Nat
    BY TimeAssumption, StepAssumption
  <1>9. Pinged'
    <2>1. \A fd \in registered \ pingSent : told[fd] = None => idleAge[fd] <= half + MaxStep
      BY <1>0, <1>2 DEF Pinged
    <2>2. \A fd \in silent : idleAge[fd] > TIMEOUT_SECONDS
      BY DEF silent
    <2>3. \A fd \in registered \ (silent \cup pingSent \cup quiet) :
            told[fd] = None => ~ (idleAge[fd] > half)
      BY <1>1, <1>3 DEF quiet, Open, isClosing
    <2> HIDE DEF half
    <2>4. silent \subseteq pingSent
      BY <1>1, <1>6, <1>8, <2>1, <2>2
    <2>5. \A fd \in registered \ (silent \cup pingSent \cup quiet) :
            told[fd] = None => idleAge[fd] <= half + 0
      BY <1>1, <1>8, <2>3
    <2>6. \A fd \in registered' \ pingSent' : told'[fd] = None => idleAge'[fd] <= half + slack'
      BY <1>1, <1>2, <1>5, <2>4, <2>5
    <2>7. \A fd \in Fd : told'[fd] = "Ping timeout" => fd \in pingSent'
      BY <1>0, <1>2, <1>5, <2>4 DEF Pinged
    <2> QED BY <1>2, <2>6, <2>7 DEF Pinged, half
  <1>10. Timed'
    <2>0. TIMEOUT_CLOSING \in Nat /\ TIMEOUT_REGISTRATION \in Nat /\ MaxStep \in Nat
      BY TimeAssumption
    <2>1. \A fd \in clients :
            IF told[fd] # None THEN closingAge[fd] <= TIMEOUT_CLOSING + MaxStep
            ELSE fd \notin registered => connectAge[fd] <= TIMEOUT_REGISTRATION + MaxStep
      BY <1>0, <1>1, <1>2, <1>3 DEF Timed, InTime, isMarked
    <2>2. \A fd \in clients : told[fd] # None /\ closingAge[fd] > TIMEOUT_CLOSING
            => marked'[fd] # None
      <3>1. \A fd \in clients : told[fd] # None /\ closingAge[fd] > TIMEOUT_CLOSING
              => fd \in expired /\ fd \notin unfinished
        BY <1>1, <1>3 DEF unfinished, expired, Open, isClosing
      <3>2. \A fd \in Fd : fd \in expired /\ fd \notin unfinished => marked'[fd] = closing[fd]
        BY <1>3 DEF checkIdleClients, isMarked
      <3> QED BY <1>1, <1>3, <3>1, <3>2
    <2>3. \A fd \in clients \ registered : told[fd] = None /\ connectAge[fd] > TIMEOUT_REGISTRATION
            => marked'[fd] # None
      <3>1. \A fd \in clients \ registered :
              told[fd] = None /\ connectAge[fd] > TIMEOUT_REGISTRATION
              => fd \in unfinished /\ fd \notin expired
        BY <1>1, <1>3 DEF unfinished, expired, Open, isClosing
      <3>2. \A fd \in Fd : fd \in unfinished /\ fd \notin expired
              => marked'[fd] = "Registration timeout"
        BY <1>3 DEF checkIdleClients, isMarked
      <3> QED BY <1>1, <3>1, <3>2 DEF None
    <2>4. \A fd \in silent : closingAge'[fd] = 0 /\ told'[fd] # None
      BY <1>4 DEF None
    <2>5. \A fd \in clients \ silent : told'[fd] = told[fd] /\ closingAge'[fd] = closingAge[fd]
      BY <1>1, <1>5
    <2>6. \A fd \in clients : told'[fd] # None =>
            InTime(fd, closingAge[fd], TIMEOUT_CLOSING)'
      BY <1>1, <1>2, <2>0, <2>1, <2>2, <2>4, <2>5 DEF InTime, isMarked
    <2>7. \A fd \in clients \ registered : told'[fd] = None =>
            InTime(fd, connectAge[fd], TIMEOUT_REGISTRATION)'
      BY <1>1, <1>2, <2>0, <2>1, <2>3, <2>4, <2>5 DEF InTime, isMarked
    <2> QED BY <1>2, <2>6, <2>7 DEF Timed
  <1> QED BY <1>7, <1>9, <1>10

(* An empty server owes nobody anything.                                   *)
LEMMA LoopInit == Init => LoopInv
  <1> SUFFICES ASSUME Init PROVE LoopInv
    OBVIOUS
  <1>1. TableInv
    BY TablesInit
  <1>2. Condemned
    BY DEF Init, Condemned, isMarked, isClosing
  <1>3. Pinged
    BY DEF Init, Pinged, None
  <1>4. Timed
    BY DEF Init, Timed
  <1> QED BY <1>1, <1>2, <1>3, <1>4 DEF LoopInv

(* Where no phase throws, no iteration is given up.                        *)
LEMMA NothingThrown ==
  ASSUME Throwing = {}
  PROVE  ~Throw
  BY DEF Throw, refreshThrows, errorThrows, catchThrows, cleanupThrows, idleThrows, GiveUp

(* Every step of an iteration that is not cut short keeps the whole        *)
(* invariant.                                                              *)
LEMMA LoopNext ==
  ASSUME LoopInv, [Next]_vars, Throwing = {}
  PROVE  LoopInv'
  <1>0. TableInv'
    BY TablesNext DEF LoopInv
  <1>1. CASE \/ refreshPollEvents
             \/ \E dt \in 0..MaxStep : Poll(dt)
             \/ \E fd \in Fd : acceptNewClient(fd)
             \/ acceptFails \/ acceptDropped
    BY <1>0, <1>1, ClosingPoll DEF LoopInv
  <1>2. CASE \E fd \in todo : Visit(fd)
    BY <1>0, <1>2, ClosingVisit DEF LoopInv
  <1>3. CASE Line
    BY <1>0, <1>3, ClosingLine DEF LoopInv
  <1>4. CASE Send \/ eventsDone
    BY <1>0, <1>4, ClosingSend DEF LoopInv
  <1>5. CASE (\E fd \in Fd, S \in SUBSET clients : disconnect(fd, S)) \/ cleanupDone \/ Stop
    BY <1>0, <1>5, ClosingCleanup DEF LoopInv
  <1>6. CASE checkIdleClients
    BY <1>0, <1>6, ClosingIdle DEF LoopInv
  <1>7. CASE UNCHANGED vars
    <2>1. UNCHANGED <<phase, todo, cur, lines, clients, marked, closing, registered, pingSent,
                      told, connectAge, idleAge, closingAge>>
      BY <1>7 DEF vars, visit, tables, connection, ages
    <2>2. slack' = slack
      BY <2>1 DEF slack
    <2>3. Condemned'
      BY <2>1 DEF LoopInv, Condemned, isMarked, isClosing
    <2>4. Pinged'
      BY <2>1, <2>2 DEF LoopInv, Pinged
    <2>5. Timed'
      BY <2>1, <2>2, TimedKept
    <2> QED BY <1>0, <2>3, <2>4, <2>5 DEF LoopInv
  <1>8. ~Throw
    BY NothingThrown
  <1> QED BY <1>1, <1>2, <1>3, <1>4, <1>5, <1>6, <1>7, <1>8 DEF Next, Loop

(* What the runs check follows from the inductive invariant.               *)
LEMMA LoopPromises == LoopInv => ToldIsClosed /\ PingBeforeTimeout /\ DeadlinesHold
  <1> SUFFICES ASSUME LoopInv PROVE ToldIsClosed /\ PingBeforeTimeout /\ DeadlinesHold
    OBVIOUS
  <1>1. TypeOK /\ Condemned /\ Pinged /\ Timed /\ clients \subseteq Fd
    <2>1. TypeOK /\ Condemned /\ Pinged /\ Timed
      BY DEF LoopInv, TableInv
    <2> QED BY <2>1 DEF TypeOK
  <1>2. ToldIsClosed
    BY <1>1 DEF ToldIsClosed, Condemned, Cause
  <1>3. PingBeforeTimeout
    BY <1>1 DEF PingBeforeTimeout, Pinged
  <1>4. DeadlinesHold
    <2>1. slack \in 0..MaxStep /\ MaxStep \in Nat
      BY TimeAssumption DEF slack
    <2>2. connectAge \in [Fd -> Nat] /\ closingAge \in [Fd -> Nat]
      BY <1>1 DEF TypeOK
    <2>3. ASSUME NEW fd \in clients, NEW age \in Nat, NEW limit \in Nat, InTime(fd, age, limit)
          PROVE  age <= limit + 2 * MaxStep
      BY <2>1, <2>3 DEF InTime
    <2>4. TIMEOUT_CLOSING \in Nat /\ TIMEOUT_REGISTRATION \in Nat
      BY TimeAssumption
    <2> QED BY <1>1, <2>2, <2>3, <2>4 DEF DeadlinesHold, Timed
  <1> QED BY <1>2, <1>3, <1>4

(* As long as no iteration is cut short by an exception, the promises of   *)
(* the deferred disconnection hold together.                               *)
LEMMA LoopInvariant ==
  ASSUME Throwing = {}
  PROVE  Spec => []LoopInv
  <1>1. Init => LoopInv
    BY LoopInit
  <1>2. LoopInv /\ [Next]_vars => LoopInv'
    BY LoopNext
  <1> QED BY <1>1, <1>2, PTL DEF Spec

(* A client that was told why its link closes is closed for that reason.   *)
THEOREM ToldStaysTold == Throwing = {} => (Spec => []ToldIsClosed)
  <1> SUFFICES ASSUME Throwing = {} PROVE Spec => []ToldIsClosed
    OBVIOUS
  <1>1. LoopInv => ToldIsClosed
    BY LoopPromises
  <1> QED BY <1>1, LoopInvariant, PTL

(* No ping timeout without a PING, if no stall of the process is as long   *)
(* as half the timeout (StepAssumption).                                   *)
THEOREM PingComesFirst == Throwing = {} => (Spec => []PingBeforeTimeout)
  <1> SUFFICES ASSUME Throwing = {} PROVE Spec => []PingBeforeTimeout
    OBVIOUS
  <1>1. LoopInv => PingBeforeTimeout
    BY LoopPromises
  <1> QED BY <1>1, LoopInvariant, PTL

(* A closing or unregistered connection is gone two iterations after its   *)
(* time is up, whatever the peers do to keep the loop busy.                *)
THEOREM DeadlinesAreKept == Throwing = {} => (Spec => []DeadlinesHold)
  <1> SUFFICES ASSUME Throwing = {} PROVE Spec => []DeadlinesHold
    OBVIOUS
  <1>1. LoopInv => DeadlinesHold
    BY LoopPromises
  <1> QED BY <1>1, LoopInvariant, PTL

-----------------------------------------------------------------------------
(* The loop implements ConnectionLife, step by step.                       *)

(* What a step may do to the entries of one descriptor: nothing, accept a  *)
(* connection, tell it to close, mark it while it is open or for the       *)
(* reason it was told, or close it once it is marked.                      *)
Stays(fd) ==
  /\ fd \in clients' <=> fd \in clients
  /\ marked'[fd] = marked[fd] /\ closing'[fd] = closing[fd]
Opens(fd) ==
  /\ fd \notin clients /\ fd \in clients'
  /\ marked'[fd] = None /\ closing'[fd] = None
GetsTold(fd) ==
  /\ fd \in clients /\ fd \in clients' /\ marked[fd] = None /\ marked'[fd] = None
  /\ closing[fd] = None /\ closing'[fd] \in Reason
GetsMarked(fd) ==
  /\ fd \in clients /\ fd \in clients' /\ marked[fd] = None
  /\ IF closing[fd] = None
     THEN marked'[fd] \in Reason /\ closing'[fd] = None
     ELSE /\ marked'[fd] # None
          /\ \/ closing'[fd] = closing[fd]
             \/ closing'[fd] = None /\ marked'[fd] = closing[fd]
GetsClosed(fd) ==
  fd \in clients /\ fd \notin clients' /\ marked[fd] # None
Moves(fd) ==
  Stays(fd) \/ Opens(fd) \/ GetsTold(fd) \/ GetsMarked(fd) \/ GetsClosed(fd)

(* None is not a reason.                                                   *)
LEMMA NoneIsNoReason == None \notin Reason
  BY DEF Reason, Announced, None, Blank

(* The abstract steps, stage by stage.                                     *)
LEMMA AbstractSteps ==
  /\ Life!Open \in Life!Onward(Life!Free)
  /\ \A why \in Reason : /\ Life!Closing(why) \in Life!Onward(Life!Open)
                         /\ Life!Marked(why) \in Life!Onward(Life!Open)
  /\ \A why : /\ Life!Marked(why) \in Life!Onward(Life!Closing(why))
              /\ Life!Free \in Life!Onward(Life!Marked(why))
  <1> USE DEF Life!Free, Life!Open, Life!Closing, Life!Marked
  <1>1. /\ Life!Free # Life!Open
        /\ \A why : /\ Life!Closing(why) # Life!Free /\ Life!Closing(why) # Life!Open
                    /\ Life!Marked(why) # Life!Free /\ Life!Marked(why) # Life!Open
    <2>1. Life!Free.stage = "free" /\ Life!Open.stage = "open"
      OBVIOUS
    <2>2. \A why : Life!Closing(why).stage = "closing" /\ Life!Marked(why).stage = "marked"
      OBVIOUS
    <2> QED BY <2>1, <2>2
  <1>2. Life!Onward(Life!Free) = {Life!Open}
    BY <1>1 DEF Life!Onward
  <1>3. Life!Onward(Life!Open) = {Life!Closing(why) : why \in Reason} \cup {Life!Marked(why) : why \in Reason}
    BY <1>1 DEF Life!Onward
  <1>4. \A why : Life!Onward(Life!Closing(why)) = {Life!Marked(why)}
    BY <1>1 DEF Life!Onward
  <1>5. \A why : Life!Onward(Life!Marked(why)) = {Life!Free}
    BY <1>1 DEF Life!Onward
  <1> QED BY <1>2, <1>3, <1>4, <1>5

(* The stage of a descriptor, from its entries.                            *)
LEMMA StageOf ==
  ASSUME NEW fd \in Fd
  PROVE  /\ fd \notin clients => lifeOf[fd] = Life!Free
         /\ fd \in clients /\ marked[fd] # None => lifeOf[fd] = Life!Marked(Cause(fd))
         /\ fd \in clients /\ marked[fd] = None /\ closing[fd] # None
              => lifeOf[fd] = Life!Closing(closing[fd])
         /\ fd \in clients /\ marked[fd] = None /\ closing[fd] = None
              => lifeOf[fd] = Life!Open
  BY DEF lifeOf, isMarked, isClosing, Life!Free, Life!Open, Life!Closing, Life!Marked

(* The same after a step.                                                  *)
LEMMA StageOfNext ==
  ASSUME NEW fd \in Fd
  PROVE  /\ fd \notin clients' => lifeOf'[fd] = Life!Free
         /\ fd \in clients' /\ marked'[fd] # None =>
              lifeOf'[fd] = Life!Marked(IF closing'[fd] # None THEN closing'[fd] ELSE marked'[fd])
         /\ fd \in clients' /\ marked'[fd] = None /\ closing'[fd] # None
              => lifeOf'[fd] = Life!Closing(closing'[fd])
         /\ fd \in clients' /\ marked'[fd] = None /\ closing'[fd] = None
              => lifeOf'[fd] = Life!Open
  BY DEF lifeOf, isMarked, isClosing, Cause, Life!Free, Life!Open, Life!Closing, Life!Marked

(* Every move of the entries is a step of the stage, or none.              *)
LEMMA MovesAreSteps ==
  ASSUME NEW fd \in Fd, Moves(fd)
  PROVE  lifeOf'[fd] \in {lifeOf[fd]} \cup Life!Onward(lifeOf[fd])
  <1>1. CASE Stays(fd)
    BY <1>1, StageOf, StageOfNext DEF Stays, Cause, isClosing
  <1>2. CASE Opens(fd)
    BY <1>2, StageOf, StageOfNext, AbstractSteps DEF Opens
  <1>3. CASE GetsTold(fd)
    BY <1>3, StageOf, StageOfNext, AbstractSteps, NoneIsNoReason DEF GetsTold
  <1>4. CASE GetsMarked(fd)
    <2>1. CASE closing[fd] = None
      <3>1. lifeOf[fd] = Life!Open
        BY <1>4, <2>1, StageOf DEF GetsMarked
      <3>2. lifeOf'[fd] = Life!Marked(marked'[fd]) /\ marked'[fd] \in Reason
        BY <1>4, <2>1, StageOfNext, NoneIsNoReason DEF GetsMarked
      <3> QED BY <3>1, <3>2, AbstractSteps
    <2>2. CASE closing[fd] # None
      <3>1. lifeOf[fd] = Life!Closing(closing[fd])
        BY <1>4, <2>2, StageOf DEF GetsMarked
      <3>2. lifeOf'[fd] = Life!Marked(closing[fd])
        BY <1>4, <2>2, StageOfNext DEF GetsMarked
      <3> QED BY <3>1, <3>2, AbstractSteps
    <2> QED BY <2>1, <2>2
  <1>5. CASE GetsClosed(fd)
    <2>1. lifeOf[fd] = Life!Marked(Cause(fd)) /\ lifeOf'[fd] = Life!Free
      BY <1>5, StageOf, StageOfNext DEF GetsClosed
    <2> QED BY <2>1, AbstractSteps
  <1> QED BY <1>1, <1>2, <1>3, <1>4, <1>5 DEF Moves

(* Marking a client is a move of that client alone.                        *)
LEMMA MarkMoves ==
  ASSUME TypeOK, NEW fd \in Fd, fd \in clients, NEW reason \in Reason,
         markForDisconnection(fd, reason), clients' = clients, closing' = closing
  PROVE  \A d \in Fd : Moves(d)
  <1>1. /\ \A d \in Fd \ {fd} : marked'[d] = marked[d]
        /\ marked'[fd] = IF marked[fd] # None THEN marked[fd] ELSE reason
    BY MarksGrow, NoneIsNoReason
  <1>2. \A d \in Fd \ {fd} : Stays(d)
    BY <1>1 DEF Stays
  <1>3. Stays(fd) \/ GetsMarked(fd)
    BY <1>1, NoneIsNoReason DEF Stays, GetsMarked
  <1> QED BY <1>2, <1>3 DEF Moves

(* A step that leaves the tables alone moves nothing.                      *)
LEMMA NothingMoves ==
  ASSUME clients' = clients, marked' = marked, closing' = closing
  PROVE  \A d \in Fd : Moves(d)
  BY DEF Moves, Stays

(* The reasons the loop itself gives.                                      *)
LEMMA ReasonsGiven ==
  /\ {"Receive error", "Client disconnected", "Input buffer overflow", "Send error",
      "Connection error", "Internal error", "Registration timeout",
      "SendQ exceeded", "Client Quit", "Bad Password", "Ping timeout", Blank} \subseteq Reason
  /\ Announced \subseteq Reason
  BY DEF Reason, Announced

(* Every step of the loop moves each descriptor, or leaves it alone.       *)
LEMMA LoopMoves ==
  ASSUME LoopInv, Loop, Throwing = {}
  PROVE  \A d \in Fd : Moves(d)
  <1>0. TypeOK /\ TablesAgree /\ Fresh /\ Condemned
    BY DEF LoopInv, TableInv
  <1>1. /\ clients \subseteq Fd
        /\ \A d \in Fd \ clients : marked[d] = None /\ closing[d] = None
        /\ todo \subseteq clients /\ (phase = "lines" => cur \in clients)
    BY <1>0 DEF TypeOK, TablesAgree, isMarked, isClosing
  <1>2. CASE refreshPollEvents
    <2>1. clients' = clients /\ closing' = closing
      BY <1>2 DEF refreshPollEvents
    <2>2. \A d \in Fd : \/ marked'[d] = marked[d]
                        \/ d \in clients /\ marked[d] = None /\ marked'[d] = "SendQ exceeded"
      BY <1>2 DEF refreshPollEvents, isMarked
    <2>3. "SendQ exceeded" \in Reason
      BY ReasonsGiven
    <2> QED BY <2>1, <2>2, <2>3, NoneIsNoReason DEF Moves, Stays, GetsMarked
  <1>3. CASE \/ \E dt \in 0..MaxStep : Poll(dt)
             \/ acceptFails \/ acceptDropped \/ eventsDone \/ cleanupDone
    <2>1. clients' = clients /\ marked' = marked /\ closing' = closing
      BY <1>3 DEF Poll, pollReady, pollTimeout, acceptFails, acceptDropped, eventsDone,
                  cleanupDone, tables
    <2> QED BY <2>1, NothingMoves
  <1>4. ASSUME NEW fd \in Fd, acceptNewClient(fd)
        PROVE  \A d \in Fd : Moves(d)
    <2>1. /\ fd \notin clients /\ clients' = clients \cup {fd}
          /\ marked' = marked /\ closing' = closing
      BY <1>4 DEF acceptNewClient
    <2>2. Opens(fd)
      BY <1>1, <2>1 DEF Opens
    <2>3. \A d \in Fd \ {fd} : Stays(d)
      BY <2>1 DEF Stays
    <2> QED BY <2>2, <2>3 DEF Moves
  <1>5. ASSUME NEW fd \in todo, Visit(fd)
        PROVE  \A d \in Fd : Moves(d)
    <2>0. fd \in clients /\ fd \in Fd
      BY <1>1
    <2>1. CASE connectionError(fd)
      BY <1>0, <2>0, <2>1, MarkMoves, ReasonsGiven DEF connectionError
    <2>2. CASE writable(fd)
      BY <2>2, NothingMoves DEF writable, Handle
    <2>3. ASSUME NEW out \in BOOLEAN, Receive(fd, out)
          PROVE  \A d \in Fd : Moves(d)
      <3>1. ASSUME NEW reason \in {"Receive error", "Client disconnected", "Internal error", Blank},
                   receiveFails(fd, out, reason)
            PROVE  \A d \in Fd : Moves(d)
        BY <1>0, <2>0, <3>1, MarkMoves, ReasonsGiven DEF receiveFails, Handle
      <3>2. CASE receiveIgnored(fd, out)
        BY <3>2, NothingMoves DEF receiveIgnored, Handle
      <3>3. ASSUME NEW n \in 0..MaxLines, receiveData(fd, out, n)
            PROVE  \A d \in Fd : Moves(d)
        BY <3>3, NothingMoves DEF receiveData, Handle
      <3>4. ASSUME NEW reason \in {"Input buffer overflow", "Internal error", Blank},
                   receiveOverflow(fd, out, reason)
            PROVE  \A d \in Fd : Moves(d)
        BY <1>0, <2>0, <3>4, MarkMoves, ReasonsGiven DEF receiveOverflow, Handle
      <3> QED BY <2>3, <3>1, <3>2, <3>3, <3>4 DEF Receive
    <2> QED BY <1>5, <2>1, <2>2, <2>3 DEF Visit
  <1>6. CASE Line
    <2>0. moreLines /\ cur \in clients /\ cur \in Fd /\ marked[cur] = None /\ closing[cur] = None
      <3>1. moreLines
        BY <1>6 DEF Line, lineAnswers, lineRegisters, lineCloses, lineThrows
      <3> QED BY <1>1, <3>1 DEF moreLines, isMarked, isClosing
    <2>1. CASE (\E S \in SUBSET clients : lineAnswers(S)) \/ lineRegisters
      BY <2>1, NothingMoves DEF lineAnswers, lineRegisters, tables
    <2>2. ASSUME NEW reason \in {"Client Quit", "Bad Password"}, lineCloses(reason)
          PROVE  \A d \in Fd : Moves(d)
      <3>1. clients' = clients /\ marked' = marked
        BY <2>2 DEF lineCloses
      <3>2. closing'[cur] = reason /\ \A d \in Fd \ {cur} : closing'[d] = closing[d]
        BY <2>0, <2>2 DEF lineCloses, disconnectAfterFlush
      <3>3. reason \in Reason
        BY ReasonsGiven
      <3>4. GetsTold(cur)
        BY <2>0, <3>1, <3>2, <3>3 DEF GetsTold
      <3>5. \A d \in Fd \ {cur} : Stays(d)
        BY <3>1, <3>2 DEF Stays
      <3> QED BY <3>4, <3>5 DEF Moves
    <2>3. CASE lineThrows
      BY <1>0, <2>0, <2>3, MarkMoves, ReasonsGiven DEF lineThrows
    <2> QED BY <1>6, <2>1, <2>2, <2>3 DEF Line
  <1>7. CASE Send
    <2>0. cur \in clients /\ cur \in Fd /\ clients' = clients
      <3>1. EndVisit
        BY <1>7 DEF Send, noSend, sendFails, sendThrows, sendData
      <3> QED BY <1>1, <3>1 DEF EndVisit
    <2>1. CASE noSend
      BY <2>0, <2>1, NothingMoves DEF noSend
    <2>2. CASE sendFails \/ sendThrows
      BY <1>0, <2>0, <2>2, MarkMoves, ReasonsGiven DEF sendFails, sendThrows
    <2>3. ASSUME NEW n \in 1..MAX_SENDQ + 1, sendData(n)
          PROVE  \A d \in Fd : Moves(d)
      <3>1. CASE n = outbuf[cur] /\ isClosing(cur)
        <4>1. markForDisconnection(cur, closing[cur]) /\ closing' = [closing EXCEPT ![cur] = None]
              /\ marked[cur] = None /\ closing[cur] # None
          BY <2>3, <3>1 DEF sendData, maySend, isMarked, isClosing
        <4>2. closing'[cur] = None /\ \A d \in Fd \ {cur} : closing'[d] = closing[d]
          BY <1>0, <2>0, <4>1 DEF TypeOK
        <4>3. marked'[cur] = closing[cur] /\ \A d \in Fd \ {cur} : marked'[d] = marked[d]
          BY <1>0, <2>0, <4>1, MarksGrow
        <4>4. GetsMarked(cur)
          BY <2>0, <4>1, <4>2, <4>3 DEF GetsMarked
        <4>5. \A d \in Fd \ {cur} : Stays(d)
          BY <2>0, <4>2, <4>3 DEF Stays
        <4> QED BY <4>4, <4>5 DEF Moves
      <3>2. CASE ~ (n = outbuf[cur] /\ isClosing(cur))
        BY <2>0, <2>3, <3>2, NothingMoves DEF sendData
      <3> QED BY <3>1, <3>2
    <2> QED BY <1>7, <2>1, <2>2, <2>3 DEF Send
  <1>8. ASSUME NEW fd \in Fd, NEW S, disconnect(fd, S)
        PROVE  \A d \in Fd : Moves(d)
    <2>1. /\ marked[fd] # None /\ clients' = clients \ {fd}
          /\ \A d \in Fd \ {fd} : marked'[d] = marked[d] /\ closing'[d] = closing[d]
      BY <1>0, <1>8 DEF disconnect, eraseClosing, isMarked, TypeOK
    <2>2. GetsClosed(fd)
      BY <1>1, <2>1 DEF GetsClosed
    <2>3. \A d \in Fd \ {fd} : Stays(d)
      BY <2>1 DEF Stays
    <2> QED BY <2>2, <2>3 DEF Moves
  <1>9. CASE checkIdleClients
    <2>1. clients' = clients /\ \A d \in Fd : marked[d] = None
      BY <1>0, <1>9 DEF checkIdleClients, Condemned, isMarked
    <2>2. /\ \A d \in silent : closing[d] = None /\ closing'[d] = "Ping timeout"
          /\ \A d \in Fd \ silent : closing'[d] = closing[d]
      BY <1>1, <1>9 DEF checkIdleClients, disconnectAfterFlush, silent, Open, isClosing
    <2>3. /\ expired \cap unfinished = {} /\ expired \cap silent = {} /\ unfinished \cap silent = {}
          /\ expired \cup unfinished \cup silent \subseteq clients
          /\ \A d \in expired : closing[d] # None
          /\ \A d \in unfinished : closing[d] = None
      BY DEF expired, unfinished, silent, Open, isClosing
    <2>4. /\ \A d \in expired : marked'[d] = closing[d]
          /\ \A d \in unfinished : marked'[d] = "Registration timeout"
          /\ \A d \in Fd \ (expired \cup unfinished) : marked'[d] = marked[d]
      BY <1>1, <1>9, <2>1, <2>3 DEF checkIdleClients, isMarked
    <2>5. {"Registration timeout", "Ping timeout"} \subseteq Reason
      BY ReasonsGiven
    <2>6. \A d \in expired : GetsMarked(d)
      BY <1>1, <2>1, <2>2, <2>3, <2>4 DEF GetsMarked
    <2>7. \A d \in unfinished : GetsMarked(d)
      BY <1>1, <2>1, <2>2, <2>3, <2>4, <2>5 DEF GetsMarked
    <2>8. \A d \in silent : GetsTold(d)
      BY <1>1, <2>1, <2>2, <2>3, <2>4, <2>5 DEF GetsTold
    <2>9. \A d \in Fd \ (expired \cup unfinished \cup silent) : Stays(d)
      BY <2>1, <2>2, <2>4 DEF Stays
    <2> QED BY <2>6, <2>7, <2>8, <2>9 DEF Moves
  <1>10. ~Throw
    BY NothingThrown
  <1> QED BY <1>2, <1>3, <1>4, <1>5, <1>6, <1>7, <1>8, <1>9, <1>10 DEF Loop

(* As long as no iteration is cut short, each step of the loop is one of   *)
(* ConnectionLife or changes no stage: the first reason counts, nobody who *)
(* was told to go is served again, and nobody goes without a mark.         *)
THEOREM LoopImplementsLife == Throwing = {} => (Spec => LifeSteps)
  <1> SUFFICES ASSUME Throwing = {} PROVE Spec => LifeSteps
    OBVIOUS
  <1>1. Init => Life!Init
    <2> SUFFICES ASSUME Init PROVE lifeOf = [fd \in Fd |-> Life!Free]
      BY DEF Life!Init
    <2>1. \A fd \in Fd : lifeOf[fd] = Life!Free
      BY StageOf DEF Init
    <2> QED BY <2>1 DEF lifeOf
  <1>2. LoopInv /\ [Next]_vars => [Life!Next]_lifeOf
    <2> SUFFICES ASSUME LoopInv, [Next]_vars PROVE Life!Next \/ lifeOf' = lifeOf
      OBVIOUS
    <2>1. CASE Loop
      <3>1. \A fd \in Fd : lifeOf'[fd] \in {lifeOf[fd]} \cup Life!Onward(lifeOf[fd])
        BY <2>1, LoopMoves, MovesAreSteps
      <3> QED BY <3>1 DEF Life!Next
    <2>2. CASE Stop
      <3>1. \A fd \in Fd : lifeOf'[fd] = Life!Free
        BY <2>2, StageOfNext DEF Stop
      <3> QED BY <3>1 DEF Life!Next
    <2>3. CASE UNCHANGED vars
      <3>1. clients' = clients /\ marked' = marked /\ closing' = closing
        BY <2>3 DEF vars, tables
      <3> QED BY <3>1 DEF lifeOf, isMarked, isClosing, Cause
    <2> QED BY <2>1, <2>2, <2>3 DEF Next
  <1> QED BY <1>1, <1>2, LoopInvariant, PTL DEF Spec, LifeSteps

=============================================================================
